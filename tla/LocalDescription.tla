-------------------------- MODULE LocalDescription --------------------------
(***************************************************************************)
(* The local video of one session as the peer is told of it: what the      *)
(* browser writes into a description, what TraceablePeerConnection makes   *)
(* of it, what its localDescription getter shows, what JingleSessionPC     *)
(* sends of the changes and what the other side makes of that.             *)
(*                                                                         *)
(* Tasks of the modification queue are steps here (JingleSession has what  *)
(* can get between and what can fail); the session is active.  One video   *)
(* track, sdp munging for simulcast (Chrome), source names not signalled.  *)
(* Three kinds of connection: unified plan through the bridge, unified     *)
(* plan and plan B in P2P.  (Plan B through the bridge has its simulcast   *)
(* from a library.)  Through the bridge, the focus passes source-add and   *)
(* source-remove on to the participant that stands for the peer.           *)
(***************************************************************************)
EXTENDS VideoSdp

CONSTANTS Track,         \* local video tracks
          Camera,        \* those whose mute takes the stream off the connection
          Mode,          \* the kinds of connection to look at
          NoTrack,
          MaxCalls       \* bound: tasks

ASSUME LocalDescriptionAssumption ==
    /\ Camera \subseteq Track /\ NoTrack \notin Track /\ MaxCalls \in Nat
    /\ \A m \in Mode : m.p2p \/ m.unified

VARIABLES mode,    \* [unified, p2p, rtx, cap]
          pc,      \* the RTCPeerConnection
          tpc,     \* the TraceablePeerConnection
          muted,   \* cameras without a stream
          wire,    \* source-add and source-remove under way
          remote,  \* the video section of the peer's remote description
          next,    \* the first SSRC not drawn yet
          first,   \* history: the sources the peer was told of first
          calls

vars == <<mode, pc, tpc, muted, wire, remote, next, first, calls>>

(* ---- the browser ------------------------------------------------------- *)

(* A section that sends again is given new sources, one that went on       *)
(* sending keeps those it was set with.  In plan B a stream that was not   *)
(* there before is a new one.                                              *)
Fresh(n, dir) ==
    [dir |-> dir, ssrcs |-> IF mode.rtx THEN <<n, n + 1>> ELSE <<n>>,
     msid |-> IF mode.rtx THEN {n, n + 1} ELSE {n},
     groups |-> IF mode.rtx THEN <<Fid(n, n + 1)>> ELSE <<>>]

Written(p, n) ==
    LET dir == CASE mode.unified -> p.dir
                 [] ~mode.unified /\ p.of = NoTrack -> "recvonly"
                 [] OTHER -> "sendrecv"
        kept == IF mode.unified THEN Sends(p.local) ELSE p.localOf = p.of
    IN  CASE ~Sends([dir |-> dir]) -> [m |-> Bare(dir), next |-> n]
          [] Sends([dir |-> dir]) /\ kept -> [m |-> [p.local EXCEPT !.dir = dir], next |-> n]
          [] OTHER -> [m |-> Fresh(n, dir), next |-> n + (IF mode.rtx THEN 2 ELSE 1)]

(* ---- the peer connection ----------------------------------------------- *)

SimulcastOn == ~mode.p2p

(* The source by which the rest of the client knows the track: the first   *)
(* that heads a group, or the first.                                       *)
ExtractPrimarySsrc(m) ==
    LET known == SelectSeq(m.ssrcs, LAMBDA x : mode.unified \/ x \in m.msid)
        heads == SelectSeq(known, LAMBDA x : \E g \in Range(m.groups) : g.of[1] = x)
    IN  CASE heads # <<>> -> heads[1]
          [] heads = <<>> /\ known # <<>> -> known[1]
          [] OTHER -> None

ProcessLocalSsrcs(t, m) ==
    IF t.track = NoTrack \/ ExtractPrimarySsrc(m) = None THEN t
    ELSE [t EXCEPT !.ssrc[t.track] = ExtractPrimarySsrc(m)]

(* _createOfferOrAnswer                                                    *)
CreateOfferOrAnswer(p, t, n) ==
    LET w == Written(p, n)
        draws == ~mode.unified /\ t.track = NoTrack /\ t.primary = None
        d == [m |-> w.m, cache |-> t.cache, rtx |-> t.rtx, inject |-> t.inject,
              primary |-> IF draws THEN w.next ELSE t.primary,
              next |-> IF draws THEN w.next + 1 ELSE w.next]
        Consistent(x) == IF mode.unified THEN x ELSE MakeVideoPrimarySsrcsConsistent(x)
        Layered(x) == IF SimulcastOn THEN MungeLocalDescription(x) ELSE x
        Retransmitted(x) == IF mode.rtx THEN ModifyRtxSsrcs(x) ELSE x
    IN  Retransmitted(Layered(Consistent(d)))

(* getDesiredMediaDirection, for the local description of plan B           *)
DesiredDirection(t) ==
    CASE ~t.active -> "inactive"
      [] t.active /\ t.track # NoTrack -> "sendrecv"
      [] OTHER -> "recvonly"

AdjustLocalMediaDirection(t, m) == [m EXCEPT !.dir = DesiredDirection(t)]

(* setLocalDescription; plan B alone adjusts the direction itself.         *)
SetLocalDescription(p, t, m) ==
    [p EXCEPT !.local = IF mode.unified THEN m ELSE AdjustLocalMediaDirection(t, m),
              !.localOf = p.of]

(* _renegotiate: the remote description as it is, an answer (or an offer)  *)
(* and setLocalDescription.                                                *)
Renegotiated(p, t, n) ==
    LET With(d) ==
          [pc |-> SetLocalDescription(p, t, d.m),
           tpc |-> ProcessLocalSsrcs([t EXCEPT !.cache = d.cache, !.rtx = d.rtx,
                                              !.primary = d.primary, !.inject = d.inject], d.m),
           next |-> d.next]
    IN  With(CreateOfferOrAnswer(p, t, n))

(* Faulty: a muted camera is left out of the description.                  *)
LocalDescriptionAsIs(p, t, mut) ==
    IF mode.unified THEN TransformMediaIdentifiers(p.local)
    ELSE [p.local EXCEPT !.dir = "sendrecv"]

(* The getter localDescription.                                            *)
LocalDescription(p, t, mut) ==
    LET d == [m |-> p.local, primary |-> t.primary, rtx |-> t.rtx, next |-> next]
        fake == t.track \in Camera /\ (t.track \in mut \/ p.of = NoTrack)
    IN  IF mode.unified THEN TransformMediaIdentifiers(p.local)
        ELSE [(IF fake THEN AddMutedLocalVideo(d) ELSE p.local) EXCEPT !.dir = "sendrecv"]

Told == LocalDescription(pc, tpc, muted)

(* ---- the peer ---------------------------------------------------------- *)

SetRemoteDescription(m) ==
    IF ~mode.unified THEN m
    ELSE EnsureCorrectOrderOfSsrcs(IF SimulcastOn THEN MungeRemoteDescription(m) ELSE m)

Processed(m, iq) ==
    SetRemoteDescription(IF iq.action = "add" THEN AddSourcesOf(m, iq)
                         ELSE RemoveSourcesOf(m, iq))

-----------------------------------------------------------------------------
Become(r) == pc' = r.pc /\ tpc' = r.tpc /\ next' = r.next

(* The task renegotiates and tells the peer of the difference, with the    *)
(* cameras mut muted after it.                                             *)
RenegotiateMuted(p, t, n, mut) ==
    LET Tell(new) == /\ wire' = wire \o SourceUpdates(Told, new)
                     /\ first' = IF first = {} THEN new.msid ELSE first
        BecomeAndTell(r) == Become(r) /\ Tell(LocalDescription(r.pc, r.tpc, mut))
    IN  BecomeAndTell(Renegotiated(p, t, n))

RenegotiateAndNotify(p, t, n) == RenegotiateMuted(p, t, n, muted)

Call == calls < MaxCalls /\ calls' = calls + 1

(* The transceiver of a track that is replaced, while media are suspended  *)
(* too.                                                                    *)
Direction(t, track) ==
    IF ~t.active THEN "inactive" ELSE IF track # NoTrack THEN "sendrecv" ELSE "recvonly"

(* The sources of a track that has no stream yet: n and, with              *)
(* retransmission, n + 1 (without simulcast, as in P2P).                   *)
NewStreamSsrcs(t, n, x) ==
    [t EXCEPT !.primary = n, !.ssrc[x] = n,
              !.rtx = IF mode.rtx THEN n :> n + 1 ELSE <<>>]

(* addTrack in plan B: a muted camera is given its sources in advance.     *)
WithTrack(p, t, n, x) ==
    IF x \in muted
    THEN [pc |-> [p EXCEPT !.of = NoTrack],
          tpc |-> NewStreamSsrcs([t EXCEPT !.track = x], n, x),
          next |-> n + 2]
    ELSE [pc |-> [p EXCEPT !.of = x], tpc |-> [t EXCEPT !.track = x], next |-> n]

Cleared(t) == [t EXCEPT !.primary = None, !.inject = FALSE]

(* replaceTrack(null, x).  In unified plan a track without a stream only   *)
(* goes onto the list.                                                     *)
AddTrack(x) ==
    /\ Call /\ tpc.track = NoTrack
    /\ IF mode.unified
       THEN LET p == IF x \in muted THEN [pc EXCEPT !.lost = TRUE]
                     ELSE [pc EXCEPT !.dir = Direction(tpc, x), !.of = x, !.lost = FALSE]
            IN  RenegotiateAndNotify(p, [tpc EXCEPT !.track = x], next)
       ELSE LET w == WithTrack(pc, Cleared(tpc), next, x)
            IN  RenegotiateAndNotify(w.pc, w.tpc, w.next)
    /\ UNCHANGED <<mode, muted, remote>>

(* replaceTrack(x, null).  In unified plan without a renegotiation of its  *)
(* own.                                                                    *)
RemoveTrack ==
    /\ Call /\ tpc.track # NoTrack
    /\ IF mode.unified
       THEN /\ pc' = [pc EXCEPT !.dir = Direction(tpc, NoTrack), !.of = NoTrack, !.lost = FALSE]
            /\ tpc' = [tpc EXCEPT !.track = NoTrack]
            /\ UNCHANGED <<next, wire, first>>
       ELSE RenegotiateAndNotify(
              [pc EXCEPT !.of = NoTrack],
              [Cleared(tpc) EXCEPT !.track = NoTrack, !.primary = next, !.ssrc[tpc.track] = None],
              next + 1)
    /\ UNCHANGED <<mode, muted, remote>>

(* Faulty: the sources stay with the track that is gone.                   *)
ReplacedTrackOnly(t, y) == [t EXCEPT !.track = y]

(* TPC.replaceTrack(x, y) in unified plan: y takes the sources of x over.  *)
ReplacedTrack(t, y) ==
    [t EXCEPT !.track = y,
              !.ssrc = IF @[t.track] = None THEN @
                       ELSE [@ EXCEPT ![y] = t.ssrc[t.track], ![t.track] = None]]

ReplaceTrack(y) ==
    /\ Call /\ tpc.track \notin {NoTrack, y}
    /\ IF mode.unified
       THEN /\ pc' = IF y \in muted THEN pc
                     ELSE [pc EXCEPT !.dir = Direction(tpc, y), !.of = y, !.lost = FALSE]
            /\ tpc' = ReplacedTrack(tpc, y)
            /\ UNCHANGED <<next, wire, first>>
       ELSE LET t == IF mode.cap THEN Cleared(tpc) ELSE tpc
                w == WithTrack(pc, [t EXCEPT !.ssrc[tpc.track] = None], next, y)
            IN  RenegotiateAndNotify(w.pc, w.tpc, w.next)
    /\ UNCHANGED <<mode, muted, remote>>

(* addTrackUnmute and removeTrackMute, in plan B.                          *)
Unmuted(p, x) == [p EXCEPT !.of = x]
MutedPc(p) == [p EXCEPT !.of = NoTrack]

(* The camera is muted or unmuted: in plan B its stream goes or comes and  *)
(* the session renegotiates and tells what became different, in unified    *)
(* plan the sender gets another track.  A camera that is in no session     *)
(* just changes.                                                           *)
SetMuted(x) ==
    /\ Call /\ x \in Camera
    /\ muted' = IF x \in muted THEN muted \ {x} ELSE muted \union {x}
    /\ IF ~mode.unified /\ tpc.track = x
       THEN RenegotiateMuted(IF x \in muted THEN Unmuted(pc, x) ELSE MutedPc(pc), tpc, next,
                             muted')
       ELSE UNCHANGED <<pc, tpc, next, wire, first>>
    /\ UNCHANGED <<mode, remote>>

(* What setVideoTransferActive of the peer connection does at once.        *)
VideoTransfer(active) ==
    LET t == [tpc EXCEPT !.active = active]
    IN  [tpc |-> t, next |-> next,
         pc |-> IF mode.unified
                THEN [pc EXCEPT !.dir = Direction(t, t.track), !.lost = FALSE] ELSE pc]

(* setVideoTransferActive, for P2P and for what the peer asks: only plan B *)
(* renegotiates, and nobody is told.                                       *)
SetVideoTransferActive ==
    /\ Call
    /\ LET v == VideoTransfer(~tpc.active)
       IN  Become(IF mode.unified THEN v ELSE Renegotiated(v.pc, v.tpc, v.next))
    /\ UNCHANGED <<mode, muted, wire, remote, first>>

(* The sources of the other side change: a renegotiation that tells what   *)
(* has become different here.                                              *)
AddOrRemoveRemoteStream ==
    /\ Call
    /\ RenegotiateAndNotify(pc, tpc, next)
    /\ UNCHANGED <<mode, muted, remote>>

(* The browser asks for a negotiation; in P2P it is not heard.             *)
NegotiationNeeded ==
    /\ mode.unified /\ ~mode.p2p
    /\ pc.dir # pc.local.dir
    /\ RenegotiateAndNotify(pc, tpc, next)
    /\ UNCHANGED <<mode, muted, remote, calls>>

(* The peer processes a source-add or a source-remove.                     *)
Deliver ==
    /\ wire # <<>>
    /\ remote' = Processed(remote, Head(wire))
    /\ wire' = Tail(wire)
    /\ UNCHANGED <<mode, pc, tpc, muted, next, first, calls>>

Next ==
    \/ \E x \in Track : AddTrack(x) \/ ReplaceTrack(x) \/ SetMuted(x)
    \/ RemoveTrack
    \/ SetVideoTransferActive
    \/ AddOrRemoveRemoteStream
    \/ NegotiationNeeded
    \/ Deliver

-----------------------------------------------------------------------------
(* The session has been accepted with a track or without one: the peer     *)
(* knows what the first description says.                                  *)
NewPc == [dir |-> "recvonly", of |-> NoTrack, local |-> Bare("inactive"),
          localOf |-> NoTrack, lost |-> FALSE]
NewTpc == [active |-> TRUE, track |-> NoTrack, primary |-> None, inject |-> FALSE,
           cache |-> <<>>, rtx |-> <<>>, ssrc |-> [x \in Track |-> None]]

(* addTrack in unified plan: a transceiver that is free takes the track.   *)
WithSender(p, x) == [p EXCEPT !.dir = "sendrecv", !.of = x]

Accepted(x) ==
    LET w == CASE x = NoTrack -> [pc |-> NewPc, tpc |-> NewTpc, next |-> 1]
               [] x # NoTrack /\ mode.unified ->
                    [pc |-> WithSender(NewPc, x), tpc |-> [NewTpc EXCEPT !.track = x],
                     next |-> 1]
               [] OTHER -> WithTrack(NewPc, NewTpc, 1, x)
    IN  Renegotiated(w.pc, w.tpc, w.next)

Everything(m) == [action |-> "add", ssrcs |-> Sources(m), msid |-> m.msid, groups |-> m.groups]

Init ==
    /\ mode \in Mode
    /\ muted \in SUBSET Camera
    /\ calls = 0
    /\ wire = <<>>
    /\ \E x \in Track \union {NoTrack} :
         \E a \in {Accepted(x)} : pc = a.pc /\ tpc = a.tpc /\ next = a.next
    /\ remote = Processed(Bare("sendonly"), Everything(Told))
    /\ first = Told.msid

Spec == Init /\ [][Next]_vars

-----------------------------------------------------------------------------
(* Nothing is under way: the peer has heard everything, and the browser    *)
(* has negotiated what it asked for, where it is heard.                    *)
Settled ==
    /\ wire = <<>>
    /\ mode.unified /\ ~mode.p2p => pc.dir = pc.local.dir

(* The peer has the sources and the groups that the local description      *)
(* shows, no more and each once, as far as it tells its browser of them:   *)
(* what suspension and replacement leave untold is what has not            *)
(* changed (notifyMySSRCUpdate, _parseSsrcInfoFromSourceAdd and -Remove).  *)
PeerDescribes ==
    Settled =>
      LET want == SetRemoteDescription(Told) IN
      /\ Sources(remote) = Sources(want)
      /\ remote.msid = want.msid
      /\ Range(remote.groups) = Range(want.groups)
      /\ Len(remote.groups) = Len(want.groups)

(* What is told can be used: every group is of sources that are told, no   *)
(* source is in two groups of a kind, and with retransmission every source *)
(* is in one.                                                              *)
WellFormed(m) ==
    /\ \A g \in Range(m.groups) : Range(g.of) \subseteq Sources(m)
    /\ \A i, j \in DOMAIN m.groups :
         i # j /\ m.groups[i].sem = m.groups[j].sem
           => Range(m.groups[i].of) \intersect Range(m.groups[j].of) = {}
    /\ mode.rtx => \A x \in Sources(m) :
                     \E g \in Range(m.groups) : g.sem = "FID" /\ x \in Range(g.of)

(* Through the bridge a session has one set of sources: whatever the       *)
(* browser draws after a suspension or a removal, those the peer was first *)
(* told of are told again, with their layers and retransmissions (the      *)
(* caches of SdpSimulcast and RtxModifier).                                *)
SameSources ==
    /\ WellFormed(Told)
    /\ ~mode.p2p /\ Told.ssrcs # <<>> => Sources(Told) = first

(* A track of an active session is told of.  Not so in P2P with unified    *)
(* plan while a change of direction waits for somebody else to renegotiate, *)
(* nor once a muted camera was added in unified plan, whose transceiver    *)
(* stays as it was (TPC.replaceTrack).                                     *)
TrackTold ==
    (/\ Settled /\ tpc.active /\ tpc.track # NoTrack /\ ~pc.lost
     /\ mode.unified => pc.dir = pc.local.dir)
    => Told.msid # {}

(* The client knows its track by the source the peer knows it by           *)
(* (localSSRCs): the first layer of what is told.                          *)
TrackKnowsSsrc ==
    (/\ Settled /\ tpc.track # NoTrack /\ Told.ssrcs # <<>>)
    => tpc.ssrc[tpc.track] = ExtractPrimarySsrc(Told)
=============================================================================
