----------------------------- MODULE LocalTracks -----------------------------
(***************************************************************************)
(* The local tracks of a conference: JitsiLocalTrack, the track functions  *)
(* of JitsiConference and RTC, what the media sessions do with a track,    *)
(* and the mute state the room is told of.  Unified plan, a browser that   *)
(* mutes a camera by removing its stream, no multi-stream, source names    *)
(* not signalled, media not suspended on a session, nobody starts muted.   *)
(*                                                                         *)
(* A handler runs to its end, and what only waits for settled promises     *)
(* runs before any other handler.  What a handler waits for is a step of   *)
(* its own: an operation in the queue of a session, a device, an           *)
(* acknowledgement.                                                        *)
(***************************************************************************)
EXTENDS Integers, Sequences, FiniteSets, SequencesExt

CONSTANTS
    Track,
    Audio,        \* the audio tracks; the others are video
    Desktop,      \* the video tracks of a screen; the others are of a camera
    NoTrack,
    Session,      \* the media sessions: with the bridge, and with a peer
    Enhanced,     \* the tracks that may be given an effect
    Present,      \* the tracks added before any session, in their order
    Careful,      \* the application waits for a call on a kind before the next
    MaxCalls,     \* bound: calls on tracks, mutes of the focus among them
    CalledKinds,  \* bound: the kinds of the tracks they may be about
    MaxStarts     \* bound: starts of each session

ASSUME LocalTracksAssumption ==
    /\ Audio \subseteq Track /\ Desktop \subseteq Track \ Audio
    /\ Enhanced \subseteq Track /\ NoTrack \notin Track /\ Careful \in BOOLEAN
    /\ Session \subseteq {"jvb", "p2p"} /\ MaxCalls \in Nat
    /\ CalledKinds \subseteq {"audio", "video"}
    /\ MaxStarts \in [Session -> Nat]
    /\ Present \in Seq(Track) /\ IsInjective(Present)

VARIABLES
    trk,     \* the tracks
    conf,    \* the conference: its tracks, mutes of the focus, presence
    ses,     \* the sessions
    calls    \* what the application asked of the conference and is not done

vars == <<trk, conf, ses, calls>>

Kind == {"audio", "video"}
Video(t) == t \notin Audio
KindOf(t) == IF Video(t) THEN "video" ELSE "audio"
Camera(t) == Video(t) /\ t \notin Desktop
MaybeTrack == Track \cup {NoTrack}

\* live: there is a stream, the gen-th the device gave; ended: it was stopped.
\* effect: _streamEffect is set; made: an effect makes the stream, and did so
\* of the original one, the device's or an earlier effect's.
\* chain: the calls of _prevSetMuted, the first of which may be waiting for a
\* device or for the sessions in left.
TrackState ==
    [live : BOOLEAN, gen : 1..MaxCalls + 1, ended : BOOLEAN, effect : BOOLEAN,
     made : BOOLEAN, original : {"none", "device", "effect"},
     enabled : BOOLEAN, in : BOOLEAN, disposed : BOOLEAN, switching : BOOLEAN,
     chain : Seq([mute : BOOLEAN, focus : BOOLEAN]),
     waits : {"no", "device", "sessions"}, left : SUBSET Session]

\* What a presence says: "unset" counts as muted, and as a camera.
Presence == [mute : [Kind -> {"unset", "muted", "unmuted"}], type : {"unset", "camera", "desktop"}]

\* unsent: history, the kinds of which the presence was changed but, another
\* track of the conference being looked at after that, not sent.
\* unsaid: tracks that were not in the conference when they were muted or
\* unmuted, or, for a session without the kind, when the presence was updated.
\* astray: tracks whose call failed on some session, ran while a session
\* started or ended without an active session, those muted or unmuted while
\* they were being added, and those that took the place of one which the focus
\* was muting.
Conference ==
    [tracks : Seq(Track), byFocus : [Kind -> BOOLEAN], pres : Presence, sent : Presence,
     calls : 0..MaxCalls, unsent : SUBSET Kind, unsaid : SUBSET Track, astray : SUBSET Track]

\* dir: the kinds whose transceiver sends; told: those of the description the
\* other side has; acks: session-accept and source-add not acknowledged yet.
Media == [track : MaybeTrack, gen : 0..MaxCalls + 1, fx : BOOLEAN]
NoMedia == [track |-> NoTrack, gen |-> 0, fx |-> FALSE]
Op == [type : {"initial", "replace", "mute", "unmute"}, old : MaybeTrack, new : MaybeTrack,
       call : 0..MaxCalls, tracks : SUBSET Track]
SessionState ==
    [on : BOOLEAN, starts : Nat, queue : Seq(Op), tracks : SUBSET Track,
     sender : [Kind -> Media], dir : SUBSET Kind, told : SUBSET Kind, acks : Nat, active : BOOLEAN]

\* A call waits for replaceTrack on the sessions in left, and then goes on.
Call == [then : {"app", "fxRemove", "fxAdd", "dispose"}, on : BOOLEAN, disposing : BOOLEAN,
         old : MaybeTrack, new : MaybeTrack, left : SUBSET Session, failed : BOOLEAN]

Closed == [on |-> FALSE, starts |-> 0, queue |-> <<>>, tracks |-> {},
           sender |-> [k \in Kind |-> NoMedia], dir |-> {}, told |-> {}, acks |-> 0,
           active |-> FALSE]

Init ==
    /\ trk = [t \in Track |->
                [live |-> TRUE, gen |-> 1, ended |-> FALSE, effect |-> FALSE,
                 made |-> FALSE, original |-> "none",
                 enabled |-> TRUE, in |-> t \in ToSet(Present), disposed |-> FALSE, switching |-> FALSE,
                 chain |-> <<>>, waits |-> "no", left |-> {}]]
    /\ LET none == [mute |-> [k \in Kind |-> "unset"], type |-> "unset"]
       IN  conf = [tracks |-> Present, byFocus |-> [k \in Kind |-> FALSE], pres |-> none,
                   sent |-> none, calls |-> 0, unsent |-> {}, unsaid |-> {}, astray |-> {}]
    /\ ses = [s \in Session |-> Closed]
    /\ calls = [i \in {} |-> {}]

-----------------------------------------------------------------------------
\* A track x = trk[t].

MediaOf(x, t) ==
    IF x.live THEN [track |-> t, gen |-> x.gen, fx |-> x.made] ELSE NoMedia

\* isMuted; a video stream that was stopped is not active.
Muted(x, t) == ~x.live \/ (Video(t) /\ x.ended) \/ ~x.enabled

\* An effect gives back the stream it was given: none, if it was set on a
\* muted video.
StopEffect(x) ==
    IF ~x.effect THEN x
    ELSE IF x.original = "none" THEN [x EXCEPT !.live = FALSE, !.made = FALSE]
    ELSE [x EXCEPT !.ended = FALSE, !.made = x.original = "effect", !.original = "none"]

StartEffect(x) ==
    [x EXCEPT !.effect = TRUE, !.made = x.live,
              !.original = IF ~x.live THEN "none" ELSE IF x.made THEN "effect" ELSE "device"]

SwitchEffect(x, on) ==
    LET y == [StopEffect(x) EXCEPT !.effect = FALSE]
    IN  IF on THEN StartEffect(y) ELSE y

\* What _setMuted(true) does to a camera once the sessions have let go of it.
StoppedAsMute(x) == [StopEffect(x) EXCEPT !.live = FALSE, !.ended = TRUE]

\* What _setMuted(false) does to it: a new stream, to which the effect is applied.
Given(x) ==
    LET y == [x EXCEPT !.live = TRUE, !.gen = @ + 1, !.ended = FALSE, !.enabled = TRUE, !.made = FALSE]
    IN  IF x.effect THEN StartEffect(y) ELSE y

-----------------------------------------------------------------------------
\* The conference.  Functions work on a world w = [trk, conf, ses, calls].

World == [trk |-> trk, conf |-> conf, ses |-> ses, calls |-> calls]
Become(w) == trk' = w.trk /\ conf' = w.conf /\ ses' = w.ses /\ calls' = w.calls

Running(w) == {s \in Session : w.ses[s].on}
Tracks(w) == ToSet(w.conf.tracks)

Push(w, op) ==
    [w EXCEPT !.ses = [s \in Session |->
        IF @[s].on THEN [@[s] EXCEPT !.queue = Append(w.ses[s].queue, op)] ELSE @[s]]]

Operation(type, old, new, call) ==
    [type |-> type, old |-> old, new |-> new, call |-> call, tracks |-> {}]

\* Faulty: an unmute is not said either when nothing was said before.
SetTrackMuteStatusLazy(p, k, mute) ==
    [p EXCEPT !.mute[k] = IF @ = "unset" THEN @ ELSE IF mute THEN "muted" ELSE "unmuted"]

\* _setTrackMuteStatus on a presence p: that a kind is muted is not said when
\* nothing was said of it before.
SetTrackMuteStatus(p, k, mute) ==
    [p EXCEPT !.mute[k] = IF ~mute THEN "unmuted" ELSE IF @ = "unset" THEN @ ELSE "muted"]

SetNewVideoType(p, type) ==
    [p EXCEPT !.type = IF type = "camera" /\ @ = "unset" THEN @ ELSE type]

\* The presence once it tells of the tracks of the conference: what was found
\* changed for a track is forgotten at the next one, but for the video type.
TellTracks(w) ==
    LET Tell(a, t) ==
            LET p == SetTrackMuteStatus(a.p, KindOf(t), Muted(w.trk[t], t))
                q == IF Video(t) THEN SetNewVideoType(p, IF Camera(t) THEN "camera" ELSE "desktop") ELSE p
                typed == IF Video(t) THEN q # p ELSE a.typed
            IN  [p |-> q, typed |-> typed, changed |-> p # a.p \/ typed]
    IN  FoldLeft(Tell, [p |-> w.conf.pres, typed |-> FALSE, changed |-> FALSE], w.conf.tracks)

\* The kinds of which two presences say different things.
Differ(p, q) ==
    {k \in Kind : p.mute[k] # q.mute[k]} \cup (IF p.type = q.type THEN {} ELSE {"video"})

\* _updateRoomPresence.
UpdateRoomPresence(w, s) ==
    LET all == TellTracks(w)
        Has(k) == \E t \in w.ses[s].tracks : KindOf(t) = k
        heard == IF Has("audio") THEN all.p ELSE SetTrackMuteStatus(all.p, "audio", TRUE)
        seen == IF Has("video") THEN heard
                ELSE SetNewVideoType(SetTrackMuteStatus(heard, "video", TRUE), "camera")
        c == [w.conf EXCEPT !.pres = seen, !.unsaid = Track \ {t \in Tracks(w) : Has(KindOf(t))},
                            !.unsent = IF all.changed THEN @ ELSE @ \cup Differ(w.conf.pres, all.p)]
    IN  [w EXCEPT !.conf = IF all.changed \/ seen # all.p
                           THEN [c EXCEPT !.sent = seen, !.unsent = {}] ELSE c]

\* getActiveMediaSession; without one nothing is told.
UpdateActive(w) ==
    LET s == IF "p2p" \in Session /\ w.ses["p2p"].active THEN "p2p" ELSE "jvb"
    IN  IF s \in Running(w) THEN UpdateRoomPresence(w, s)
        ELSE [w EXCEPT !.conf.astray = @ \cup Tracks(w)]

\* Faulty: the mute of the focus outlives the user's unmute.
FireMuteChangeMuted(w, t) ==
    IF ~Muted(w.trk[t], t) THEN w ELSE [w EXCEPT !.conf.byFocus[KindOf(t)] = FALSE]

\* _fireMuteChangeEvent: a track that is not muted ends the mute of the focus.
FireMuteChange(w, t) ==
    IF Muted(w.trk[t], t) THEN w ELSE [w EXCEPT !.conf.byFocus[KindOf(t)] = FALSE]

-----------------------------------------------------------------------------
\* Mute and unmute: the chain of a track.

\* The call at the head of t's chain is over.  A mute of the focus is noted
\* once it is done, whichever track of the kind the conference has by then.
NextInChain(w, t, ok) ==
    LET h == Head(w.trk[t].chain)
        v == [w EXCEPT !.trk[t].chain = Tail(@), !.trk[t].waits = "no", !.trk[t].left = {}]
        others == {u \in Tracks(w) \ {t} : KindOf(u) = KindOf(t)}
    IN  IF ok /\ h.focus
        THEN [v EXCEPT !.conf.byFocus[KindOf(t)] = TRUE, !.conf.astray = @ \cup others]
        ELSE v

\* The end of _setMuted: _sendMuteStatus and the event.
SendMuteStatus(w, t) ==
    LET p == SetTrackMuteStatus(w.conf.pres, KindOf(t), Head(w.trk[t].chain).mute)
        told == IF p = w.conf.pres THEN w.conf
                ELSE [w.conf EXCEPT !.pres = p, !.sent = p, !.unsent = {}]
        coming == {t} \cap {w.calls[i].new : i \in DOMAIN w.calls}
        v == IF w.trk[t].in
             THEN FireMuteChange([w EXCEPT !.conf = [told EXCEPT !.unsaid = @ \ ({t} \cap Audio)]], t)
             ELSE [w EXCEPT !.conf.unsaid = @ \cup {t}, !.conf.astray = @ \cup coming]
    IN  NextInChain(v, t, TRUE)

Wait(w, t, what, S) == [w EXCEPT !.trk[t].waits = what, !.trk[t].left = S]

\* _removeLocalTrackAsMute and _addLocalTrackAsUnmute: the sessions' outcome
\* is waited for and does not matter.
AskSessions(w, t, type) ==
    Wait(Push(w, Operation(type, t, NoTrack, 0)), t, "sessions", Running(w))

\* _setMuted.
StartSetMuted(w, t) ==
    LET x == w.trk[t]
        m == Head(x.chain).mute
    IN  CASE Muted(x, t) = m -> NextInChain(w, t, TRUE)
          [] Muted(x, t) # m /\ x.disposed -> NextInChain(w, t, FALSE)
          [] Muted(x, t) # m /\ ~x.disposed /\ ~Camera(t) ->
               SendMuteStatus([w EXCEPT !.trk[t].enabled = ~m], t)
          [] Muted(x, t) # m /\ ~x.disposed /\ Camera(t) /\ ~m -> Wait(w, t, "device", {})
          [] Muted(x, t) # m /\ ~x.disposed /\ Camera(t) /\ m ->
               IF x.in THEN AskSessions(w, t, "mute")
               ELSE SendMuteStatus([w EXCEPT !.trk[t] = StoppedAsMute(@)], t)

\* The sessions have done what a mute or an unmute asked of them.
SessionsDone(w, t) ==
    IF Head(w.trk[t].chain).mute
    THEN SendMuteStatus([w EXCEPT !.trk[t] = StoppedAsMute(@)], t)
    ELSE SendMuteStatus(w, t)

-----------------------------------------------------------------------------
\* addTrack, removeTrack, replaceTrack, setEffect and dispose.

Ended(w, i) == [w EXCEPT !.calls = [j \in DOMAIN @ \ {i} |-> @[j]]]

\* _doReplaceTrack, of old only if it belongs to the conference.
DoReplace(w, i, call) ==
    Push([w EXCEPT !.calls = [j \in DOMAIN @ \cup {i} |-> IF j = i THEN call ELSE @[j]]],
         Operation("replace", call.old, call.new, i))

Asking(w, then, on, old, new, disposing) ==
    [then |-> then, on |-> on, disposing |-> disposing,
     old |-> IF old # NoTrack /\ w.trk[old].in THEN old ELSE NoTrack, new |-> new,
     left |-> IF (old # NoTrack /\ w.trk[old].in) \/ new # NoTrack THEN Running(w) ELSE {},
     failed |-> FALSE]

\* removeLocalTrack.
Spliced(s, t) ==
    IF Contains(s, t) THEN RemoveAt(s, CHOOSE i \in DOMAIN s : s[i] = t) ELSE s

\* replaceTrack once the sessions have done their part: onLocalTrackRemoved,
\* _setupNewTrack, and the presence.
Replaced(w, c) ==
    LET o == c.old
        n == c.new
        out == IF o = NoTrack THEN w
               ELSE [w EXCEPT !.trk[o].in = FALSE, !.conf.tracks = Spliced(@, o)]
        in == IF n = NoTrack THEN out
              ELSE [out EXCEPT !.trk[n].in = TRUE, !.conf.tracks = Append(@, n)]
        switching == \E t \in {o, n} \ {NoTrack} : w.trk[t].switching
        told == IF o # NoTrack /\ Video(o) /\ ~switching THEN UpdateActive(in) ELSE in
    IN  IF n # NoTrack /\ (\E k \in Kind : w.conf.byFocus[k]) THEN FireMuteChange(told, n) ELSE told

\* What dispose() does after setEffect().
Dispose(w, i, t) ==
    IF w.trk[t].in THEN DoReplace(w, i, Asking(w, "dispose", FALSE, t, NoTrack, TRUE))
    ELSE Ended([w EXCEPT !.trk[t].disposed = TRUE], i)

\* The catch of setEffect: the track stays out of the conference.
EffectFails(w, i, t) ==
    Ended([w EXCEPT !.trk[t] = [SwitchEffect(@, FALSE) EXCEPT !.switching = FALSE],
                    !.conf.astray = @ \cup {t}], i)

\* setEffect after removeTrack: the effect needs a stream, and addTrack a kind
\* of which the conference has no other track.
EffectSwitched(w, i, c) ==
    LET t == c.old
        v == [w EXCEPT !.trk[t] = SwitchEffect(@, c.on)]
    IN  IF (c.on /\ ~v.trk[t].live) \/ \E u \in Tracks(w) : KindOf(u) = KindOf(t)
        THEN EffectFails(w, i, t)
        ELSE DoReplace(v, i, Asking(v, "fxAdd", c.on, NoTrack, t, c.disposing))

Settle(w, i) ==
    LET c == w.calls[i]
        v == Replaced(w, c)
        t == c.new
        set == [v EXCEPT !.trk[t].switching = FALSE]
    IN  IF c.failed
        THEN LET lost == [w EXCEPT !.conf.astray = @ \cup ({c.old, c.new} \ {NoTrack})]
             IN  IF c.then \in {"fxRemove", "fxAdd"}
                 THEN EffectFails(lost, i, IF c.old = NoTrack THEN c.new ELSE c.old)
                 ELSE Ended(lost, i)
        ELSE CASE c.then = "app" -> Ended(v, i)
               [] c.then = "fxRemove" -> EffectSwitched(v, i, c)
               [] c.then = "fxAdd" -> IF c.disposing THEN Dispose(set, i, t) ELSE Ended(set, i)
               [] c.then = "dispose" -> Ended([v EXCEPT !.trk[c.old].disposed = TRUE], i)

\* setEffect; on a muted video the effect is only remembered.
SetEffect(w, i, t, on, disposing) ==
    LET x == w.trk[t]
        Go(v) == IF disposing THEN Dispose(v, i, t) ELSE Ended(v, i)
    IN  IF Muted(x, t) /\ Video(t)
        THEN Go([w EXCEPT !.trk[t].effect = on])
        ELSE IF ~x.in THEN Go([w EXCEPT !.trk[t] = SwitchEffect(@, on)])
        ELSE DoReplace([w EXCEPT !.trk[t].switching = TRUE], i,
                       Asking(w, "fxRemove", on, t, NoTrack, disposing))

-----------------------------------------------------------------------------
\* The sessions.

Finish(w, s, op, ok) ==
    LET v == [w EXCEPT !.ses[s].queue = Tail(@)]
    IN  CASE op.type = "initial" -> v
          [] op.type \in {"mute", "unmute"} -> [v EXCEPT !.trk[op.old].left = @ \ {s}]
          [] op.type = "replace" ->
               IF op.call \in DOMAIN w.calls
               THEN [v EXCEPT !.calls[op.call].left = @ \ {s},
                              !.calls[op.call].failed = @ \/ ~ok]
               ELSE v

\* What changed of the sources is signalled.
Renegotiated(x) == [x EXCEPT !.told = x.dir, !.acks = IF x.told = x.dir THEN @ ELSE @ + 1]

RunInitial(w, s, op) ==
    LET Of(k) == {t \in op.tracks : KindOf(t) = k}
        k1 == {k \in Kind : Of(k) # {}}
    IN  [w EXCEPT !.ses[s].tracks = op.tracks, !.ses[s].dir = k1, !.ses[s].told = k1,
                  !.ses[s].acks = @ + 1,
                  !.ses[s].sender = [k \in Kind |-> LET t == CHOOSE t \in Of(k) : TRUE
                                                    IN  IF k \in k1 THEN MediaOf(w.trk[t], t) ELSE NoMedia]]

\* The transceiver of a track that is not muted is the one that sends it.
HasTransceiver(w, s, t) ==
    Muted(w.trk[t], t) \/ w.ses[s].sender[KindOf(t)] = MediaOf(w.trk[t], t)

\* Faulty: the tracks of the session are left as they are.
RunReplaceSender(w, s, op) ==
    LET n == op.new
    IN  IF n = NoTrack \/ ~w.trk[n].live THEN w
        ELSE [w EXCEPT !.ses[s].sender[KindOf(n)] = MediaOf(w.trk[n], n), !.ses[s].tracks = @ \cup {n}]

\* TPC.replaceTrack; a new track without a stream leaves the transceiver alone.
RunReplace(w, s, op) ==
    LET o == op.old
        n == op.new
        x == w.ses[s]
        k == KindOf(IF n = NoTrack THEN o ELSE n)
        touched == n = NoTrack \/ w.trk[n].live
        y == [x EXCEPT !.tracks = (@ \ {o}) \cup ({n} \ {NoTrack}),
                       !.sender[k] = IF ~touched THEN @ ELSE IF n = NoTrack THEN NoMedia ELSE MediaOf(w.trk[n], n),
                       !.dir = IF ~touched THEN @ ELSE IF n = NoTrack THEN @ \ {k} ELSE @ \cup {k}]
        renegotiate == o = NoTrack \/ o \notin x.tracks
    IN  [w EXCEPT !.ses[s] = IF renegotiate THEN Renegotiated(y) ELSE y]

ReplaceFails(w, s, op) ==
    /\ op.old # NoTrack
    /\ op.new = NoTrack \/ w.trk[op.new].live
    /\ ~HasTransceiver(w, s, op.old)

RunMute(w, s, op) ==
    LET t == op.old
    IN  IF t \in w.ses[s].tracks /\ HasTransceiver(w, s, t)
        THEN Finish([w EXCEPT !.ses[s].sender[KindOf(t)] = NoMedia], s, op, TRUE)
        ELSE Finish(w, s, op, FALSE)

RunUnmute(w, s, op) ==
    LET t == op.old
    IN  IF t \in w.ses[s].tracks /\ w.trk[t].live
        THEN Finish([w EXCEPT !.ses[s].sender[KindOf(t)] = MediaOf(w.trk[t], t)], s, op, TRUE)
        ELSE Finish(w, s, op, FALSE)

RunOperation(w, s, op) ==
    CASE op.type = "initial" -> Finish(RunInitial(w, s, op), s, op, TRUE)
      [] op.type = "replace" ->
           IF ReplaceFails(w, s, op) THEN Finish(w, s, op, FALSE)
           ELSE Finish(RunReplace(w, s, op), s, op, TRUE)
      [] op.type = "mute" -> RunMute(w, s, op)
      [] op.type = "unmute" -> RunUnmute(w, s, op)

-----------------------------------------------------------------------------
\* Steps.  What is ready runs first.

ChainReady(t) ==
    /\ trk[t].chain # <<>>
    /\ \/ trk[t].waits = "no"
       \/ trk[t].waits = "sessions" /\ trk[t].left = {}

CallReady(i) == calls[i].left = {} \/ calls[i].failed

Ready == (\E t \in Track : ChainReady(t)) \/ (\E i \in DOMAIN calls : CallReady(i))

ChainStep(t) ==
    /\ ChainReady(t)
    /\ Become(IF trk[t].waits = "no" THEN StartSetMuted(World, t) ELSE SessionsDone(World, t))

CallStep(i) == CallReady(i) /\ Become(Settle(World, i))

\* The camera gives a stream.
DeviceOk(t) ==
    /\ ~Ready /\ trk[t].waits = "device"
    /\ LET w == [World EXCEPT !.trk[t] = Given(@)]
       IN  Become(IF trk[t].in THEN AskSessions(w, t, "unmute") ELSE SendMuteStatus(w, t))

DeviceFails(t) ==
    /\ ~Ready /\ trk[t].waits = "device"
    /\ Become(NextInChain(World, t, FALSE))

\* bound: another call on kind k.
OneMore(k) == conf.calls < MaxCalls /\ k \in CalledKinds

\* mute() and unmute() of the application.
SetMuted(t, m) ==
    /\ ~Ready /\ OneMore(KindOf(t))
    /\ Become([World EXCEPT !.trk[t].chain = Append(@, [mute |-> m, focus |-> FALSE]),
                            !.conf.calls = @ + 1])

\* AUDIO_MUTED_BY_FOCUS and VIDEO_MUTED_BY_FOCUS: setAudioMute, setVideoMute.
MutedByFocus(k) ==
    /\ ~Ready /\ OneMore(k)
    /\ LET T == {t \in Tracks(World) : KindOf(t) = k}
           w == [World EXCEPT !.conf.calls = @ + 1,
                              !.trk = [t \in Track |->
                                 IF t \in T THEN [@[t] EXCEPT !.chain = Append(trk[t].chain, [mute |-> TRUE, focus |-> TRUE])]
                                 ELSE @[t]]]
       IN  Become(IF T = {} THEN [w EXCEPT !.conf.byFocus[k] = TRUE] ELSE w)

\* A call of the application on tracks of kind k.
MayCall(k) ==
    /\ ~Ready /\ OneMore(k)
    /\ Careful => \A i \in DOMAIN calls : \A t \in {calls[i].old, calls[i].new} \ {NoTrack} : KindOf(t) # k

Counted == [World EXCEPT !.conf.calls = @ + 1]

AddTrack(t) ==
    /\ MayCall(KindOf(t)) /\ ~trk[t].disposed
    /\ \A u \in Tracks(World) : KindOf(u) # KindOf(t)
    /\ Become(DoReplace(Counted, conf.calls + 1, Asking(World, "app", FALSE, NoTrack, t, FALSE)))

RemoveTrack(t) ==
    /\ MayCall(KindOf(t)) /\ trk[t].in /\ ~trk[t].disposed
    /\ Become(DoReplace(Counted, conf.calls + 1, Asking(World, "app", FALSE, t, NoTrack, FALSE)))

ReplaceTrack(o, n) ==
    /\ MayCall(KindOf(o)) /\ KindOf(o) = KindOf(n)
    /\ trk[o].in /\ ~trk[o].disposed /\ ~trk[n].in /\ ~trk[n].disposed
    /\ Become(DoReplace(Counted, conf.calls + 1, Asking(World, "app", FALSE, o, n, FALSE)))

ChangeEffect(t, on) ==
    /\ MayCall(KindOf(t)) /\ t \in Enhanced /\ ~trk[t].switching /\ ~trk[t].disposed
    /\ on \/ trk[t].effect
    /\ Become(SetEffect(Counted, conf.calls + 1, t, on, FALSE))

\* dispose: the effect is taken off first, which may take a while, but the
\* stream of this moment is stopped.
DisposeTrack(t) ==
    /\ MayCall(KindOf(t)) /\ ~trk[t].switching /\ ~trk[t].disposed
    /\ LET i == conf.calls + 1
           w == IF trk[t].effect THEN SetEffect(Counted, i, t, FALSE, TRUE)
                ELSE Dispose(Counted, i, t)
       IN  Become([w EXCEPT !.trk[t].ended = @ \/ trk[t].live])

StartSession(s) ==
    /\ ~Ready /\ ~ses[s].on /\ ses[s].starts < MaxStarts[s]
    /\ LET initial == [Operation("initial", NoTrack, NoTrack, 0) EXCEPT !.tracks = Tracks(World)]
           pending == (UNION {{calls[i].old, calls[i].new} : i \in DOMAIN calls}) \ {NoTrack}
           x == [ses[s] EXCEPT !.on = TRUE, !.starts = @ + 1, !.queue = <<initial>>]
       IN  Become([World EXCEPT !.ses[s] = x, !.conf.astray = @ \cup pending])

\* The head of a session's queue of modifications.
RunOp(s) ==
    /\ ~Ready /\ ses[s].queue # <<>>
    /\ Become(RunOperation(World, s, Head(ses[s].queue)))

Started(s) == ses[s].on /\ (ses[s].queue # <<>> => Head(ses[s].queue).type # "initial")

\* A renegotiation that somebody else wanted.
Renegotiate(s) ==
    /\ ~Ready /\ Started(s) /\ ses[s].told # ses[s].dir
    /\ Become([World EXCEPT !.ses[s] = Renegotiated(@)])

\* session-accept, source-add or source-remove is acknowledged.
Acknowledge(s) ==
    /\ ~Ready /\ ses[s].on /\ ses[s].acks > 0
    /\ Become(UpdateRoomPresence([World EXCEPT !.ses[s].acks = @ - 1], s))

IceConnected(s) ==
    /\ ~Ready /\ s = "p2p" /\ Started(s) /\ ~ses[s].active
    /\ Become([World EXCEPT !.ses[s].active = TRUE])

\* What is queued is forgotten with the session: who waits for it waits on.
EndSession(s) ==
    /\ ~Ready /\ s = "p2p" /\ ses[s].on
    /\ Become([World EXCEPT !.ses[s] = [Closed EXCEPT !.starts = ses[s].starts]])

Next ==
    \/ \E t \in Track : ChainStep(t) \/ DeviceOk(t) \/ DeviceFails(t)
    \/ \E i \in DOMAIN calls : CallStep(i)
    \/ \E t \in Track, on \in BOOLEAN : SetMuted(t, on) \/ ChangeEffect(t, on)
    \/ \E k \in Kind : MutedByFocus(k)
    \/ \E t \in Track : AddTrack(t) \/ RemoveTrack(t) \/ DisposeTrack(t)
    \/ \E o, n \in Track : ReplaceTrack(o, n)
    \/ \E s \in Session : StartSession(s) \/ RunOp(s) \/ Renegotiate(s) \/ Acknowledge(s)
                            \/ IceConnected(s) \/ EndSession(s)

Spec == Init /\ [][Next]_vars

-----------------------------------------------------------------------------
\* Properties.

\* The values the variables take.
TypeOK ==
    /\ trk \in [Track -> TrackState]
    /\ conf \in Conference
    /\ ses \in [Session -> SessionState]
    /\ DOMAIN calls \subseteq 1..MaxCalls /\ \A i \in DOMAIN calls : calls[i] \in Call

\* Nothing is under way that could still change what the room is told or what
\* is sent.
Quiet ==
    /\ calls = [i \in {} |-> {}]
    /\ \A t \in Track : trk[t].chain = <<>>
    /\ \A s \in Session : ses[s].queue = <<>> /\ ses[s].acks = 0

\* When nothing is under way, the presence last sent tells whether each track
\* of the conference is muted, and that a screen is one
\* (_setTrackMuteStatus, _setNewVideoType and all that calls them): but for
\* kinds of which a change was lost on another track (unsent), since
\* _updateRoomPresence looks only at what the last one changed.
PresenceTellsTracks ==
    (Quiet /\ \E s \in Session : ses[s].on) =>
        \A t \in Tracks(World) \ (conf.unsaid \cup conf.astray) :
          KindOf(t) \notin conf.unsent =>
            /\ conf.sent.mute[KindOf(t)] = "unmuted" <=> ~Muted(trk[t], t)
            /\ Video(t) => (conf.sent.type = "desktop" <=> t \in Desktop)

\* When nothing is under way, each session has the tracks of the conference
\* and no other, and sends what the device or the effect makes now (the queue
\* of each session against the chain of mutes and the calls on the tracks).
SessionsSend ==
    Quiet =>
        \A s \in Session : ses[s].on =>
          /\ (ses[s].tracks \ conf.astray) \subseteq Tracks(World)
          /\ (Tracks(World) \ conf.astray) \subseteq ses[s].tracks
          /\ \A t \in Tracks(World) \ conf.astray :
               ~Muted(trk[t], t) => ses[s].sender[KindOf(t)] = MediaOf(trk[t], t)

\* When nothing is under way, a kind that the focus muted and that nobody
\* unmuted since has no track that is heard or seen (isMutedByFocus).
FocusMuteHolds ==
    Quiet =>
        \A t \in Tracks(World) \ conf.astray : conf.byFocus[KindOf(t)] => Muted(trk[t], t)
=============================================================================
