---------------------------- MODULE JingleSession ----------------------------
(***************************************************************************)
(* One media session of an endpoint: JingleSessionPC                       *)
(* (modules/xmpp/JingleSessionPC.js) with its modificationQueue, the part  *)
(* of TraceablePeerConnection its tasks drive, and the source signalling   *)
(* that tells the peer (Jicofo or the other endpoint of a P2P call) which  *)
(* local sources exist.                                                    *)
(*                                                                         *)
(* Every change of the peer connection is a task of the queue.  A task is  *)
(* a chain of promises; each link that really waits (a WebRTC call) is a   *)
(* phase of the running task, and anything else may happen between two     *)
(* phases: other tasks are pushed, the XMPP connection drops and comes     *)
(* back, the session is terminated from either side.                       *)
(***************************************************************************)
EXTENDS Naturals, Sequences, FiniteSets

CONSTANTS Source,        \* the local video sources (SSRCs) of the endpoint
          Roles,         \* subset of {"jvb", "initiator", "responder"}: JVB session, sides of a P2P one
          Plans,         \* subset of {"unified", "planB"}: the SDP format of the peer connection
          MultiStream,   \* FeatureFlags.isMultiStreamSupportEnabled()
          Faults,        \* subset of {"media", "renegotiation"}: the WebRTC calls that may reject
          MaxOps,        \* bound: calls and messages that push a task, per session
          NoSource,      \* the only member of NoSdp, "no session description yet"
          NoTask         \* "the queue's worker is idle"

ASSUME RolesAssumption == Roles \subseteq {"jvb", "initiator", "responder"}
ASSUME PlansAssumption == Plans \subseteq {"unified", "planB"}
ASSUME FlagsAssumption == /\ MultiStream \in BOOLEAN
                          /\ Faults \subseteq {"media", "renegotiation"}
                          /\ MaxOps \in Nat
ASSUME NoSourceAssumption == NoSource \notin Source

NoSdp == {NoSource}

VARIABLES
  role, plan,        \* fixed when the session is created
  state,             \* JingleSession.state: "pending", "active", "ended"
  held,              \* JitsiConference still refers to the session
  queue, running, stopped,    \* modificationQueue
  outcome, nops,     \* what the caller of the n-th operation has heard, and how many there were
  pcClosed, attached, local, remote,  \* the peer connection: closed?, sources attached to it,
                     \* sources of its local description, has it a remote description
  answered,          \* the session-accept of the peer was handled
  signal,            \* source signalling: what the peer knows, and the cached pair of descriptions
  localVideoActive, remoteVideoActive, recvConstraint, \* _localVideoActive, _remoteVideoActive,
                     \* localRecvMaxFrameHeight (0: undefined)
  told,              \* the content of the last content-modify the peer was sent
  connected,         \* the XMPP connection
  lost               \* history: what a failed call or a skipped update made the peer miss,
                     \* and "close" when a second close() dropped the closing task

session == <<role, plan, state, held>>
work == <<queue, running, stopped, outcome, nops>>
tpc == <<pcClosed, attached, local, remote>>
video == <<localVideoActive, remoteVideoActive, recvConstraint, told>>
vars == <<session, work, tpc, answered, signal, video, connected, lost>>

Kind == {"invite", "accept", "answer", "decoder", "swap1", "swap2", "add", "replace", "mute",
         "unmute", "transfer", "contents", "codecs", "source", "needed", "ice", "close"}
Ids == 0..MaxOps       \* 0: a task nobody waits for
Task == [kind : Kind, id : Ids, add : SUBSET Source, del : SUBSET Source, video : BOOLEAN]
Phase == {"media", "respond", "offer", "cycle", "encodings", "nested", "stuck"}
Sdp == SUBSET (Source \cup {NoSource})
Outcome == {"none", "waiting", "ok", "failed"}

\* What running may be when it is not NoTask: a task, what it waits for, and the local
\* description it read when it started.
RunningTask == [task : Task, phase : Phase, old : Sdp]
ASSUME NoTaskAssumption == \A t \in Task, p \in Phase, old \in Sdp :
                             NoTask # [task |-> t, phase |-> p, old |-> old]

P2P == role # "jvb"
MkTask(kind, id, add, del, active) ==
  [kind |-> kind, id |-> id, add |-> add, del |-> del, video |-> active]
CloseTask == MkTask("close", 0, {}, {}, FALSE)

Init ==
  /\ role \in Roles /\ plan \in Plans
  /\ state = "pending" /\ held = TRUE
  /\ queue = <<>> /\ running = NoTask /\ stopped = FALSE
  /\ outcome = [i \in 1..MaxOps |-> "none"] /\ nops = 0
  /\ pcClosed = FALSE /\ attached = {} /\ local = NoSdp /\ remote = FALSE
  /\ answered = FALSE
  /\ signal = [known |-> NoSdp, old |-> NoSdp, new |-> NoSdp]
  /\ localVideoActive = TRUE /\ remoteVideoActive = TRUE /\ recvConstraint = 0
  /\ told = [video |-> TRUE, recv |-> 0]
  /\ connected = TRUE
  /\ lost = {}

-----------------------------------------------------------------------------
(* Telling the peer.                                                       *)

\* The peer's set of sources after the source-remove and source-add of one diff.
Patch(k, old, new) == IF k = NoSdp THEN NoSdp ELSE (k \ (old \ new)) \cup (new \ old)

\* Faulty: an offline update forgets the description the peer still has.
NotifyForgettingOld(sig, st, old, new) ==
  IF st # "active" THEN sig
  ELSE IF ~connected THEN [known |-> sig.known, old |-> old, new |-> new]
       ELSE [known |-> Patch(sig.known, old, new), old |-> NoSdp, new |-> NoSdp]

\* notifyMySSRCUpdate(old, new): nothing unless active; offline it keeps the oldest
\* and the newest description; online it drops what was kept and sends the diff.
Notify(sig, st, old, new) ==
  IF st # "active" THEN sig
  ELSE IF ~connected
       THEN [known |-> sig.known, old |-> IF sig.old = NoSdp THEN old ELSE sig.old, new |-> new]
       ELSE [known |-> Patch(sig.known, old, new), old |-> NoSdp, new |-> NoSdp]

\* sendSessionInitiate / sendSessionAccept carry the whole local description;
\* offline, sendIQ fails at once and nothing is kept for later.
SendDescription(sig, sdp) == IF connected THEN [sig EXCEPT !.known = sdp] ELSE sig

\* sendContentModify: fire and forget.
SendContentModify(active, recv) ==
  /\ told' = IF connected THEN [video |-> active, recv |-> recv] ELSE told
  /\ lost' = IF connected THEN lost ELSE lost \cup {"modify"}

\* A change of the local description nobody reported to the peer.
Unreported(sdp) == lost' = IF sdp = running.old THEN lost ELSE lost \cup {"sources"}

\* A task reports what it changed; "Skipping SSRC update" unless the session is active.
Report(sdp) == /\ signal' = Notify(signal, state, running.old, sdp)
               /\ IF state = "active" THEN UNCHANGED lost ELSE Unreported(sdp)

-----------------------------------------------------------------------------
(* The queue.                                                              *)

\* Faulty: push() does not look at the stopped flag.
PushedAlways(q, t) == Append(q, t)

Pushed(q, t) == IF stopped THEN q ELSE Append(q, t)

\* An operation pushes its task; on a stopped queue its callback fails at once.
Submit(kind, add, del, active) ==
  /\ nops < MaxOps
  /\ nops' = nops + 1
  /\ queue' = Pushed(queue, MkTask(kind, nops + 1, add, del, active))
  /\ outcome' = [outcome EXCEPT ![nops + 1] = IF stopped THEN "failed" ELSE "waiting"]
  /\ UNCHANGED <<running, stopped, tpc, signal, video, connected, lost>>

\* What the caller hears: a transport-replace needs its second cycle; the IQs of
\* session-accept and transport-accept fail offline.
Result(t, ok) ==
  CASE ~ok -> "failed"
    [] ok /\ t.kind = "swap1" -> IF stopped THEN "failed" ELSE "waiting"
    [] ok /\ t.kind \in {"accept", "swap2"} -> IF connected THEN "ok" ELSE "failed"
    [] OTHER -> "ok"

\* Faulty: an error is logged and the caller not told.
SettledUnlessError(t, ok) ==
  [i \in DOMAIN outcome |-> IF i = t.id /\ ok THEN Result(t, ok) ELSE outcome[i]]

Settled(t, ok) == [i \in DOMAIN outcome |-> IF i = t.id THEN Result(t, ok) ELSE outcome[i]]

\* What the callback given to push() pushes next: the decoder workaround after an
\* answer, the second offer of a transport-replace.
FollowUp(t, ok) ==
  CASE ok /\ t.kind = "answer" /\ plan = "unified" ->
         Pushed(queue, MkTask("decoder", 0, {}, {}, FALSE))
    [] ok /\ t.kind = "swap1" -> Pushed(queue, MkTask("swap2", t.id, {}, {}, FALSE))
    [] OTHER -> queue

\* finishedCallback() of the running task.
Finish(ok) ==
  /\ running' = NoTask
  /\ queue' = FollowUp(running.task, ok)
  /\ outcome' = Settled(running.task, ok)
  /\ UNCHANGED <<stopped, nops>>

Goto(phase) ==
  /\ running' = [running EXCEPT !.phase = phase]
  /\ UNCHANGED <<queue, stopped, outcome, nops>>

\* finishedCallback(error): the description may have changed half way.
FailWith(sdp) ==
  /\ Finish(FALSE)
  /\ local' = sdp
  /\ Unreported(sdp)

In(phase) == running # NoTask /\ running.phase = phase
Runs(kinds) == running # NoTask /\ running.task.kind \in kinds
Cycles == {"accept", "answer", "swap1", "swap2"}     \* setOfferAnswerCycle tasks

\* More than one video track with multi-stream: all but the first are added by a
\* nested addTracks(), whose task waits behind the one that awaits it.
Nests(t) == MultiStream /\ t.kind \in {"invite", "accept"} /\ Cardinality(t.add) > 1
Attaches(t) == {s \in t.add : Nests(t) => s = CHOOSE first \in t.add : TRUE}

\* The nested addTracks(); on a stopped queue it fails at once.
Nest == IF stopped THEN Finish(FALSE) ELSE Goto("nested")

-----------------------------------------------------------------------------
(* Calls of JitsiConference and messages of the peer.                      *)

Unstarted == nops = 0
Started == nops > 0 /\ held

Invite == /\ role = "initiator" /\ Unstarted
          /\ \E tracks \in SUBSET Source : Submit("invite", tracks, {}, FALSE)
          /\ UNCHANGED <<session, answered>>

AcceptOffer == /\ role # "initiator" /\ Unstarted
               /\ \E tracks \in SUBSET Source : Submit("accept", tracks, {}, FALSE)
               /\ UNCHANGED <<session, answered>>

\* The peer answers an offer it has got, once, while the sid is known.
SetAnswer == /\ role = "initiator" /\ state # "ended" /\ signal.known # NoSdp /\ ~answered
             /\ answered' = TRUE
             /\ Submit("answer", {}, {}, FALSE)
             /\ UNCHANGED session

\* transport-replace of Jicofo: two offer/answer cycles, the first without data section.
ReplaceTransport == /\ role = "jvb" /\ Started /\ state # "ended"
                    /\ Submit("swap1", {}, {}, FALSE)
                    /\ UNCHANGED <<session, answered>>

AddTracks == /\ MultiStream /\ Started
             /\ \E tracks \in (SUBSET Source) \ {{}} : Submit("add", tracks, {}, FALSE)
             /\ UNCHANGED <<session, answered>>

\* A null old track adds a source, a null new one removes it.
ReplaceTrack == /\ Started
                /\ \E s \in Source : \/ Submit("replace", {s}, {}, FALSE)
                                     \/ Submit("replace", {}, {s}, FALSE)
                /\ UNCHANGED <<session, answered>>

RemoveTrackAsMute == /\ Started
                     /\ Submit("mute", {}, {}, FALSE)
                     /\ UNCHANGED <<session, answered>>

AddTrackAsUnmute == /\ Started
                    /\ \E s \in Source : Submit("unmute", {s}, {}, FALSE)
                    /\ UNCHANGED <<session, answered>>

SetMediaTransferActive == /\ Started
                          /\ \E active \in BOOLEAN : Submit("transfer", {}, {}, active)
                          /\ UNCHANGED <<session, answered>>

ModifyContents == /\ P2P /\ Started /\ state # "ended"
                  /\ role = "initiator" => signal.known # NoSdp
                  /\ \E active \in BOOLEAN : Submit("contents", {}, {}, active)
                  /\ UNCHANGED <<session, answered>>

SetVideoCodecs == /\ Started /\ state # "ended"
                  /\ Submit("codecs", {}, {}, FALSE)
                  /\ UNCHANGED <<session, answered>>

\* source-add, source-remove, and removeRemoteStreamsOnLeave.
AddOrRemoveRemoteStream == /\ Started /\ state # "ended"
                           /\ role = "initiator" => answered
                           /\ Submit("source", {}, {}, FALSE)
                           /\ UNCHANGED <<session, answered>>

\* The browser's negotiationneeded event; close() removes the handler.
NegotiationNeeded == /\ plan = "unified" /\ ~P2P /\ state # "ended"
                     /\ remote /\ ~In("cycle") /\ ~In("respond")
                     /\ Submit("needed", {}, {}, FALSE)
                     /\ UNCHANGED <<session, answered>>

AddIceCandidates == /\ Started /\ state # "ended"
                    /\ Submit("ice", {}, {}, FALSE)
                    /\ UNCHANGED <<session, answered>>

\* Not a task: the constraint is told at once when active, else with the activation.
SetReceiverVideoConstraint ==
  /\ Started /\ recvConstraint = 0
  /\ recvConstraint' = 1
  /\ IF P2P /\ state = "active"
       THEN SendContentModify(localVideoActive, 1)
       ELSE UNCHANGED <<told, lost>>
  /\ UNCHANGED <<session, work, tpc, answered, signal, localVideoActive, remoteVideoActive, connected>>

-----------------------------------------------------------------------------
(* The worker: a task starts.                                              *)

NextTask == Head(queue)
NextIs(kinds) == running = NoTask /\ queue # <<>> /\ NextTask.kind \in kinds

\* The first phase of a task whose body calls WebRTC and has to wait.
FirstPhase(t) ==
  CASE t.kind \in {"replace", "mute", "unmute"} -> "media"
    [] t.kind \in {"invite", "accept"} /\ t.add # {} -> "media"
    [] t.kind = "invite" -> "offer"
    [] t.kind \in {"add", "decoder"} -> "respond"
    [] OTHER -> "cycle"

\* Tasks that read the local / the remote description before anything else throw,
\* or have their renegotiation rejected, when there is none.
CanStart(t) == /\ t.kind \in {"add", "source", "needed"} => local # NoSdp
               /\ t.kind \in {"add", "source", "needed", "codecs"} => remote

Start(phase) == /\ running' = [task |-> NextTask, phase |-> phase, old |-> local]
                /\ queue' = Tail(queue)
                /\ UNCHANGED <<stopped, outcome, nops>>

\* A task that calls back in its first turn.
Skip(ok) == /\ queue' = Tail(queue)
            /\ outcome' = Settled(NextTask, ok)
            /\ UNCHANGED <<running, stopped, nops>>

StartTask == /\ NextIs(Kind \ {"transfer", "contents", "ice", "close"})
             /\ IF CanStart(NextTask) THEN Start(FirstPhase(NextTask)) ELSE Skip(FALSE)
             /\ UNCHANGED <<session, tpc, answered, signal, video, connected, lost>>

StartIceTask == /\ NextIs({"ice"})
                /\ Skip(TRUE)
                /\ UNCHANGED <<session, tpc, answered, signal, video, connected, lost>>

\* Only plan B renegotiates for a suspended or resumed media transfer.
StartTransferTask ==
  /\ NextIs({"transfer"})
  /\ localVideoActive' = NextTask.video
  /\ IF localVideoActive # NextTask.video /\ P2P /\ state = "active"
       THEN SendContentModify(NextTask.video, recvConstraint)
       ELSE UNCHANGED <<told, lost>>
  /\ \/ Skip(TRUE)
     \/ plan = "planB" /\ state = "active" /\ Start("cycle")
  /\ UNCHANGED <<session, tpc, answered, signal, remoteVideoActive, recvConstraint, connected>>

StartContentsTask ==
  /\ NextIs({"contents"})
  /\ remoteVideoActive' = IF state # "ended" THEN NextTask.video ELSE remoteVideoActive
  /\ \/ Skip(TRUE)
     \/ /\ plan = "planB" /\ state # "ended"
        /\ IF remote THEN Start("cycle") ELSE Skip(FALSE)
  /\ UNCHANGED <<session, tpc, answered, signal, localVideoActive, recvConstraint, told,
                 connected, lost>>

ClosePeerConnection == /\ NextIs({"close"})
                       /\ pcClosed' = TRUE
                       /\ Skip(TRUE)
                       /\ UNCHANGED <<session, attached, local, remote, answered, signal, video,
                                      connected, lost>>

-----------------------------------------------------------------------------
(* The worker: the promise a task waits for settles.                       *)

\* TPC.addTrack / replaceTrack / addTrackUnmute / removeTrackMute.  What follows
\* depends on the task; a session that ended meanwhile replaces without renegotiating.
AfterMedia(t) ==
  CASE t.kind = "invite" -> {"offer"}
    [] t.kind \in {"accept", "add"} -> {"cycle"}
    [] t.kind = "replace" ->
         IF state # "active" \/ (plan = "unified" /\ t.add = {}) THEN {"done"}
         ELSE IF MultiStream /\ ~P2P THEN {"cycle", "done"}   \* a screen share waits for negotiationneeded
         ELSE {"cycle"}
    [] OTHER ->     \* mute, unmute
         IF plan = "planB" /\ running.old # NoSdp /\ remote THEN {"cycle"} ELSE {"done"}

MediaOk == /\ In("media")
           /\ LET t == running.task IN
              /\ attached' = (attached \ t.del) \cup Attaches(t)
              /\ \E next \in AfterMedia(t) : IF next = "done" THEN Finish(TRUE) ELSE Goto(next)
           /\ UNCHANGED <<session, pcClosed, local, remote, answered, signal, video, connected, lost>>

MediaFails == /\ In("media") /\ "media" \in Faults
              /\ FailWith(local)
              /\ UNCHANGED <<session, pcClosed, attached, remote, answered, signal, video, connected>>

\* _responderRenegotiate: addTracks goes on, the decoder workaround reports nothing.
RespondOk == /\ In("respond")
             /\ local' = attached
             /\ IF Runs({"add"})
                  THEN Goto("media") /\ UNCHANGED lost
                  ELSE Finish(TRUE) /\ Unreported(attached)
             /\ UNCHANGED <<session, pcClosed, attached, remote, answered, signal, video, connected>>

RespondFails == /\ In("respond") /\ "renegotiation" \in Faults
                /\ FailWith(local)
                /\ UNCHANGED <<session, pcClosed, attached, remote, answered, signal, video, connected>>

\* invite(): createOffer, setLocalDescription, session-initiate.
OfferOk == /\ In("offer")
           /\ local' = attached
           /\ signal' = SendDescription(signal, attached)
           /\ lost' = IF connected THEN lost ELSE lost \cup {"sources"}
           /\ IF Nests(running.task) THEN Nest ELSE Finish(TRUE)
           /\ UNCHANGED <<session, pcClosed, attached, remote, answered, video, connected>>

OfferFails == /\ In("offer") /\ "renegotiation" \in Faults
              /\ FailWith(local)
              /\ UNCHANGED <<session, pcClosed, attached, remote, answered, signal, video, connected>>

\* Faulty: the activation does not send what was preferred before it.
ConcludeWithoutContentModify ==
  LET st == IF state = "pending" THEN "active" ELSE state
      old == running.old
      sig == IF old = NoSdp THEN signal ELSE Notify(signal, st, old, attached)
  IN /\ state' = st
     /\ UNCHANGED <<told, lost>>
     /\ signal' = IF Runs({"accept"}) THEN SendDescription(sig, attached) ELSE sig
     /\ Finish(TRUE)

\* The end of setOfferAnswerCycle: a pending session becomes active and tells the
\* peer its video preferences; the diff is reported; an accepted offer is answered.
ConcludeOfferAnswer ==
  LET st == IF state = "pending" THEN "active" ELSE state
      old == running.old
      sig == IF old = NoSdp THEN signal ELSE Notify(signal, st, old, attached)
  IN /\ state' = st
     /\ IF state = "pending" /\ P2P /\ (~localVideoActive \/ recvConstraint # 0)
          THEN SendContentModify(localVideoActive, recvConstraint)
          ELSE UNCHANGED <<told, lost>>
     /\ signal' = IF Runs({"accept"}) THEN SendDescription(sig, attached) ELSE sig
     /\ Finish(TRUE)

\* The kinds of task that report the change of their renegotiation.
Reporting == {"add", "replace", "mute", "unmute", "source"}

\* _renegotiate() done.
CycleOk == /\ In("cycle")
           /\ local' = attached
           /\ remote' = TRUE
           /\ \/ /\ Nests(running.task)
                 /\ Nest
                 /\ Unreported(attached)
                 /\ UNCHANGED <<state, signal, told>>
              \/ /\ Runs(Cycles) /\ ~Nests(running.task)
                 /\ ConcludeOfferAnswer
              \/ /\ Runs(Reporting)
                 /\ Report(attached)
                 /\ Finish(TRUE)
                 /\ UNCHANGED <<state, told>>
              \/ /\ Runs({"needed"})
                 /\ Goto("encodings")
                 /\ UNCHANGED <<state, signal, told, lost>>
              \/ /\ Runs({"transfer", "contents", "codecs"})
                 /\ Unreported(attached)
                 /\ Finish(TRUE)
                 /\ UNCHANGED <<state, signal, told>>
           /\ UNCHANGED <<role, plan, held, pcClosed, attached, answered, localVideoActive,
                          remoteVideoActive, recvConstraint, connected>>

\* _renegotiate() rejected.  The initiator may have set its offer before the remote
\* description failed.  A mute or unmute task never hears of it: its promise has no
\* rejection handler, finishedCallback is not called.
CycleFails ==
  /\ In("cycle") /\ "renegotiation" \in Faults
  /\ \E sdp \in {local} \cup (IF role = "initiator" THEN {attached} ELSE {}) :
       IF Runs({"mute", "unmute"})
         THEN Goto("stuck") /\ local' = sdp /\ Unreported(sdp)
         ELSE FailWith(sdp)
  /\ UNCHANGED <<session, pcClosed, attached, remote, answered, signal, video, connected>>

\* onnegotiationneeded: the encodings are configured before the diff is reported.
EncodingsOk == /\ In("encodings")
               /\ Report(local)
               /\ Finish(TRUE)
               /\ UNCHANGED <<session, tpc, answered, video, connected>>

EncodingsFail == /\ In("encodings") /\ "media" \in Faults
                 /\ FailWith(local)
                 /\ UNCHANGED <<session, pcClosed, attached, remote, answered, signal, video, connected>>

-----------------------------------------------------------------------------
(* The end of the session, and the XMPP connection.                        *)

\* Faulty: pending tasks stay in front of the closing one.
CloseKeepingTasks == /\ state' = "ended"
                     /\ queue' = Pushed(queue, CloseTask)
                     /\ stopped' = TRUE
                     /\ UNCHANGED <<role, plan, running, outcome, nops, tpc, answered, signal, video,
                                    connected, lost>>

\* Faulty: the queue is shut down before the closing task is pushed.
CloseAfterShutdown == /\ state' = "ended"
                      /\ queue' = <<>>
                      /\ stopped' = TRUE
                      /\ UNCHANGED <<role, plan, running, outcome, nops, tpc, answered, signal, video,
                                     connected, lost>>

\* close(): pending tasks are dropped without their callbacks, the closing task is
\* pushed, the queue is shut down.  A second close() drops the closing task and
\* pushes none.
Close == /\ state' = "ended"
         /\ queue' = Pushed(<<>>, CloseTask)
         /\ stopped' = TRUE
         /\ lost' = IF stopped /\ queue # <<>> THEN lost \cup {"close"} ELSE lost
         /\ UNCHANGED <<role, plan, running, outcome, nops, tpc, answered, signal, video, connected>>

\* terminate() by the conference, or session-terminate of the peer: onTerminated.
\* The conference keeps its reference to a JVB session it terminates itself.
Terminate == /\ Started /\ state # "ended"
             /\ held' = (role = "jvb")
             /\ Close

RemoteTerminate == /\ Started /\ state # "ended"
                   /\ held' = FALSE
                   /\ Close

\* JitsiConference.leave() closes what it holds without asking for its state: a
\* JVB session that was terminated is closed a second time.
Leave == /\ Started
         /\ held' = FALSE
         /\ Close

Disconnect == /\ connected
              /\ connected' = FALSE
              /\ UNCHANGED <<session, work, tpc, answered, signal, video, lost>>

\* CONN_STATUS_CHANGED is emitted in the turn that makes connected true.
Reconnect == /\ ~connected
             /\ connected' = TRUE
             /\ signal' = IF signal.old # NoSdp /\ state = "active"
                            THEN [known |-> Patch(signal.known, signal.old, signal.new),
                                  old |-> NoSdp, new |-> NoSdp]
                            ELSE signal
             /\ UNCHANGED <<session, work, tpc, answered, video, lost>>

-----------------------------------------------------------------------------
Call == \/ Invite \/ AcceptOffer \/ AddTracks \/ ReplaceTrack \/ RemoveTrackAsMute
        \/ AddTrackAsUnmute \/ SetMediaTransferActive \/ SetVideoCodecs
        \/ SetReceiverVideoConstraint \/ NegotiationNeeded \/ Terminate \/ Leave

Message == \/ SetAnswer \/ ReplaceTransport \/ ModifyContents \/ AddOrRemoveRemoteStream
           \/ AddIceCandidates \/ RemoteTerminate

Worker == \/ StartTask \/ StartIceTask \/ StartTransferTask \/ StartContentsTask
          \/ ClosePeerConnection \/ MediaOk \/ MediaFails \/ RespondOk \/ RespondFails
          \/ OfferOk \/ OfferFails \/ CycleOk \/ CycleFails \/ EncodingsOk \/ EncodingsFail

Network == Disconnect \/ Reconnect

Next == Call \/ Message \/ Worker \/ Network

Spec == Init /\ [][Next]_vars

\* The event loop runs a queued task, and WebRTC settles every promise it returns.
FairSpec == Spec /\ WF_vars(Worker)

-----------------------------------------------------------------------------
(* Properties.                                                             *)

\* The values of the variables (one per component).
TypeOK ==
  /\ role \in Roles /\ plan \in Plans
  /\ state \in {"pending", "active", "ended"} /\ held \in BOOLEAN
  /\ queue \in Seq(Task)
  /\ running \in {NoTask} \cup RunningTask
  /\ stopped \in BOOLEAN
  /\ outcome \in [1..MaxOps -> Outcome] /\ nops \in 0..MaxOps
  /\ pcClosed \in BOOLEAN /\ attached \in SUBSET Source /\ local \in Sdp /\ remote \in BOOLEAN
  /\ answered \in BOOLEAN
  /\ signal \in [known : Sdp, old : Sdp, new : Sdp]
  /\ localVideoActive \in BOOLEAN /\ remoteVideoActive \in BOOLEAN /\ recvConstraint \in {0, 1}
  /\ told \in [video : BOOLEAN, recv : {0, 1}]
  /\ connected \in BOOLEAN
  /\ lost \in SUBSET {"sources", "modify", "close"}

\* The description the peer's knowledge is to be compared with: a running task has
\* read it before its changes (and reports at its end; a nested one never will).
Base == IF running = NoTask \/ In("nested") THEN local ELSE running.old

\* Between two tasks of a live session the peer knows exactly the local sources, or,
\* while the signalling is down, the cached pair leads from what it knows to what is
\* there; nothing stays cached once the connection is back.  Unless a renegotiation
\* failed or changed sources without reporting it (notifyMySSRCUpdate).
PeerKnowsSources ==
  state = "active" /\ "sources" \notin lost /\ signal.known # NoSdp =>
    /\ signal.old = NoSdp => signal.known = Base
    /\ signal.old # NoSdp => /\ ~connected
                             /\ signal.known = signal.old
                             /\ signal.new = Base

\* Whatever order suspension, constraints, activation and reconnection came in, the
\* peer of an active P2P session has been told the current video preferences
\* (sendContentModify and the activation in setOfferAnswerCycle).
PeerKnowsVideoPreference ==
  P2P /\ state = "active" /\ "modify" \notin lost =>
    told = [video |-> localVideoActive, recv |-> recvConstraint]

\* The queue of an ended session holds nothing but the closing task, and once the
\* peer connection is closed nothing runs and nothing waits (close()).
ClosedIsQuiet ==
  /\ stopped <=> state = "ended"
  /\ stopped => queue \in {<<>>, <<CloseTask>>}
  /\ pcClosed => stopped /\ queue = <<>> /\ running = NoTask

\* The session uses its queue as AsyncQueue promises: tasks one at a time, in the
\* order they were pushed, none after the closing task.
Queue == INSTANCE AsyncQueue WITH
           Task <- Kind \X Ids,
           queue <- [i \in DOMAIN queue |-> <<queue[i].kind, queue[i].id>>],
           running <- IF running = NoTask THEN NoTask
                      ELSE <<running.task.kind, running.task.id>>
ImplementsAsyncQueue == Queue!Spec

\* A task that will never call finishedCallback: it waits for a task behind it, or
\* for a promise whose rejection it does not handle.
Hung == In("nested") \/ In("stuck")

\* The peer connection of an ended session gets closed, whatever was running or
\* waiting when it ended: unless a task hangs, in front of the closing one, or
\* leave() closed a terminated session again before its closing task ran.
EndedClosesPc == (state = "ended") ~> (pcClosed \/ Hung \/ "close" \in lost)

\* Who asked for a change of a session that lives hears of the result.
CallersHear ==
  \A i \in 1..MaxOps : (outcome[i] = "waiting") ~> (outcome[i] # "waiting" \/ state = "ended" \/ Hung)

\* "The 'task' function will be given a callback it MUST call with either ..."
TaskCallsBack == (running # NoTask) ~> (running = NoTask)

=============================================================================
