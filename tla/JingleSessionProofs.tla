------------------------- MODULE JingleSessionProofs -------------------------
(***************************************************************************)
(* Proofs about JingleSession, for every set of sources, every bound on    *)
(* the number of operations and every choice of roles, plans and faults.   *)
(***************************************************************************)
EXTENDS JingleSession, SequenceTheorems, TLAPS

\* Every variable of the specification, for the steps that leave all of them alone.
LEMMA StutterType == TypeOK /\ UNCHANGED vars => TypeOK'
  BY DEF TypeOK, vars, session, work, tpc, video

\* A task built by MkTask from well-typed parts is a task.
LEMMA MkTaskType ==
  ASSUME NEW k \in Kind, NEW i \in Ids, NEW a \in SUBSET Source, NEW d \in SUBSET Source,
         NEW v \in BOOLEAN
  PROVE  MkTask(k, i, a, d, v) \in Task
  BY DEF MkTask, Task

\* push() keeps the queue a sequence of tasks.
LEMMA PushedType ==
  ASSUME NEW q \in Seq(Task), NEW t \in Task
  PROVE  Pushed(q, t) \in Seq(Task)
  BY DEF Pushed

\* Submitting an operation changes only the queue and what its caller has heard.
LEMMA SubmitType ==
  ASSUME TypeOK, NEW k \in Kind, NEW a \in SUBSET Source, NEW d \in SUBSET Source,
         NEW v \in BOOLEAN, Submit(k, a, d, v), UNCHANGED session, answered' \in BOOLEAN
  PROVE  TypeOK'
<1>1. nops + 1 \in Ids /\ nops' \in 0..MaxOps
  BY FlagsAssumption DEF TypeOK, Submit, Ids
<1>2. queue' \in Seq(Task)
  BY <1>1, MkTaskType, PushedType DEF TypeOK, Submit
<1>3. outcome' \in [1..MaxOps -> Outcome]
  BY DEF TypeOK, Submit, Outcome
<1>4. QED
  BY <1>1, <1>2, <1>3 DEF TypeOK, Submit, session, tpc, video

-----------------------------------------------------------------------------
(* Type correctness.                                                       *)

\* The part of TypeOK about the queue and its callers.
WorkType ==
  /\ queue \in Seq(Task)
  /\ running \in {NoTask} \cup RunningTask
  /\ stopped \in BOOLEAN
  /\ outcome \in [1..MaxOps -> Outcome] /\ nops \in 0..MaxOps

\* The task a phase predicate speaks of.
LEMMA InType ==
  ASSUME TypeOK, NEW p \in Phase, In(p)
  PROVE  /\ running \in RunningTask
         /\ running.task \in Task /\ running.old \in Sdp
  BY DEF TypeOK, In, RunningTask

LEMMA SettledType ==
  ASSUME TypeOK, NEW t \in Task, NEW ok \in BOOLEAN
  PROVE  Settled(t, ok) \in [1..MaxOps -> Outcome]
  BY DEF TypeOK, Settled, Result, Outcome

LEMMA FinishType ==
  ASSUME TypeOK, running \in RunningTask, NEW ok \in BOOLEAN, Finish(ok)
  PROVE  WorkType'
<1>1. running.task \in Task /\ running.task.id \in Ids
  BY DEF RunningTask, Task
<1>2. /\ MkTask("decoder", 0, {}, {}, FALSE) \in Task
      /\ MkTask("swap2", running.task.id, {}, {}, FALSE) \in Task
  BY <1>1, FlagsAssumption DEF MkTask, Task, Kind, Ids
<1>3. FollowUp(running.task, ok) \in Seq(Task)
  BY <1>2, PushedType DEF TypeOK, FollowUp
<1>4. QED
  BY <1>1, <1>3, SettledType DEF TypeOK, WorkType, Finish

LEMMA GotoType ==
  ASSUME TypeOK, running \in RunningTask, NEW p \in Phase, Goto(p)
  PROVE  WorkType'
  BY DEF TypeOK, WorkType, Goto, RunningTask

LEMMA HeadType ==
  ASSUME TypeOK, queue # <<>>
  PROVE  NextTask \in Task /\ Tail(queue) \in Seq(Task)
  BY DEF TypeOK, NextTask

LEMMA StartType ==
  ASSUME TypeOK, queue # <<>>, NEW p \in Phase, Start(p)
  PROVE  WorkType'
  BY HeadType DEF TypeOK, WorkType, Start, RunningTask

LEMMA SkipType ==
  ASSUME TypeOK, queue # <<>>, NEW ok \in BOOLEAN, Skip(ok)
  PROVE  WorkType'
  BY HeadType, SettledType DEF TypeOK, WorkType, Skip

LEMMA CloseType ==
  ASSUME TypeOK, Close, held' \in BOOLEAN
  PROVE  TypeOK'
<1>1. CloseTask \in Task
  BY FlagsAssumption DEF CloseTask, MkTask, Task, Kind, Ids
<1>2. Pushed(<<>>, CloseTask) \in Seq(Task)
  BY <1>1 DEF Pushed
<1>3. QED
  BY <1>2 DEF TypeOK, Close, tpc, video

LEMMA ContentModifyType ==
  ASSUME TypeOK, NEW a \in BOOLEAN, NEW r \in {0, 1}, SendContentModify(a, r)
  PROVE  told' \in [video : BOOLEAN, recv : {0, 1}] /\ lost' \in SUBSET {"sources", "modify", "close"}
  BY DEF TypeOK, SendContentModify

LEMMA NotifyType ==
  ASSUME TypeOK, NEW sig \in [known : Sdp, old : Sdp, new : Sdp], NEW st,
         NEW o \in Sdp, NEW n \in Sdp
  PROVE  Notify(sig, st, o, n) \in [known : Sdp, old : Sdp, new : Sdp]
<1>1. Patch(sig.known, o, n) \in Sdp
  BY DEF Patch, Sdp, NoSdp
<1>2. QED
  BY <1>1 DEF Notify, Sdp, NoSdp

\* The operations: each submits one task.
LEMMA CallType == ASSUME TypeOK, Call PROVE TypeOK'
<1>1. CASE Invite
  BY <1>1, SubmitType DEF Invite, Kind, TypeOK
<1>2. CASE AcceptOffer
  BY <1>2, SubmitType DEF AcceptOffer, Kind, TypeOK
<1>3. CASE AddTracks
  BY <1>3, SubmitType DEF AddTracks, Kind, TypeOK
<1>4. CASE ReplaceTrack
  <2>1. PICK s \in Source : \/ Submit("replace", {s}, {}, FALSE)
                            \/ Submit("replace", {}, {s}, FALSE)
    BY <1>4 DEF ReplaceTrack
  <2>2. "replace" \in Kind /\ {s} \in SUBSET Source /\ {} \in SUBSET Source /\ FALSE \in BOOLEAN
    BY DEF Kind
  <2>3. UNCHANGED session /\ answered' \in BOOLEAN
    BY <1>4 DEF ReplaceTrack, TypeOK
  <2>4. QED
    BY <2>1, <2>2, <2>3, SubmitType
<1>5. CASE RemoveTrackAsMute
  BY <1>5, SubmitType DEF RemoveTrackAsMute, Kind, TypeOK
<1>6. CASE AddTrackAsUnmute
  <2>1. PICK s \in Source : Submit("unmute", {s}, {}, FALSE)
    BY <1>6 DEF AddTrackAsUnmute
  <2>2. "unmute" \in Kind /\ {s} \in SUBSET Source /\ {} \in SUBSET Source /\ FALSE \in BOOLEAN
    BY DEF Kind
  <2>3. UNCHANGED session /\ answered' \in BOOLEAN
    BY <1>6 DEF AddTrackAsUnmute, TypeOK
  <2>4. QED
    BY <2>1, <2>2, <2>3, SubmitType
<1>7. CASE SetMediaTransferActive
  <2>1. PICK active \in BOOLEAN : Submit("transfer", {}, {}, active)
    BY <1>7 DEF SetMediaTransferActive
  <2>2. "transfer" \in Kind /\ {} \in SUBSET Source
    BY DEF Kind
  <2>3. UNCHANGED session /\ answered' \in BOOLEAN
    BY <1>7 DEF SetMediaTransferActive, TypeOK
  <2>4. QED
    BY <2>1, <2>2, <2>3, SubmitType
<1>8. CASE SetVideoCodecs
  BY <1>8, SubmitType DEF SetVideoCodecs, Kind, TypeOK
<1>9. CASE SetReceiverVideoConstraint
  <2>1. told' \in [video : BOOLEAN, recv : {0, 1}] /\ lost' \in SUBSET {"sources", "modify", "close"}
    BY <1>9, ContentModifyType DEF SetReceiverVideoConstraint, TypeOK
  <2>2. QED
    BY <1>9, <2>1 DEF SetReceiverVideoConstraint, TypeOK, session, work, tpc
<1>10. CASE NegotiationNeeded
  BY <1>10, SubmitType DEF NegotiationNeeded, Kind, TypeOK
<1>11. CASE Terminate
  BY <1>11, CloseType DEF Terminate
<1>12. CASE Leave
  BY <1>12, CloseType DEF Leave
<1>13. QED
  BY <1>1, <1>2, <1>3, <1>4, <1>5, <1>6, <1>7, <1>8, <1>9, <1>10, <1>11, <1>12 DEF Call

LEMMA MessageType == ASSUME TypeOK, Message PROVE TypeOK'
<1>1. CASE SetAnswer
  BY <1>1, SubmitType DEF SetAnswer, Kind, TypeOK
<1>2. CASE ReplaceTransport
  BY <1>2, SubmitType DEF ReplaceTransport, Kind, TypeOK
<1>3. CASE ModifyContents
  <2>1. PICK active \in BOOLEAN : Submit("contents", {}, {}, active)
    BY <1>3 DEF ModifyContents
  <2>2. "contents" \in Kind /\ {} \in SUBSET Source
    BY DEF Kind
  <2>3. UNCHANGED session /\ answered' \in BOOLEAN
    BY <1>3 DEF ModifyContents, TypeOK
  <2>4. QED
    BY <2>1, <2>2, <2>3, SubmitType
<1>4. CASE AddOrRemoveRemoteStream
  BY <1>4, SubmitType DEF AddOrRemoveRemoteStream, Kind, TypeOK
<1>5. CASE AddIceCandidates
  BY <1>5, SubmitType DEF AddIceCandidates, Kind, TypeOK
<1>6. CASE RemoteTerminate
  BY <1>6, CloseType DEF RemoteTerminate
<1>7. QED
  BY <1>1, <1>2, <1>3, <1>4, <1>5, <1>6 DEF Message

LEMMA NetworkType == ASSUME TypeOK, Network PROVE TypeOK'
<1>1. CASE Disconnect
  <2>1. UNCHANGED <<session, work, tpc, answered, signal, video, lost>> /\ connected' \in BOOLEAN
    BY <1>1 DEF Disconnect
  <2>2. QED
    BY <2>1 DEF TypeOK, session, work, tpc, video
<1>2. CASE Reconnect
  <2>1. Patch(signal.known, signal.old, signal.new) \in Sdp
    BY DEF TypeOK, Patch, Sdp, NoSdp
  <2>2. signal' \in [known : Sdp, old : Sdp, new : Sdp]
    BY <1>2, <2>1 DEF Reconnect, TypeOK, Sdp, NoSdp
  <2>3. QED
    BY <1>2, <2>2 DEF Reconnect, TypeOK, session, work, tpc, video
<1>3. QED
  BY <1>1, <1>2 DEF Network

\* A failed task: the description it leaves behind is one of the two given.
LEMMA FailType ==
  ASSUME TypeOK, running \in RunningTask, NEW sdp \in Sdp, FailWith(sdp)
  PROVE  WorkType' /\ local' \in Sdp /\ lost' \in SUBSET {"sources", "modify", "close"}
<1>1. WorkType'
  BY FinishType DEF FailWith
<1>2. QED
  BY <1>1 DEF TypeOK, FailWith, Unreported

LEMMA StartingType ==
  ASSUME TypeOK, StartTask \/ StartIceTask \/ StartTransferTask \/ StartContentsTask
                 \/ ClosePeerConnection
  PROVE  TypeOK'
<1>1. CASE StartTask
  <2>1. FirstPhase(NextTask) \in Phase
    BY DEF FirstPhase, Phase
  <2>2. WorkType'
    BY <1>1, <2>1, StartType, SkipType DEF StartTask, NextIs
  <2>3. QED
    BY <1>1, <2>2 DEF StartTask, TypeOK, WorkType, session, tpc, video
<1>2. CASE StartIceTask
  <2>1. WorkType'
    BY <1>2, SkipType DEF StartIceTask, NextIs
  <2>2. QED
    BY <1>2, <2>1 DEF StartIceTask, TypeOK, WorkType, session, tpc, video
<1>3. CASE StartTransferTask
  <2>1. "cycle" \in Phase
    BY DEF Phase
  <2>2. WorkType'
    BY <1>3, <2>1, SkipType, StartType DEF StartTransferTask, NextIs
  <2>3. NextTask.video \in BOOLEAN
    BY <1>3, HeadType DEF StartTransferTask, NextIs, Task
  <2>4. recvConstraint \in {0, 1}
    BY DEF TypeOK
  <2>5. told' \in [video : BOOLEAN, recv : {0, 1}] /\ lost' \in SUBSET {"sources", "modify", "close"}
    <3>1. CASE localVideoActive # NextTask.video /\ P2P /\ state = "active"
      BY <1>3, <2>3, <2>4, <3>1, ContentModifyType DEF StartTransferTask
    <3>2. CASE ~(localVideoActive # NextTask.video /\ P2P /\ state = "active")
      BY <1>3, <3>2 DEF StartTransferTask, TypeOK
    <3>3. QED
      BY <3>1, <3>2
  <2>6. QED
    BY <1>3, <2>2, <2>3, <2>5 DEF StartTransferTask, TypeOK, WorkType, session, tpc
<1>4. CASE StartContentsTask
  <2>1. "cycle" \in Phase
    BY DEF Phase
  <2>2. WorkType'
    BY <1>4, <2>1, SkipType, StartType DEF StartContentsTask, NextIs
  <2>3. NextTask.video \in BOOLEAN
    BY <1>4, HeadType DEF StartContentsTask, NextIs, Task
  <2>4. remoteVideoActive' \in BOOLEAN
    BY <1>4, <2>3 DEF StartContentsTask, TypeOK
  <2>5. QED
    BY <1>4, <2>2, <2>4 DEF StartContentsTask, TypeOK, WorkType, session, tpc
<1>5. CASE ClosePeerConnection
  <2>1. WorkType'
    BY <1>5, SkipType DEF ClosePeerConnection, NextIs
  <2>2. QED
    BY <1>5, <2>1 DEF ClosePeerConnection, TypeOK, WorkType, session, video
<1>6. QED
  BY <1>1, <1>2, <1>3, <1>4, <1>5

\* What the end of setOfferAnswerCycle leaves behind.
LEMMA ConcludeType ==
  ASSUME TypeOK, running \in RunningTask, ConcludeOfferAnswer
  PROVE  /\ WorkType'
         /\ state' \in {"pending", "active", "ended"}
         /\ signal' \in [known : Sdp, old : Sdp, new : Sdp]
         /\ told' \in [video : BOOLEAN, recv : {0, 1}]
         /\ lost' \in SUBSET {"sources", "modify", "close"}
<1> DEFINE st == IF state = "pending" THEN "active" ELSE state
           sig == IF running.old = NoSdp THEN signal ELSE Notify(signal, st, running.old, attached)
<1>1. attached \in Sdp /\ running.old \in Sdp
  BY DEF TypeOK, RunningTask, Sdp
<1>2. sig \in [known : Sdp, old : Sdp, new : Sdp]
  <2>1. signal \in [known : Sdp, old : Sdp, new : Sdp]
    BY DEF TypeOK
  <2>2. QED
    BY <1>1, <2>1, NotifyType
<1>3. signal' \in [known : Sdp, old : Sdp, new : Sdp]
  <2>1. signal' = IF Runs({"accept"}) THEN SendDescription(sig, attached) ELSE sig
    BY DEF ConcludeOfferAnswer
  <2>2. SendDescription(sig, attached) \in [known : Sdp, old : Sdp, new : Sdp]
    BY <1>1, <1>2 DEF SendDescription
  <2>3. QED
    BY <1>2, <2>1, <2>2
<1>4. told' \in [video : BOOLEAN, recv : {0, 1}] /\ lost' \in SUBSET {"sources", "modify", "close"}
  <2>1. localVideoActive \in BOOLEAN /\ recvConstraint \in {0, 1}
    BY DEF TypeOK
  <2>2. SendContentModify(localVideoActive, recvConstraint) \/ UNCHANGED <<told, lost>>
    BY DEF ConcludeOfferAnswer
  <2>3. QED
    BY <2>1, <2>2, ContentModifyType DEF TypeOK
<1>5. state' \in {"pending", "active", "ended"}
  BY DEF ConcludeOfferAnswer, TypeOK
<1>6. WorkType'
  BY FinishType DEF ConcludeOfferAnswer
<1>7. QED
  BY <1>3, <1>4, <1>5, <1>6

\* A promise the running task waited for is fulfilled.
LEMMA FulfilledType ==
  ASSUME TypeOK, MediaOk \/ RespondOk \/ OfferOk \/ CycleOk \/ EncodingsOk
  PROVE  TypeOK'
<1> USE DEF Phase
<1>0. attached \in Sdp
  BY DEF TypeOK, Sdp
<1>1. CASE MediaOk
  <2>1. running \in RunningTask /\ running.task \in Task
    BY <1>1, InType DEF MediaOk
  <2>2. PICK next \in AfterMedia(running.task) : IF next = "done" THEN Finish(TRUE) ELSE Goto(next)
    BY <1>1 DEF MediaOk
  <2>3. WorkType'
    <3>1. CASE next = "done"
      BY <2>1, <2>2, <3>1, FinishType
    <3>2. CASE next # "done"
      <4>1. Goto(next)
        BY <2>2, <3>2
      <4>2. /\ running' = [running EXCEPT !.phase = next]
            /\ next \in {"offer", "cycle"}
        BY <2>1, <2>2, <3>2, <4>1, <1>1 DEF AfterMedia, MediaOk, Goto, In
      <4>3. QED
        BY <2>1, <4>1, <4>2, GotoType
    <3>3. QED
      BY <3>1, <3>2
  <2>4. Attaches(running.task) \in SUBSET Source
    BY <2>1 DEF Attaches, Task
  <2>5. attached' \in SUBSET Source
    BY <1>1, <2>4 DEF MediaOk, TypeOK
  <2>6. QED
    BY <1>1, <2>3, <2>5 DEF MediaOk, TypeOK, WorkType, session, video
<1>2. CASE RespondOk
  <2>1. running \in RunningTask
    BY <1>2, InType DEF RespondOk
  <2>2. WorkType'
    BY <1>2, <2>1, GotoType, FinishType DEF RespondOk
  <2>3. lost' \in SUBSET {"sources", "modify", "close"}
    BY <1>2 DEF RespondOk, Unreported, TypeOK
  <2>4. QED
    BY <1>0, <1>2, <2>2, <2>3 DEF RespondOk, TypeOK, WorkType, session, video
<1>3. CASE OfferOk
  <2>1. running \in RunningTask
    BY <1>3, InType DEF OfferOk
  <2>2. WorkType'
    BY <1>3, <2>1, GotoType, FinishType DEF OfferOk, Nest
  <2>3. signal' \in [known : Sdp, old : Sdp, new : Sdp]
    BY <1>0, <1>3 DEF OfferOk, SendDescription, TypeOK
  <2>4. QED
    BY <1>0, <1>3, <2>2, <2>3 DEF OfferOk, TypeOK, WorkType, session, video
<1>4. CASE CycleOk
  <2>1. running \in RunningTask /\ running.old \in Sdp
    BY <1>4, InType DEF CycleOk
  <2>2. Notify(signal, state, running.old, attached) \in [known : Sdp, old : Sdp, new : Sdp]
    BY <1>0, <2>1, NotifyType DEF TypeOK
  <2>3. /\ WorkType'
        /\ state' \in {"pending", "active", "ended"}
        /\ signal' \in [known : Sdp, old : Sdp, new : Sdp]
        /\ told' \in [video : BOOLEAN, recv : {0, 1}]
        /\ lost' \in SUBSET {"sources", "modify", "close"}
    <3>1. CASE Goto("nested") /\ Unreported(attached) /\ UNCHANGED <<state, signal, told>>
      BY <2>1, <3>1, GotoType DEF Unreported, TypeOK
    <3>2. CASE ConcludeOfferAnswer
      BY <2>1, <3>2, ConcludeType
    <3>3. CASE Report(attached) /\ Finish(TRUE) /\ UNCHANGED <<state, told>>
      BY <2>1, <2>2, <3>3, FinishType DEF Report, Unreported, TypeOK
    <3>4. CASE Goto("encodings") /\ UNCHANGED <<state, signal, told, lost>>
      BY <2>1, <3>4, GotoType DEF TypeOK
    <3>5. CASE Unreported(attached) /\ Finish(TRUE) /\ UNCHANGED <<state, signal, told>>
      BY <2>1, <3>5, FinishType DEF Unreported, TypeOK
    <3>6. CASE Unreported(attached) /\ Finish(FALSE) /\ UNCHANGED <<state, signal, told>>
      BY <2>1, <3>6, FinishType DEF Unreported, TypeOK
    <3>7. QED
      BY <1>4, <3>1, <3>2, <3>3, <3>4, <3>5, <3>6 DEF CycleOk, Nest
  <2>4. QED
    BY <1>0, <1>4, <2>3 DEF CycleOk, TypeOK, WorkType
<1>5. CASE EncodingsOk
  <2>1. running \in RunningTask /\ running.old \in Sdp
    BY <1>5, InType DEF EncodingsOk
  <2>2. signal' \in [known : Sdp, old : Sdp, new : Sdp] /\ lost' \in SUBSET {"sources", "modify", "close"}
    BY <1>5, <2>1, NotifyType DEF EncodingsOk, Report, Unreported, TypeOK
  <2>3. WorkType'
    BY <1>5, <2>1, FinishType DEF EncodingsOk
  <2>4. QED
    BY <1>5, <2>2, <2>3 DEF EncodingsOk, TypeOK, WorkType, session, tpc, video
<1>6. QED
  BY <1>1, <1>2, <1>3, <1>4, <1>5

\* A promise the running task waited for is rejected.
LEMMA RejectedType ==
  ASSUME TypeOK, MediaFails \/ RespondFails \/ OfferFails \/ CycleFails \/ EncodingsFail
  PROVE  TypeOK'
<1> USE DEF Phase
<1>1. CASE MediaFails \/ RespondFails \/ OfferFails \/ EncodingsFail
  <2>1. running \in RunningTask
    BY <1>1, InType DEF MediaFails, RespondFails, OfferFails, EncodingsFail
  <2>2. FailWith(local) /\ local \in Sdp
    BY <1>1 DEF MediaFails, RespondFails, OfferFails, EncodingsFail, TypeOK
  <2>3. WorkType' /\ local' \in Sdp /\ lost' \in SUBSET {"sources", "modify", "close"}
    BY <2>1, <2>2, FailType
  <2>4. UNCHANGED <<session, pcClosed, attached, remote, answered, signal, video, connected>>
    BY <1>1 DEF MediaFails, RespondFails, OfferFails, EncodingsFail
  <2>5. QED
    BY <2>3, <2>4 DEF TypeOK, WorkType, session, video
<1>2. CASE CycleFails
  <2>1. running \in RunningTask
    BY <1>2, InType DEF CycleFails
  <2>2. PICK sdp \in {local} \cup (IF role = "initiator" THEN {attached} ELSE {}) :
          IF Runs({"mute", "unmute"})
            THEN Goto("stuck") /\ local' = sdp /\ Unreported(sdp)
            ELSE FailWith(sdp)
    BY <1>2 DEF CycleFails
  <2>3. sdp \in Sdp
    BY DEF TypeOK, Sdp
  <2>4. WorkType' /\ local' \in Sdp /\ lost' \in SUBSET {"sources", "modify", "close"}
    BY <2>1, <2>2, <2>3, GotoType, FailType DEF Unreported, TypeOK
  <2>5. QED
    BY <1>2, <2>4 DEF CycleFails, TypeOK, WorkType, session, video
<1>3. QED
  BY <1>1, <1>2

\* Type correctness, for every choice of the constants.
THEOREM TypeCorrect == Spec => []TypeOK
<1>1. Init => TypeOK
  <2> SUFFICES ASSUME Init PROVE TypeOK
    OBVIOUS
  <2>1. NoSdp \in Sdp /\ {} \in SUBSET Source
    BY DEF Sdp, NoSdp
  <2>2. signal \in [known : Sdp, old : Sdp, new : Sdp] /\ told \in [video : BOOLEAN, recv : {0, 1}]
    BY <2>1 DEF Init
  <2>3. outcome \in [1..MaxOps -> Outcome] /\ nops \in 0..MaxOps
    BY FlagsAssumption DEF Init, Outcome
  <2>4. queue \in Seq(Task)
    BY DEF Init
  <2>5. QED
    BY <2>1, <2>2, <2>3, <2>4 DEF Init, TypeOK
<1>2. TypeOK /\ [Next]_vars => TypeOK'
  <2>1. TypeOK /\ Worker => TypeOK'
    BY StartingType, FulfilledType, RejectedType DEF Worker
  <2>2. QED
    BY <2>1, StutterType, CallType, MessageType, NetworkType DEF Next
<1>3. QED
  BY <1>1, <1>2, PTL DEF Spec

-----------------------------------------------------------------------------
(* The queue of an ended session.                                          *)

\* ClosedIsQuiet needs to know that only close() pushes a closing task: otherwise the
\* worker could close the peer connection of a live session.
QueueInv == /\ ClosedIsQuiet
            /\ \A i \in DOMAIN queue : queue[i].kind = "close" => stopped

\* Pushing anything but the closing task keeps the invariant's parts about the queue.
LEMMA PushQuiet ==
  ASSUME TypeOK, QueueInv, NEW t \in Task, t.kind # "close"
  PROVE  /\ stopped => Pushed(queue, t) = queue
         /\ \A i \in DOMAIN Pushed(queue, t) : Pushed(queue, t)[i].kind = "close" => stopped
  BY DEF TypeOK, QueueInv, Pushed

LEMMA SubmitQuiet ==
  ASSUME TypeOK, QueueInv, NEW k \in Kind \ {"close"}, NEW a \in SUBSET Source,
         NEW d \in SUBSET Source, NEW v \in BOOLEAN, Submit(k, a, d, v), UNCHANGED session
  PROVE  QueueInv'
<1>1. nops + 1 \in Ids
  BY FlagsAssumption DEF TypeOK, Submit, Ids
<1>2. MkTask(k, nops + 1, a, d, v) \in Task /\ MkTask(k, nops + 1, a, d, v).kind # "close"
  BY <1>1 DEF MkTask, Task
<1>3. QED
  BY <1>2, PushQuiet DEF Submit, QueueInv, ClosedIsQuiet, session, tpc

LEMMA FinishQuiet ==
  ASSUME TypeOK, QueueInv, running \in RunningTask, NEW ok \in BOOLEAN, Finish(ok),
         pcClosed' = pcClosed, stopped => state' = "ended", state' = "ended" => state = "ended"
  PROVE  QueueInv'
<1>1. running # NoTask /\ running.task.id \in Ids
  BY NoTaskAssumption DEF RunningTask, Task
<1>2. ~pcClosed
  BY <1>1 DEF QueueInv, ClosedIsQuiet
<1> DEFINE d == MkTask("decoder", 0, {}, {}, FALSE)
           w == MkTask("swap2", running.task.id, {}, {}, FALSE)
<1>3. d \in Task /\ d.kind # "close" /\ w \in Task /\ w.kind # "close"
  BY <1>1, FlagsAssumption DEF MkTask, Task, Kind, Ids
<1>4. FollowUp(running.task, ok) \in {queue, Pushed(queue, d), Pushed(queue, w)}
  BY DEF FollowUp
<1>5. /\ stopped => queue' = queue
      /\ \A i \in DOMAIN queue' : queue'[i].kind = "close" => stopped
  BY <1>3, <1>4, PushQuiet DEF Finish, QueueInv
<1>6. QED
  BY <1>2, <1>5 DEF Finish, QueueInv, ClosedIsQuiet

LEMMA GotoQuiet ==
  ASSUME TypeOK, QueueInv, running \in RunningTask, NEW p \in Phase, Goto(p),
         pcClosed' = pcClosed, state' = state
  PROVE  QueueInv'
<1>1. running # NoTask
  BY NoTaskAssumption DEF RunningTask
<1>2. QED
  BY <1>1 DEF Goto, QueueInv, ClosedIsQuiet

\* A queue whose first task is not the closing one belongs to a live session.
LEMMA TailQuiet ==
  ASSUME TypeOK, QueueInv, queue # <<>>, NextTask.kind # "close"
  PROVE  /\ ~stopped
         /\ \A i \in DOMAIN Tail(queue) : Tail(queue)[i].kind = "close" => stopped
  BY DEF TypeOK, QueueInv, ClosedIsQuiet, NextTask, CloseTask, MkTask

LEMMA StartQuiet ==
  ASSUME TypeOK, QueueInv, queue # <<>>, NextTask.kind # "close", NEW p \in Phase, Start(p),
         pcClosed' = pcClosed, state' = state
  PROVE  QueueInv'
  BY TailQuiet DEF Start, QueueInv, ClosedIsQuiet

LEMMA SkipQuiet ==
  ASSUME TypeOK, QueueInv, queue # <<>>, NextTask.kind # "close", NEW ok \in BOOLEAN, Skip(ok),
         pcClosed' = pcClosed, state' = state
  PROVE  QueueInv'
  BY TailQuiet DEF Skip, QueueInv, ClosedIsQuiet

LEMMA CloseQuiet == ASSUME TypeOK, QueueInv, Close PROVE QueueInv'
  BY DEF Close, Pushed, QueueInv, ClosedIsQuiet, CloseTask, MkTask, tpc

\* Every call, message and connection event: one task, or the end of the session.
LEMMA EventQuiet == ASSUME TypeOK, QueueInv, Call \/ Message \/ Network PROVE QueueInv'
<1> DEFINE Submits == \E k \in Kind \ {"close"}, a \in SUBSET Source, d \in SUBSET Source,
                         v \in BOOLEAN : Submit(k, a, d, v) /\ UNCHANGED session
<1>1. CASE Invite \/ AcceptOffer \/ AddTracks
  <2>1. "invite" \in Kind \ {"close"} /\ "accept" \in Kind \ {"close"} /\ "add" \in Kind \ {"close"}
    BY DEF Kind
  <2>2. Submits
    BY <1>1, <2>1 DEF Invite, AcceptOffer, AddTracks
  <2>3. QED
    BY <2>2, SubmitQuiet
<1>2. CASE ReplaceTrack \/ AddTrackAsUnmute
  <2>1. "replace" \in Kind \ {"close"} /\ "unmute" \in Kind \ {"close"}
    BY DEF Kind
  <2>2. \A s \in Source : {s} \in SUBSET Source
    OBVIOUS
  <2>3. Submits
    BY <1>2, <2>1, <2>2 DEF ReplaceTrack, AddTrackAsUnmute
  <2>4. QED
    BY <2>3, SubmitQuiet
<1>3. CASE SetMediaTransferActive \/ ModifyContents
  <2>1. "transfer" \in Kind \ {"close"} /\ "contents" \in Kind \ {"close"}
    BY DEF Kind
  <2>2. Submits
    BY <1>3, <2>1 DEF SetMediaTransferActive, ModifyContents
  <2>3. QED
    BY <2>2, SubmitQuiet
<1>4. CASE RemoveTrackAsMute \/ SetVideoCodecs \/ NegotiationNeeded \/ AddIceCandidates
  <2>1. {"mute", "codecs", "needed", "ice"} \subseteq Kind \ {"close"}
    BY DEF Kind
  <2>2. Submits
    BY <1>4, <2>1 DEF RemoveTrackAsMute, SetVideoCodecs, NegotiationNeeded, AddIceCandidates
  <2>3. QED
    BY <2>2, SubmitQuiet
<1>5. CASE SetAnswer \/ ReplaceTransport \/ AddOrRemoveRemoteStream
  <2>1. {"answer", "swap1", "source"} \subseteq Kind \ {"close"}
    BY DEF Kind
  <2>2. Submits
    BY <1>5, <2>1 DEF SetAnswer, ReplaceTransport, AddOrRemoveRemoteStream
  <2>3. QED
    BY <2>2, SubmitQuiet
<1>6. CASE Terminate \/ Leave \/ RemoteTerminate
  BY <1>6, CloseQuiet DEF Terminate, Leave, RemoteTerminate
<1>7. CASE SetReceiverVideoConstraint \/ Disconnect \/ Reconnect
  BY <1>7 DEF SetReceiverVideoConstraint, Disconnect, Reconnect, QueueInv, ClosedIsQuiet,
              session, work, tpc
<1>8. QED
  BY <1>1, <1>2, <1>3, <1>4, <1>5, <1>6, <1>7 DEF Call, Message, Network

LEMMA StartingQuiet ==
  ASSUME TypeOK, QueueInv, StartTask \/ StartIceTask \/ StartTransferTask \/ StartContentsTask
                           \/ ClosePeerConnection
  PROVE  QueueInv'
<1>1. CASE StartTask
  <2>1. queue # <<>> /\ NextTask.kind # "close"
    BY <1>1 DEF StartTask, NextIs
  <2>2. FirstPhase(NextTask) \in Phase
    BY DEF FirstPhase, Phase
  <2>3. pcClosed' = pcClosed /\ state' = state
    BY <1>1 DEF StartTask, tpc, session
  <2>4. QED
    BY <1>1, <2>1, <2>2, <2>3, StartQuiet, SkipQuiet DEF StartTask
<1>2. CASE StartIceTask \/ StartTransferTask \/ StartContentsTask
  <2>1. queue # <<>> /\ NextTask.kind # "close"
    BY <1>2 DEF StartIceTask, StartTransferTask, StartContentsTask, NextIs
  <2>2. "cycle" \in Phase
    BY DEF Phase
  <2>3. pcClosed' = pcClosed /\ state' = state
    BY <1>2 DEF StartIceTask, StartTransferTask, StartContentsTask, tpc, session
  <2>4. Start("cycle") \/ (\E ok \in BOOLEAN : Skip(ok))
    BY <1>2 DEF StartIceTask, StartTransferTask, StartContentsTask
  <2>5. QED
    BY <2>1, <2>2, <2>3, <2>4, StartQuiet, SkipQuiet
<1>3. CASE ClosePeerConnection
  <2>1. running = NoTask /\ queue # <<>> /\ Head(queue).kind = "close"
    BY <1>3 DEF ClosePeerConnection, NextIs, NextTask
  <2>2. stopped /\ queue = <<CloseTask>>
    BY <2>1 DEF TypeOK, QueueInv, ClosedIsQuiet
  <2>3. Tail(queue) = <<>>
    BY <2>2
  <2>4. QED
    BY <1>3, <2>1, <2>2, <2>3 DEF ClosePeerConnection, Skip, QueueInv, ClosedIsQuiet, session
<1>4. QED
  BY <1>1, <1>2, <1>3

\* A phase of the running task ends: the task goes on, or finishes.
LEMMA PhaseQuiet ==
  ASSUME TypeOK, QueueInv, MediaOk \/ RespondOk \/ OfferOk \/ CycleOk \/ EncodingsOk
                           \/ MediaFails \/ RespondFails \/ OfferFails \/ CycleFails \/ EncodingsFail
  PROVE  QueueInv'
<1> USE DEF Phase
<1>1. running \in RunningTask
  BY InType DEF MediaOk, RespondOk, OfferOk, CycleOk, EncodingsOk, MediaFails, RespondFails,
                OfferFails, CycleFails, EncodingsFail
<1>2. pcClosed' = pcClosed
  BY DEF MediaOk, RespondOk, OfferOk, CycleOk, EncodingsOk, MediaFails, RespondFails,
         OfferFails, CycleFails, EncodingsFail, tpc
<1>3. CASE CycleOk /\ ConcludeOfferAnswer
  <2>1. Finish(TRUE) /\ state' = IF state = "pending" THEN "active" ELSE state
    BY <1>3 DEF ConcludeOfferAnswer
  <2>2. (stopped => state' = "ended") /\ (state' = "ended" => state = "ended")
    BY <2>1 DEF QueueInv, ClosedIsQuiet
  <2>3. QED
    BY <1>1, <1>2, <2>1, <2>2, FinishQuiet
<1>4. CASE state' = state /\ ((\E ok \in BOOLEAN : Finish(ok)) \/ (\E p \in Phase : Goto(p)))
  <2>1. stopped => state' = "ended"
    BY <1>4 DEF QueueInv, ClosedIsQuiet
  <2>2. QED
    BY <1>1, <1>2, <1>4, <2>1, FinishQuiet, GotoQuiet
<1>5. CASE MediaOk
  <2>1. PICK next \in AfterMedia(running.task) : IF next = "done" THEN Finish(TRUE) ELSE Goto(next)
    BY <1>5 DEF MediaOk
  <2>2. next \in {"offer", "cycle", "done"}
    BY DEF AfterMedia
  <2>3. state' = state
    BY <1>5 DEF MediaOk, session
  <2>4. QED
    BY <1>4, <2>1, <2>2, <2>3
<1>6. CASE RespondOk \/ OfferOk \/ EncodingsOk
  BY <1>4, <1>6 DEF RespondOk, OfferOk, EncodingsOk, Nest, session
<1>7. CASE MediaFails \/ RespondFails \/ OfferFails \/ EncodingsFail \/ CycleFails
  BY <1>4, <1>7 DEF MediaFails, RespondFails, OfferFails, CycleFails, EncodingsFail, FailWith, session
<1>8. CASE CycleOk /\ ~ConcludeOfferAnswer
  BY <1>4, <1>8 DEF CycleOk, Nest
<1>9. QED
  BY <1>3, <1>5, <1>6, <1>7, <1>8

\* Once a session has ended, its queue holds at most the closing task; once its peer
\* connection is closed, nothing runs or waits.
THEOREM EndedSessionIsQuiet == Spec => []ClosedIsQuiet
<1>1. Init => QueueInv
  BY DEF Init, QueueInv, ClosedIsQuiet
<1>2. TypeOK /\ QueueInv /\ [Next]_vars => QueueInv'
  <2>1. TypeOK /\ QueueInv /\ Worker => QueueInv'
    BY StartingQuiet, PhaseQuiet DEF Worker
  <2>2. QueueInv /\ UNCHANGED vars => QueueInv'
    BY DEF QueueInv, ClosedIsQuiet, vars, session, work, tpc
  <2>3. QED
    BY <2>1, <2>2, EventQuiet DEF Next
<1>3. QueueInv => ClosedIsQuiet
  BY DEF QueueInv
<1>4. QED
  BY <1>1, <1>2, <1>3, TypeCorrect, PTL DEF Spec

-----------------------------------------------------------------------------
(* What the peer knows of the local sources.                               *)
(*                                                                         *)
(* PeerKnowsSources speaks of an active session between two tasks.  To     *)
(* survive every step it needs to hold of a pending session too, and to be *)
(* joined by what makes a task's report right: the description a task read *)
(* when it started is still the local one while it attaches tracks, and    *)
(* nothing is cached while the signalling works.                           *)

CacheInv ==
  /\ state = "pending" => signal.old = NoSdp
  /\ state = "active" /\ connected => signal.old = NoSdp

LocalInv ==
  /\ In("media") /\ ~Runs({"add"}) => local = running.old
  /\ In("encodings") => local # NoSdp

KnownInv ==
  state # "ended" /\ "sources" \notin lost /\ signal.known # NoSdp =>
    /\ Base # NoSdp
    /\ signal.old = NoSdp => signal.known = Base
    /\ signal.old # NoSdp => signal.known = signal.old /\ signal.new = Base

SourceInv == CacheInv /\ LocalInv /\ KnownInv

\* Applying the diff of two descriptions to the first gives the second.
LEMMA PatchDiff ==
  ASSUME NEW old, NEW new, old # NoSdp
  PROVE  Patch(old, old, new) = new
  BY DEF Patch

\* A report from what the peer is believed to know to what is there now: online it
\* brings the peer up to date, offline it extends the cached pair.
LEMMA NotifyBrings ==
  ASSUME NEW sig \in [known : Sdp, old : Sdp, new : Sdp], NEW o \in Sdp, NEW n \in Sdp,
         o # NoSdp, sig.known # NoSdp,
         connected => sig.old = NoSdp,
         sig.old = NoSdp => sig.known = o,
         sig.old # NoSdp => sig.known = sig.old /\ sig.new = o
  PROVE  LET r == Notify(sig, "active", o, n) IN
           /\ connected => r.old = NoSdp
           /\ r.old = NoSdp => r.known = n
           /\ r.old # NoSdp => r.known = r.old /\ r.new = n
<1>1. CASE connected
  BY <1>1, PatchDiff DEF Notify
<1>2. CASE ~connected
  BY <1>2 DEF Notify
<1>3. QED
  BY <1>1, <1>2

\* A peer that has been told nothing is told nothing by a diff.
LEMMA NotifyUnknown ==
  ASSUME NEW sig, NEW st, NEW o, NEW n, sig.known = NoSdp
  PROVE  Notify(sig, st, o, n).known = NoSdp
  BY DEF Notify, Patch

\* Steps that touch neither the session's sources nor the running task.
LEMMA FrameKnown ==
  ASSUME SourceInv, UNCHANGED <<state, running, local, signal>>,
         connected' => connected, "sources" \in lost => "sources" \in lost'
  PROVE  SourceInv'
  BY DEF SourceInv, CacheInv, LocalInv, KnownInv, Base, In, Runs

LEMMA EventKnown == ASSUME TypeOK, SourceInv, Call \/ Message \/ Network PROVE SourceInv'
<1>1. CASE Terminate \/ Leave \/ RemoteTerminate
  BY <1>1 DEF Terminate, Leave, RemoteTerminate, Close, SourceInv, CacheInv, LocalInv, KnownInv,
              In, Runs, tpc
<1>2. CASE SetReceiverVideoConstraint
  <2>1. "sources" \in lost => "sources" \in lost'
    BY <1>2 DEF SetReceiverVideoConstraint, SendContentModify
  <2>2. UNCHANGED <<state, running, local, signal>> /\ connected' = connected
    BY <1>2 DEF SetReceiverVideoConstraint, session, work, tpc
  <2>3. QED
    BY <2>1, <2>2, FrameKnown
<1>3. CASE Disconnect
  BY <1>3, FrameKnown DEF Disconnect, session, work, tpc
<1>4. CASE Reconnect
  <2>1. CASE signal.old # NoSdp /\ state = "active"
    <3>1. /\ signal'.known = Patch(signal.known, signal.old, signal.new)
          /\ signal'.old = NoSdp
          /\ UNCHANGED <<state, running, local, lost>>
      BY <1>4, <2>1 DEF Reconnect, session, work, tpc
    <3>2. signal'.known # NoSdp => signal.known # NoSdp
      BY <3>1 DEF Patch
    <3>3. state # "ended" /\ "sources" \notin lost /\ signal'.known # NoSdp
            => signal'.known = Base /\ Base # NoSdp
      BY <2>1, <3>1, <3>2, PatchDiff DEF SourceInv, KnownInv
    <3>4. QED
      BY <3>1, <3>3 DEF SourceInv, CacheInv, LocalInv, KnownInv, Base, In, Runs
  <2>2. CASE ~(signal.old # NoSdp /\ state = "active")
    <3>1. UNCHANGED <<state, running, local, signal, lost>>
      BY <1>4, <2>2 DEF Reconnect, session, work, tpc
    <3>2. QED
      BY <2>2, <3>1 DEF SourceInv, CacheInv, LocalInv, KnownInv, Base, In, Runs
  <2>3. QED
    BY <2>1, <2>2
<1>5. CASE UNCHANGED <<session, running, tpc, signal, connected, lost>>
  BY <1>5, FrameKnown DEF session, tpc
<1>6. (Call \/ Message) /\ ~(Terminate \/ Leave \/ RemoteTerminate \/ SetReceiverVideoConstraint)
        => UNCHANGED <<session, running, tpc, signal, connected, lost>>
  BY DEF Call, Message, Invite, AcceptOffer, AddTracks, ReplaceTrack, RemoveTrackAsMute,
         AddTrackAsUnmute, SetMediaTransferActive, SetVideoCodecs, NegotiationNeeded, SetAnswer,
         ReplaceTransport, ModifyContents, AddOrRemoveRemoteStream, AddIceCandidates, Submit
<1>7. QED
  BY <1>1, <1>2, <1>3, <1>4, <1>5, <1>6 DEF Network

\* A task starts: what it reads is what the peer is compared with.
LEMMA StartingKnown ==
  ASSUME TypeOK, SourceInv, StartTask \/ StartIceTask \/ StartTransferTask \/ StartContentsTask
                            \/ ClosePeerConnection
  PROVE  SourceInv'
<1>1. running = NoTask /\ UNCHANGED <<state, local, signal, connected>>
  BY DEF StartTask, StartIceTask, StartTransferTask, StartContentsTask, ClosePeerConnection,
         NextIs, session, tpc
<1>2. "sources" \in lost => "sources" \in lost'
  BY DEF StartTask, StartIceTask, StartTransferTask, StartContentsTask, ClosePeerConnection,
         SendContentModify
<1>3. CASE running' = running
  BY <1>1, <1>2, <1>3, FrameKnown
<1>4. CASE \E p \in Phase \ {"encodings", "nested", "stuck"} : Start(p)
  <2>1. running'.old = local /\ running'.phase \notin {"encodings", "nested"}
    BY <1>4 DEF Start
  <2>2. Base' = Base
    BY <1>1, <2>1 DEF Base, In
  <2>3. QED
    BY <1>1, <1>2, <2>1, <2>2 DEF SourceInv, CacheInv, LocalInv, KnownInv, In, Runs
<1>5. running' = running \/ \E p \in Phase \ {"encodings", "nested", "stuck"} : Start(p)
  <2>1. FirstPhase(NextTask) \in Phase \ {"encodings", "nested", "stuck"}
    BY DEF FirstPhase, Phase
  <2>2. "cycle" \in Phase \ {"encodings", "nested", "stuck"}
    BY DEF Phase
  <2>3. QED
    BY <2>1, <2>2 DEF StartTask, StartIceTask, StartTransferTask, StartContentsTask,
                      ClosePeerConnection, Skip
<1>6. QED
  BY <1>3, <1>4, <1>5

\* A task finishes: the invariant says that the peer knows the local description.
LEMMA FinishKnown ==
  ASSUME running' = NoTask, CacheInv',
         state' # "ended" /\ "sources" \notin lost' /\ signal'.known # NoSdp =>
           /\ local' # NoSdp
           /\ signal'.old = NoSdp => signal'.known = local'
           /\ signal'.old # NoSdp => signal'.known = signal'.old /\ signal'.new = local'
  PROVE  SourceInv'
  BY DEF SourceInv, LocalInv, KnownInv, Base, In

\* A task goes on to a phase that still has its report before it.
LEMMA GotoKnown ==
  ASSUME TypeOK, SourceInv, running \in RunningTask, ~In("nested"),
         NEW p \in {"media", "offer", "cycle", "encodings", "stuck"}, Goto(p),
         UNCHANGED <<state, signal, connected>>, "sources" \in lost => "sources" \in lost',
         p = "media" /\ ~Runs({"add"}) => local' = running.old,
         p = "encodings" => local' # NoSdp
  PROVE  SourceInv'
<1>1. running # NoTask
  BY NoTaskAssumption DEF RunningTask
<1>2. running' = [task |-> running.task, phase |-> p, old |-> running.old]
  BY DEF Goto, RunningTask
<1>3. running' # NoTask
  BY <1>1, <1>2, NoTaskAssumption DEF RunningTask, Phase
<1>4. Base = running.old /\ Base' = running.old
  BY <1>1, <1>2, <1>3 DEF Base, In
<1>5. CacheInv' /\ KnownInv'
  BY <1>4 DEF SourceInv, CacheInv, KnownInv
<1>6. LocalInv'
  BY <1>1, <1>2 DEF LocalInv, In, Runs
<1>7. QED
  BY <1>5, <1>6 DEF SourceInv

\* What the invariant gives a running task that is not nested.
LEMMA RunningKnown ==
  ASSUME SourceInv, running \in RunningTask, ~In("nested"),
         state # "ended", "sources" \notin lost, signal.known # NoSdp
  PROVE  /\ running.old # NoSdp
         /\ signal.old = NoSdp => signal.known = running.old
         /\ signal.old # NoSdp => signal.known = signal.old /\ signal.new = running.old
<1>1. running # NoTask
  BY NoTaskAssumption DEF RunningTask
<1>2. QED
  BY <1>1 DEF SourceInv, KnownInv, Base

\* A task that ends without a report: a change it made is on record as lost.
LEMMA SilentKnown ==
  ASSUME TypeOK, SourceInv, running \in RunningTask, ~In("nested"), running' = NoTask,
         UNCHANGED <<state, signal, connected>>, "sources" \in lost => "sources" \in lost',
         local' = running.old \/ "sources" \in lost'
  PROVE  SourceInv'
<1>1. CacheInv'
  BY DEF SourceInv, CacheInv
<1>2. QED
  BY <1>1, RunningKnown, FinishKnown

\* A task that ends with its report.
LEMMA ReportKnown ==
  ASSUME TypeOK, SourceInv, running \in RunningTask, ~In("nested"), running' = NoTask,
         UNCHANGED <<state, connected>>, local' \in Sdp, local' # NoSdp, Report(local')
  PROVE  SourceInv'
<1>1. signal \in [known : Sdp, old : Sdp, new : Sdp] /\ running.old \in Sdp
  BY DEF TypeOK, RunningTask
<1>2. CacheInv'
  BY DEF SourceInv, CacheInv, Notify, Report
<1>3. CASE state = "active" /\ "sources" \notin lost /\ signal'.known # NoSdp
  <2>1. signal.known # NoSdp
    BY <1>3, NotifyUnknown DEF Report
  <2>2. /\ running.old # NoSdp
        /\ connected => signal.old = NoSdp
        /\ signal.old = NoSdp => signal.known = running.old
        /\ signal.old # NoSdp => signal.known = signal.old /\ signal.new = running.old
    BY <1>3, <2>1, RunningKnown DEF SourceInv, CacheInv
  <2>3. /\ signal'.old = NoSdp => signal'.known = local'
        /\ signal'.old # NoSdp => signal'.known = signal'.old /\ signal'.new = local'
    BY <1>1, <1>3, <2>1, <2>2, NotifyBrings DEF Report
  <2>4. QED
    BY <1>2, <1>3, <2>3, FinishKnown DEF Report
<1>4. CASE state = "active" /\ ~("sources" \notin lost /\ signal'.known # NoSdp)
  BY <1>2, <1>4, FinishKnown DEF Report
<1>5. CASE state # "active"
  <2>1. signal' = signal /\ (local' = running.old \/ "sources" \in lost')
    BY <1>5 DEF Report, Notify, Unreported
  <2>2. "sources" \in lost => "sources" \in lost'
    BY <1>5 DEF Report, Unreported
  <2>3. QED
    BY <2>1, <2>2, SilentKnown
<1>6. QED
  BY <1>3, <1>4, <1>5

\* setOfferAnswerCycle ends: activation, report and answer in one step.
LEMMA ConcludeKnown ==
  ASSUME TypeOK, SourceInv, running \in RunningTask, ~In("nested"), ConcludeOfferAnswer,
         local' = attached, connected' = connected
  PROVE  SourceInv'
<1> DEFINE st == IF state = "pending" THEN "active" ELSE state
           sig == IF running.old = NoSdp THEN signal ELSE Notify(signal, st, running.old, attached)
<1>1. /\ signal \in [known : Sdp, old : Sdp, new : Sdp] /\ running.old \in Sdp
      /\ attached \in Sdp /\ attached # NoSdp
      /\ state \in {"pending", "active", "ended"}
  BY NoSourceAssumption DEF TypeOK, RunningTask, Sdp, NoSdp
<1>2. /\ running' = NoTask
      /\ state' = st
      /\ signal' = IF Runs({"accept"}) THEN SendDescription(sig, attached) ELSE sig
      /\ "sources" \in lost => "sources" \in lost'
  BY DEF ConcludeOfferAnswer, Finish, SendContentModify
<1>3. connected /\ state # "ended" => signal.old = NoSdp
  BY <1>1 DEF SourceInv, CacheInv
<1>4. sig \in [known : Sdp, old : Sdp, new : Sdp]
  BY <1>1, NotifyType
<1>5. signal'.old = sig.old /\ signal'.new = sig.new
      /\ (signal'.known = sig.known \/ (connected /\ signal'.known = attached))
  BY <1>1, <1>2, <1>4 DEF SendDescription
<1>6. connected /\ state # "ended" => sig.old = NoSdp
  BY <1>3 DEF Notify
<1>7. CacheInv'
  BY <1>1, <1>2, <1>5, <1>6 DEF CacheInv
<1>8. ASSUME state' # "ended", "sources" \notin lost', signal'.known # NoSdp
      PROVE  /\ signal'.old = NoSdp => signal'.known = attached
             /\ signal'.old # NoSdp => signal'.known = signal'.old /\ signal'.new = attached
  <2>1. state # "ended" /\ st = "active" /\ "sources" \notin lost
    BY <1>1, <1>2, <1>8
  <2>2. CASE connected /\ signal'.known = attached
    BY <1>5, <1>6, <2>1, <2>2
  <2>3. CASE signal'.known = sig.known
    <3>1. signal.known # NoSdp
      BY <1>8, <2>3, NotifyUnknown
    <3>2. /\ running.old # NoSdp
          /\ signal.old = NoSdp => signal.known = running.old
          /\ signal.old # NoSdp => signal.known = signal.old /\ signal.new = running.old
      BY <2>1, <3>1, RunningKnown
    <3>3. sig = Notify(signal, "active", running.old, attached)
      BY <2>1, <3>2
    <3>4. /\ sig.old = NoSdp => sig.known = attached
          /\ sig.old # NoSdp => sig.known = sig.old /\ sig.new = attached
      BY <1>1, <1>3, <2>1, <3>1, <3>2, <3>3, NotifyBrings
    <3>5. QED
      BY <1>5, <2>3, <3>4
  <2>4. QED
    BY <1>5, <2>2, <2>3
<1>9. QED
  BY <1>1, <1>2, <1>7, <1>8, FinishKnown

\* A task that will never finish: what it changed is told, or on record as lost.
LEMMA NestedKnown ==
  ASSUME TypeOK, SourceInv, running \in RunningTask, ~In("nested"), Goto("nested"),
         UNCHANGED <<state, connected>>, local' = attached,
         \/ signal' = signal /\ Unreported(attached)
         \/ signal' = SendDescription(signal, attached) /\ (connected \/ "sources" \in lost'),
         "sources" \in lost => "sources" \in lost'
  PROVE  SourceInv'
<1>1. attached # NoSdp /\ running # NoTask /\ signal \in [known : Sdp, old : Sdp, new : Sdp]
      /\ state \in {"pending", "active", "ended"}
  BY NoSourceAssumption, NoTaskAssumption DEF TypeOK, RunningTask, Sdp, NoSdp
<1>2. running'.phase = "nested"
  BY DEF Goto, RunningTask
<1>3. Base' = attached
  BY <1>2 DEF Base, In
<1>4. signal'.old = signal.old /\ signal'.new = signal.new
  BY <1>1 DEF SendDescription
<1>5. CacheInv' /\ LocalInv'
  BY <1>2, <1>4 DEF SourceInv, CacheInv, LocalInv, In
<1>6. CASE signal' = signal /\ Unreported(attached)
  <2>1. "sources" \notin lost' => attached = running.old
    BY <1>6 DEF Unreported
  <2>2. KnownInv'
    BY <1>1, <1>3, <1>6, <2>1, RunningKnown DEF KnownInv
  <2>3. QED
    BY <1>5, <2>2 DEF SourceInv
<1>7. CASE signal' = SendDescription(signal, attached) /\ (connected \/ "sources" \in lost')
  <2>1. state # "ended" /\ connected => signal.old = NoSdp /\ signal'.known = attached
    BY <1>1, <1>7 DEF SourceInv, CacheInv, SendDescription
  <2>2. KnownInv'
    BY <1>1, <1>3, <1>4, <1>7, <2>1 DEF KnownInv
  <2>3. QED
    BY <1>5, <2>2 DEF SourceInv
<1>8. QED
  BY <1>6, <1>7

LEMMA FulfilledKnown ==
  ASSUME TypeOK, SourceInv, MediaOk \/ RespondOk \/ OfferOk \/ CycleOk \/ EncodingsOk
  PROVE  SourceInv'
<1> USE DEF Phase
<1>1. /\ attached \in Sdp /\ attached # NoSdp
      /\ signal \in [known : Sdp, old : Sdp, new : Sdp]
      /\ state \in {"pending", "active", "ended"}
  BY NoSourceAssumption DEF TypeOK, Sdp, NoSdp
<1>2. running \in RunningTask /\ ~In("nested")
  BY InType DEF MediaOk, RespondOk, OfferOk, CycleOk, EncodingsOk, In
<1>3. CASE MediaOk
  <2>1. PICK next \in AfterMedia(running.task) : IF next = "done" THEN Finish(TRUE) ELSE Goto(next)
    BY <1>3 DEF MediaOk
  <2>2. UNCHANGED <<state, signal, connected, lost, local>>
    BY <1>3 DEF MediaOk, session
  <2>3. CASE next = "done"
    <3>1. running.task.kind # "add"
      BY <2>1, <2>3 DEF AfterMedia
    <3>2. local' = running.old
      BY <1>3, <2>2, <3>1 DEF MediaOk, In, Runs, SourceInv, LocalInv
    <3>3. running' = NoTask
      BY <2>1, <2>3 DEF Finish
    <3>4. QED
      BY <1>2, <2>2, <3>2, <3>3, SilentKnown
  <2>4. CASE next # "done"
    <3>1. next \in {"offer", "cycle"} /\ Goto(next)
      BY <2>1, <2>4 DEF AfterMedia
    <3>2. QED
      BY <1>2, <2>2, <3>1, GotoKnown
  <2>5. QED
    BY <2>3, <2>4
<1>4. CASE RespondOk
  <2>1. UNCHANGED <<state, signal, connected>> /\ local' = attached
    BY <1>4 DEF RespondOk, session
  <2>2. "sources" \in lost => "sources" \in lost'
    BY <1>4 DEF RespondOk, Unreported
  <2>3. CASE Runs({"add"})
    <3>1. Goto("media")
      BY <1>4, <2>3 DEF RespondOk
    <3>2. QED
      BY <1>2, <2>1, <2>2, <2>3, <3>1, GotoKnown
  <2>4. CASE ~Runs({"add"})
    <3>1. running' = NoTask /\ (local' = running.old \/ "sources" \in lost')
      BY <1>4, <2>1, <2>4 DEF RespondOk, Finish, Unreported
    <3>2. QED
      BY <1>2, <2>1, <2>2, <3>1, SilentKnown
  <2>5. QED
    BY <2>3, <2>4
<1>5. CASE OfferOk
  <2>1. /\ UNCHANGED <<state, connected>> /\ local' = attached
        /\ signal' = SendDescription(signal, attached)
        /\ "sources" \in lost => "sources" \in lost'
        /\ connected \/ "sources" \in lost'
    BY <1>5 DEF OfferOk, session
  <2>2. CASE Goto("nested")
    BY <1>2, <2>1, <2>2, NestedKnown
  <2>3. CASE \E ok \in BOOLEAN : Finish(ok)
    <3>1. running' = NoTask /\ signal'.old = signal.old /\ signal'.new = signal.new
      BY <1>1, <2>1, <2>3 DEF Finish, SendDescription
    <3>2. CacheInv'
      BY <2>1, <3>1 DEF SourceInv, CacheInv
    <3>3. state # "ended" /\ connected => signal.old = NoSdp /\ signal'.known = attached
      BY <1>1, <2>1 DEF SourceInv, CacheInv, SendDescription
    <3>4. QED
      BY <1>1, <2>1, <3>1, <3>2, <3>3, FinishKnown
  <2>4. QED
    BY <1>5, <2>2, <2>3 DEF OfferOk, Nest
<1>6. CASE CycleOk
  <2>1. local' = attached /\ connected' = connected
    BY <1>6 DEF CycleOk
  <2>2. CASE Goto("nested") /\ Unreported(attached) /\ UNCHANGED <<state, signal>>
    BY <1>2, <2>1, <2>2, NestedKnown DEF Unreported
  <2>3. CASE ConcludeOfferAnswer
    BY <1>2, <2>1, <2>3, ConcludeKnown
  <2>4. CASE Report(attached) /\ Finish(TRUE) /\ UNCHANGED state
    BY <1>1, <1>2, <2>1, <2>4, ReportKnown DEF Finish
  <2>5. CASE Goto("encodings") /\ UNCHANGED <<state, signal, lost>>
    BY <1>1, <1>2, <2>1, <2>5, GotoKnown
  <2>6. CASE Unreported(attached) /\ (\E ok \in BOOLEAN : Finish(ok)) /\ UNCHANGED <<state, signal>>
    BY <1>2, <2>1, <2>6, SilentKnown DEF Unreported, Finish
  <2>7. QED
    BY <1>6, <2>2, <2>3, <2>4, <2>5, <2>6 DEF CycleOk, Nest
<1>7. CASE EncodingsOk
  <2>1. /\ local' = local /\ local \in Sdp /\ local # NoSdp
        /\ UNCHANGED <<state, connected>> /\ running' = NoTask /\ Report(local)
    BY <1>7 DEF EncodingsOk, TypeOK, tpc, session, Finish, SourceInv, LocalInv
  <2>2. QED
    BY <1>2, <2>1, ReportKnown
<1>8. QED
  BY <1>3, <1>4, <1>5, <1>6, <1>7

LEMMA RejectedKnown ==
  ASSUME TypeOK, SourceInv,
         MediaFails \/ RespondFails \/ OfferFails \/ CycleFails \/ EncodingsFail
  PROVE  SourceInv'
<1> USE DEF Phase
<1>1. running \in RunningTask /\ ~In("nested")
  BY InType DEF MediaFails, RespondFails, OfferFails, CycleFails, EncodingsFail, In
<1>2. UNCHANGED <<state, signal, connected>>
  BY DEF MediaFails, RespondFails, OfferFails, CycleFails, EncodingsFail, session
<1>3. PICK sdp : /\ local' = sdp /\ Unreported(sdp)
                 /\ Finish(FALSE) \/ Goto("stuck")
  BY DEF MediaFails, RespondFails, OfferFails, CycleFails, EncodingsFail, FailWith
<1>4. /\ "sources" \in lost => "sources" \in lost'
      /\ local' = running.old \/ "sources" \in lost'
  BY <1>3 DEF Unreported
<1>5. CASE Finish(FALSE)
  BY <1>1, <1>2, <1>4, <1>5, SilentKnown DEF Finish
<1>6. CASE Goto("stuck")
  BY <1>1, <1>2, <1>4, <1>6, GotoKnown
<1>7. QED
  BY <1>3, <1>5, <1>6

\* Between two tasks of a live session the peer knows the local sources, whatever
\* calls, messages, failures and reconnections came before, for every set of sources.
THEOREM PeerKnowledge == Spec => []PeerKnowsSources
<1>1. Init => SourceInv
  BY NoTaskAssumption DEF Init, SourceInv, CacheInv, LocalInv, KnownInv, In
<1>2. TypeOK /\ SourceInv /\ [Next]_vars => SourceInv'
  <2>1. TypeOK /\ SourceInv /\ Worker => SourceInv'
    BY StartingKnown, FulfilledKnown, RejectedKnown DEF Worker
  <2>2. SourceInv /\ UNCHANGED vars => SourceInv'
    BY FrameKnown DEF vars, session, work, tpc
  <2>3. QED
    BY <2>1, <2>2, EventKnown DEF Next
<1>3. SourceInv => PeerKnowsSources
  BY DEF SourceInv, CacheInv, KnownInv, PeerKnowsSources
<1>4. QED
  BY <1>1, <1>2, <1>3, TypeCorrect, PTL DEF Spec

-----------------------------------------------------------------------------
(* What the peer has been told of the wanted video.                        *)

\* Until the session is active nothing is told, and the peer assumes the defaults.
VideoInv ==
  P2P /\ "modify" \notin lost =>
    /\ state = "pending" => told = [video |-> TRUE, recv |-> 0]
    /\ state = "active" => told = [video |-> localVideoActive, recv |-> recvConstraint]

\* Steps that leave the preferences and the session's state alone.
LEMMA FrameVideo ==
  ASSUME VideoInv, UNCHANGED <<role, told, localVideoActive, recvConstraint>>,
         state' = state \/ state' = "ended", "modify" \in lost => "modify" \in lost'
  PROVE  VideoInv'
  BY DEF VideoInv, P2P

\* The steps that change a preference or activate the session tell the peer, or record
\* that the message was lost.
LEMMA TellingVideo ==
  ASSUME TypeOK, VideoInv, SetReceiverVideoConstraint \/ StartTransferTask \/ CycleOk
  PROVE  VideoInv'
<1>1. CASE SetReceiverVideoConstraint
  <2>1. /\ UNCHANGED <<role, state, localVideoActive>> /\ recvConstraint' = 1
        /\ IF P2P /\ state = "active" THEN SendContentModify(localVideoActive, 1)
           ELSE UNCHANGED <<told, lost>>
    BY <1>1 DEF SetReceiverVideoConstraint, session
  <2>2. QED
    BY <2>1 DEF VideoInv, P2P, SendContentModify
<1>2. CASE StartTransferTask
  <2>1. /\ UNCHANGED <<role, state, recvConstraint>> /\ localVideoActive' = NextTask.video
        /\ IF localVideoActive # NextTask.video /\ P2P /\ state = "active"
           THEN SendContentModify(NextTask.video, recvConstraint)
           ELSE UNCHANGED <<told, lost>>
    BY <1>2 DEF StartTransferTask, session
  <2>2. QED
    BY <2>1 DEF VideoInv, P2P, SendContentModify
<1>3. CASE CycleOk
  <2>1. UNCHANGED <<role, localVideoActive, recvConstraint>>
    BY <1>3 DEF CycleOk
  <2>2. CASE ConcludeOfferAnswer
    <3>1. /\ state' = IF state = "pending" THEN "active" ELSE state
          /\ IF state = "pending" /\ P2P /\ (~localVideoActive \/ recvConstraint # 0)
             THEN SendContentModify(localVideoActive, recvConstraint)
             ELSE UNCHANGED <<told, lost>>
      BY <2>2 DEF ConcludeOfferAnswer
    <3>2. localVideoActive \in BOOLEAN
      BY DEF TypeOK
    <3>3. QED
      BY <2>1, <3>1, <3>2 DEF VideoInv, P2P, SendContentModify
  <2>3. CASE UNCHANGED <<state, told>> /\ ("modify" \in lost => "modify" \in lost')
    BY <2>1, <2>3, FrameVideo
  <2>4. QED
    BY <1>3, <2>2, <2>3 DEF CycleOk, Report, Unreported
<1>4. QED
  BY <1>1, <1>2, <1>3

\* The peer of an active P2P session has been told the current video preferences,
\* unless a content-modify was sent while the XMPP connection was down.
THEOREM PeerVideoPreference == Spec => []PeerKnowsVideoPreference
<1> DEFINE Telling == SetReceiverVideoConstraint \/ StartTransferTask \/ CycleOk
<1>1. Init => VideoInv
  BY DEF Init, VideoInv
<1>2. TypeOK /\ VideoInv /\ [Next]_vars => VideoInv'
  <2>1. VideoInv /\ Call /\ ~Telling => VideoInv'
    BY FrameVideo DEF Call, Invite, AcceptOffer, AddTracks, ReplaceTrack, RemoveTrackAsMute,
       AddTrackAsUnmute, SetMediaTransferActive, SetVideoCodecs, NegotiationNeeded, Submit,
       Terminate, Leave, Close, session, video
  <2>2. VideoInv /\ (Message \/ Network) => VideoInv'
    BY FrameVideo DEF Message, Network, SetAnswer, ReplaceTransport, ModifyContents,
       AddOrRemoveRemoteStream, AddIceCandidates, RemoteTerminate, Submit, Close, Disconnect,
       Reconnect, session, video
  <2>3. VideoInv /\ Worker /\ ~Telling => VideoInv'
    BY FrameVideo DEF Worker, StartTask, StartIceTask, StartContentsTask, ClosePeerConnection,
       MediaOk, MediaFails, RespondOk, RespondFails, OfferOk, OfferFails, CycleFails,
       EncodingsOk, EncodingsFail, FailWith, Report, Unreported, session, video
  <2>4. VideoInv /\ UNCHANGED vars => VideoInv'
    BY FrameVideo DEF vars, session, video
  <2>5. QED
    BY <2>1, <2>2, <2>3, <2>4, TellingVideo DEF Next
<1>3. VideoInv => PeerKnowsVideoPreference
  BY DEF VideoInv, PeerKnowsVideoPreference
<1>4. QED
  BY <1>1, <1>2, <1>3, TypeCorrect, PTL DEF Spec

-----------------------------------------------------------------------------
(* The session implements AsyncQueue.                                      *)
(*                                                                         *)
(* A task of the abstract queue is the kind and the caller of a task here. *)
(* Every action does one of seven things to the queue; each of them is a   *)
(* step of AsyncQueue, or none.                                            *)

Marks(q) == [i \in DOMAIN q |-> <<q[i].kind, q[i].id>>]
Mark(r) == IF r = NoTask THEN NoTask ELSE <<r.task.kind, r.task.id>>

\* What the abstract queue makes of a queue's operations.
LEMMA MarksType ==
  ASSUME NEW q \in Seq(Task)
  PROVE  /\ Marks(q) \in Seq(Kind \X Ids) /\ Len(Marks(q)) = Len(q)
         /\ \A i \in 1..Len(q) : Marks(q)[i] = <<q[i].kind, q[i].id>>
<1>1. q \in [1..Len(q) -> Task] /\ Len(q) \in Nat /\ DOMAIN q = 1..Len(q)
  OBVIOUS
<1>2. \A i \in DOMAIN q : <<q[i].kind, q[i].id>> \in Kind \X Ids
  BY <1>1 DEF Task
<1>3. Marks(q) \in [1..Len(q) -> Kind \X Ids]
  BY <1>1, <1>2 DEF Marks
<1>4. Marks(q) \in Seq(Kind \X Ids)
  BY <1>1, <1>3, SeqDef
<1>5. DOMAIN Marks(q) = 1..Len(q)
  BY <1>1 DEF Marks
<1>6. Len(Marks(q)) = Len(q)
  BY <1>1, <1>4, <1>5
<1>7. \A i \in 1..Len(q) : Marks(q)[i] = <<q[i].kind, q[i].id>>
  BY <1>1 DEF Marks
<1>8. QED
  BY <1>4, <1>6, <1>7

LEMMA MarksAppend ==
  ASSUME NEW q \in Seq(Task), NEW t \in Task
  PROVE  Marks(Append(q, t)) = Append(Marks(q), <<t.kind, t.id>>)
<1> DEFINE p == Append(q, t)
           m == <<t.kind, t.id>>
           r == Append(Marks(q), m)
<1>1. p \in Seq(Task) /\ m \in Kind \X Ids /\ Len(p) = Len(q) + 1 /\ Len(q) \in Nat
  BY DEF Task
<1>2. p[Len(q) + 1] = t /\ \A i \in 1..Len(q) : p[i] = q[i]
  OBVIOUS
<1>3. /\ Marks(q) \in Seq(Kind \X Ids) /\ Len(Marks(q)) = Len(q)
      /\ \A i \in 1..Len(q) : Marks(q)[i] = <<q[i].kind, q[i].id>>
  BY MarksType
<1>4. /\ r \in Seq(Kind \X Ids) /\ Len(r) = Len(q) + 1
      /\ r[Len(q) + 1] = m /\ \A i \in 1..Len(q) : r[i] = Marks(q)[i]
  BY <1>1, <1>3
<1> HIDE DEF p, r
<1>5. /\ Marks(p) \in Seq(Kind \X Ids) /\ Len(Marks(p)) = Len(p)
      /\ \A i \in 1..Len(p) : Marks(p)[i] = <<p[i].kind, p[i].id>>
  BY <1>1, MarksType
<1>6. \A i \in 1..Len(p) : Marks(p)[i] = r[i]
  <2>1. Marks(p)[Len(q) + 1] = r[Len(q) + 1]
    BY <1>1, <1>2, <1>4, <1>5
  <2>2. \A i \in 1..Len(q) : Marks(p)[i] = r[i]
    <3>1. \A i \in 1..Len(q) : i \in 1..Len(p)
      BY <1>1
    <3>2. QED
      BY <3>1, <1>2, <1>3, <1>4, <1>5
  <2>3. \A i \in 1..Len(p) : i \in 1..Len(q) \/ i = Len(q) + 1
    BY <1>1
  <2>4. QED
    BY <2>1, <2>2, <2>3
<1>7. Marks(p) = r
  BY <1>1, <1>4, <1>5, <1>6, SeqEqual
<1>8. QED
  BY <1>7 DEF p, r

LEMMA MarksTail ==
  ASSUME NEW q \in Seq(Task), q # <<>>
  PROVE  /\ Marks(q) # <<>>
         /\ Head(Marks(q)) = <<Head(q).kind, Head(q).id>>
         /\ Marks(Tail(q)) = Tail(Marks(q))
<1> DEFINE p == Tail(q)
           r == Tail(Marks(q))
<1>1. p \in Seq(Task) /\ Len(p) = Len(q) - 1 /\ Len(q) \in Nat \ {0} /\ Head(q) = q[1]
  OBVIOUS
<1>2. \A i \in 1..Len(q) - 1 : p[i] = q[i + 1]
  OBVIOUS
<1>3. /\ Marks(q) \in Seq(Kind \X Ids) /\ Len(Marks(q)) = Len(q)
      /\ \A i \in 1..Len(q) : Marks(q)[i] = <<q[i].kind, q[i].id>>
  BY MarksType
<1>4. Marks(q) # <<>> /\ Head(Marks(q)) = Marks(q)[1]
  BY <1>1, <1>3
<1>5. /\ r \in Seq(Kind \X Ids) /\ Len(r) = Len(q) - 1
      /\ \A i \in 1..Len(q) - 1 : r[i] = Marks(q)[i + 1]
  BY <1>1, <1>3, <1>4
<1> HIDE DEF p, r
<1>6. /\ Marks(p) \in Seq(Kind \X Ids) /\ Len(Marks(p)) = Len(p)
      /\ \A i \in 1..Len(p) : Marks(p)[i] = <<p[i].kind, p[i].id>>
  BY <1>1, MarksType
<1>7. \A i \in 1..Len(q) - 1 : i + 1 \in 1..Len(q)
  BY <1>1
<1>8. \A i \in 1..Len(q) - 1 : Marks(p)[i] = r[i]
  BY <1>1, <1>2, <1>3, <1>5, <1>6, <1>7
<1>9. Marks(p) = r
  BY <1>1, <1>5, <1>6, <1>8, SeqEqual
<1>10. Head(Marks(q)) = <<Head(q).kind, Head(q).id>>
  BY <1>1, <1>3, <1>4
<1>11. QED
  BY <1>4, <1>9, <1>10 DEF p, r

\* The seven.
Pushes == \E k \in Kind, a \in SUBSET Source, d \in SUBSET Source, v \in BOOLEAN : Submit(k, a, d, v)
Starts == queue # <<>> /\ running = NoTask /\ \E p \in Phase : Start(p)
Skips == queue # <<>> /\ running = NoTask /\ \E ok \in BOOLEAN : Skip(ok)
Finishes == running \in RunningTask /\ \E ok \in BOOLEAN : Finish(ok)
Goes == running \in RunningTask /\ \E p \in Phase : Goto(p)
Idles == UNCHANGED <<queue, running, stopped>>

LEMMA PushStep == ASSUME TypeOK, Pushes PROVE Queue!Push
<1>1. PICK k \in Kind, a \in SUBSET Source, d \in SUBSET Source, v \in BOOLEAN : Submit(k, a, d, v)
  BY DEF Pushes
<1> DEFINE t == MkTask(k, nops + 1, a, d, v)
<1>2. nops + 1 \in Ids
  BY <1>1, FlagsAssumption DEF TypeOK, Submit, Ids
<1>3. t \in Task /\ t.kind = k /\ t.id = nops + 1
  BY <1>2, MkTaskType DEF MkTask
<1>4. queue \in Seq(Task)
  BY DEF TypeOK
<1>5. queue' = IF stopped THEN queue ELSE Append(queue, t)
  BY <1>1 DEF Submit, Pushed
<1> HIDE DEF t
<1>6. Marks(queue') = IF stopped THEN Marks(queue) ELSE Append(Marks(queue), <<k, nops + 1>>)
  BY <1>3, <1>4, <1>5, MarksAppend
<1>7. running' = running /\ stopped' = stopped
  BY <1>1 DEF Submit
<1>8. <<k, nops + 1>> \in Kind \X Ids
  BY <1>2
<1>9. QED
  BY <1>6, <1>7, <1>8 DEF Queue!Push, Queue!Pushed, Marks

LEMMA StartStep == ASSUME TypeOK, Starts PROVE Queue!Begin
<1>1. PICK p \in Phase : Start(p)
  BY DEF Starts
<1>2. queue \in Seq(Task) /\ queue # <<>> /\ running = NoTask
  BY DEF TypeOK, Starts
<1>3. running' # NoTask /\ running'.task = Head(queue)
  <2>1. Head(queue) \in Task /\ local \in Sdp
    BY <1>2 DEF TypeOK
  <2>2. QED
    BY <1>1, <2>1, NoTaskAssumption DEF Start, NextTask
<1>4. queue' = Tail(queue) /\ stopped' = stopped
  BY <1>1 DEF Start
<1>5. Marks(queue) # <<>> /\ Mark(running') = Head(Marks(queue)) /\ Marks(queue') = Tail(Marks(queue))
  BY <1>2, <1>3, <1>4, MarksTail DEF Mark
<1>6. QED
  BY <1>2, <1>4, <1>5 DEF Queue!Begin, Marks, Mark

LEMMA SkipStep == ASSUME TypeOK, Skips PROVE Queue!BeginAndFinish
<1>1. queue \in Seq(Task) /\ queue # <<>> /\ running = NoTask
  BY DEF TypeOK, Skips
<1>2. queue' = Tail(queue) /\ stopped' = stopped /\ running' = running
  BY DEF Skips, Skip
<1>3. Marks(queue) # <<>> /\ Marks(queue') = Tail(Marks(queue))
  BY <1>1, <1>2, MarksTail
<1>4. QED
  BY <1>1, <1>2, <1>3 DEF Queue!BeginAndFinish, Marks

\* The follow-up of a task is pushed by its callback.  (Were NoTask the mark of a task,
\* the abstract worker would be idle all along and the follow-up a push like any other.)
LEMMA FinishStep == ASSUME TypeOK, Finishes PROVE Queue!Next \/ UNCHANGED Queue!vars
<1>1. PICK ok \in BOOLEAN : Finish(ok)
  BY DEF Finishes
<1>2. running # NoTask /\ running.task.id \in Ids
  BY NoTaskAssumption DEF Finishes, RunningTask, Task
<1> DEFINE d == MkTask("decoder", 0, {}, {}, FALSE)
           w == MkTask("swap2", running.task.id, {}, {}, FALSE)
<1>3. d \in Task /\ w \in Task
  BY <1>2, FlagsAssumption DEF MkTask, Task, Kind, Ids
<1>4. queue' \in {queue, Pushed(queue, d), Pushed(queue, w)}
  BY <1>1 DEF Finish, FollowUp
<1> HIDE DEF d, w
<1>5. queue' = queue \/ \E t \in Task : queue' = Append(queue, t) /\ ~stopped
  BY <1>3, <1>4 DEF Pushed
<1>6. \/ Marks(queue') = Marks(queue)
      \/ \E m \in Kind \X Ids : Marks(queue') = Append(Marks(queue), m) /\ ~stopped
  <2>1. ASSUME NEW t \in Task, queue' = Append(queue, t), ~stopped
        PROVE  \E m \in Kind \X Ids : Marks(queue') = Append(Marks(queue), m) /\ ~stopped
    <3>1. <<t.kind, t.id>> \in Kind \X Ids
      BY DEF Task
    <3>2. queue \in Seq(Task)
      BY DEF TypeOK
    <3>3. Marks(queue') = Append(Marks(queue), <<t.kind, t.id>>)
      BY <2>1, <3>2, MarksAppend
    <3>4. QED
      BY <2>1, <3>1, <3>3
  <2>2. QED
    BY <1>5, <2>1
<1>7. running' = NoTask /\ stopped' = stopped
  BY <1>1 DEF Finish
<1>8. CASE Mark(running) # NoTask
  <2>1. Queue!Finish
    BY <1>6, <1>7, <1>8 DEF Queue!Finish, Queue!Pushed, Marks, Mark
  <2>2. QED
    BY <2>1 DEF Queue!Next
<1>9. CASE Mark(running) = NoTask
  <2>1. Queue!Push \/ UNCHANGED Queue!vars
    BY <1>6, <1>7, <1>9 DEF Queue!Push, Queue!Pushed, Queue!vars, Marks, Mark
  <2>2. QED
    BY <2>1 DEF Queue!Next
<1>10. QED
  BY <1>8, <1>9

LEMMA QuietStep == ASSUME TypeOK, Goes \/ Idles PROVE UNCHANGED Queue!vars
<1>1. CASE Goes
  <2>1. running # NoTask /\ running' # NoTask /\ running'.task = running.task
    BY <1>1, NoTaskAssumption DEF Goes, Goto, RunningTask
  <2>2. queue' = queue /\ stopped' = stopped
    BY <1>1 DEF Goes, Goto
  <2>3. QED
    BY <2>1, <2>2 DEF Queue!vars
<1>2. CASE Idles
  BY <1>2 DEF Idles, Queue!vars
<1>3. QED
  BY <1>1, <1>2

LEMMA CloseStep == ASSUME TypeOK, Close PROVE Queue!ClearAndStop
<1>1. CloseTask \in Task /\ CloseTask.kind = "close" /\ CloseTask.id = 0
  BY FlagsAssumption DEF CloseTask, MkTask, Task, Kind, Ids
<1>2. <<"close", 0>> \in Kind \X Ids
  BY <1>1 DEF Task
<1>3. <<>> \in Seq(Task) /\ Marks(<<>>) = <<>>
  BY DEF Marks
<1>4. Marks(queue') = IF stopped THEN <<>> ELSE Append(<<>>, <<"close", 0>>)
  BY <1>1, <1>3, MarksAppend DEF Close, Pushed
<1>5. stopped' = TRUE /\ running' = running
  BY DEF Close
<1>6. QED
  BY <1>2, <1>4, <1>5 DEF Queue!ClearAndStop, Queue!Pushed, Marks

\* Which of the seven an action does.
LEMMA CallOrMessage == ASSUME TypeOK, Call \/ Message \/ Network PROVE Pushes \/ Close \/ Idles
<1> USE DEF Kind
<1>1. CASE Invite \/ AcceptOffer \/ AddTracks \/ RemoveTrackAsMute \/ SetVideoCodecs \/ NegotiationNeeded
  BY <1>1 DEF Pushes, Invite, AcceptOffer, AddTracks, RemoveTrackAsMute, SetVideoCodecs, NegotiationNeeded
<1>2. CASE ReplaceTrack \/ AddTrackAsUnmute
  <2>1. \A s \in Source : {s} \in SUBSET Source
    OBVIOUS
  <2>2. QED
    BY <1>2, <2>1 DEF Pushes, ReplaceTrack, AddTrackAsUnmute
<1>3. CASE SetMediaTransferActive \/ ModifyContents \/ SetAnswer \/ ReplaceTransport
           \/ AddOrRemoveRemoteStream \/ AddIceCandidates
  BY <1>3 DEF Pushes, SetMediaTransferActive, ModifyContents, SetAnswer, ReplaceTransport,
              AddOrRemoveRemoteStream, AddIceCandidates
<1>4. CASE Terminate \/ Leave \/ RemoteTerminate
  BY <1>4 DEF Terminate, Leave, RemoteTerminate
<1>5. CASE SetReceiverVideoConstraint \/ Disconnect \/ Reconnect
  BY <1>5 DEF SetReceiverVideoConstraint, Disconnect, Reconnect, Idles, work
<1>6. QED
  BY <1>1, <1>2, <1>3, <1>4, <1>5 DEF Call, Message, Network

LEMMA WorkerStep == ASSUME TypeOK, Worker PROVE Starts \/ Skips \/ Finishes \/ Goes
<1> USE DEF Phase
<1>1. CASE StartTask
  <2>1. FirstPhase(NextTask) \in Phase
    BY DEF FirstPhase
  <2>2. QED
    BY <1>1, <2>1 DEF StartTask, NextIs, Starts, Skips
<1>2. CASE StartIceTask \/ StartTransferTask \/ StartContentsTask \/ ClosePeerConnection
  BY <1>2 DEF StartIceTask, StartTransferTask, StartContentsTask, ClosePeerConnection, NextIs, Starts, Skips
<1>3. CASE MediaOk
  <2>1. PICK next \in AfterMedia(running.task) : IF next = "done" THEN Finish(TRUE) ELSE Goto(next)
    BY <1>3 DEF MediaOk
  <2>2. next \in {"offer", "cycle", "done"}
    BY DEF AfterMedia
  <2>3. running \in RunningTask
    BY <1>3, InType DEF MediaOk
  <2>4. QED
    BY <2>1, <2>2, <2>3 DEF Finishes, Goes
<1>4. CASE RespondOk \/ OfferOk \/ EncodingsOk \/ CycleOk
  <2>1. running \in RunningTask
    BY <1>4, InType DEF RespondOk, OfferOk, EncodingsOk, CycleOk
  <2>2. QED
    BY <1>4, <2>1 DEF RespondOk, OfferOk, EncodingsOk, CycleOk, ConcludeOfferAnswer, Nest, Finishes,
                       Goes
<1>5. CASE MediaFails \/ RespondFails \/ OfferFails \/ CycleFails \/ EncodingsFail
  <2>1. running \in RunningTask
    BY <1>5, InType DEF MediaFails, RespondFails, OfferFails, CycleFails, EncodingsFail
  <2>2. QED
    BY <1>5, <2>1 DEF MediaFails, RespondFails, OfferFails, CycleFails, EncodingsFail, FailWith, Finishes, Goes
<1>6. QED
  BY <1>1, <1>2, <1>3, <1>4, <1>5 DEF Worker

\* The queue of a session is used as AsyncQueue promises: one task at a time, in the order
\* they were pushed, none after the closing task (JingleSessionPC.modificationQueue).
THEOREM QueueRefinement == Spec => ImplementsAsyncQueue
<1>1. Init => Queue!Init
  BY DEF Init, Queue!Init
<1>2. TypeOK /\ [Next]_vars => [Queue!Next]_(Queue!vars)
  <2> SUFFICES ASSUME TypeOK, [Next]_vars
               PROVE  Queue!Next \/ UNCHANGED Queue!vars
    OBVIOUS
  <2>1. CASE Pushes \/ Starts \/ Skips \/ Close
    BY <2>1, PushStep, StartStep, SkipStep, CloseStep DEF Queue!Next
  <2>2. CASE Finishes
    BY <2>2, FinishStep
  <2>3. CASE Goes \/ Idles
    BY <2>3, QuietStep
  <2>4. UNCHANGED vars => Idles
    BY DEF vars, work, Idles
  <2>5. QED
    BY <2>1, <2>2, <2>3, <2>4, CallOrMessage, WorkerStep DEF Next
<1>3. QED
  BY <1>1, <1>2, TypeCorrect, PTL DEF Spec, ImplementsAsyncQueue, Queue!Spec

=============================================================================
