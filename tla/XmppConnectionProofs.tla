------------------------- MODULE XmppConnectionProofs -------------------------
(***************************************************************************)
(* Proofs about XmppConnection, for every set of IQs, every timeout and    *)
(* every bound on time, losses and changes of the network; and about       *)
(* KeepAlive, for every threshold of failed pings: with its pings the      *)
(* connection still does what XmppConnection says, so that what is proved  *)
(* of that holds there too, and a connection that is up is watched.        *)
(***************************************************************************)
EXTENDS KeepAlive, TLAPS

-------------------------------------------------------------------------------
(* What the operators of the resume task do. *)

\* The task can take away a listener it knows of: there is one.
OwnsListener(t) == t.own => t.listeners > 0

\* Whatever was armed or fired before, schedule() leaves a task that can act on the present
\* state of the network and on its next change.
Waiting(t) == t.own /\ t.listeners > 0 /\ t.timeout # "fired" /\ (online => t.timeout = "armed")

LEMMA CancelResumeFields ==
  ASSUME NEW t \in Task
  PROVE  /\ CancelResume(t) \in Task /\ CancelResume(t).timeout = "none"
         /\ CancelResume(t).listeners = t.listeners /\ CancelResume(t).own = t.own
  BY DEF Task, CancelResume

LEMMA ScheduleWaits ==
  ASSUME NEW t \in Task, online \in BOOLEAN
  PROVE  Schedule(t) \in Task /\ OwnsListener(Schedule(t)) /\ Waiting(Schedule(t))
<1> DEFINE c == CancelResume(t)
           t1 == [c EXCEPT !.listeners = @ + 1, !.own = TRUE]
<1>1. t1 \in Task /\ t1.timeout = "none" /\ t1.own /\ t1.listeners > 0
  <2>1. c \in Task /\ c.timeout = "none"
    BY CancelResumeFields
  <2> HIDE DEF c
  <2>2. c.listeners + 1 \in Nat /\ c.listeners + 1 > 0
    BY <2>1 DEF Task
  <2>3. QED
    BY <2>1, <2>2 DEF Task
<1>2. Schedule(t) = IF online THEN ScheduleResume(t1) ELSE t1
  BY DEF Schedule
<1> HIDE DEF t1
<1>3. QED
  BY <1>1, <1>2 DEF Task, ScheduleResume, OwnsListener, Waiting

LEMMA CancelType ==
  ASSUME NEW t \in Task, OwnsListener(t)
  PROVE  Cancel(t) \in Task /\ OwnsListener(Cancel(t))
<1> DEFINE c == CancelResume(t)
<1>1. c \in Task /\ c.listeners = t.listeners
  BY CancelResumeFields
<1>2. Cancel(t) = [c EXCEPT !.listeners = IF t.own THEN @ - 1 ELSE @, !.own = FALSE]
  BY DEF Cancel
<1>3. (IF t.own THEN c.listeners - 1 ELSE c.listeners) \in Nat
  BY <1>1 DEF OwnsListener, Task
<1> HIDE DEF c
<1>4. QED
  BY <1>1, <1>2, <1>3 DEF Task, OwnsListener

LEMMA TimeoutType ==
  ASSUME NEW t \in Task, OwnsListener(t)
  PROVE  /\ ScheduleResume(t) \in Task /\ OwnsListener(ScheduleResume(t))
         /\ CancelResume(t) \in Task /\ OwnsListener(CancelResume(t))
  BY DEF Task, ScheduleResume, CancelResume, OwnsListener

\* What the application is told keeps its type, and is final.
LEMMA ReportedType ==
  ASSUME NEW a \in App
  PROVE  Reported(a) \in App /\ Reported(a).told \in Final
  BY DEF App, Told, Final, Reported

-------------------------------------------------------------------------------
(* The inductive invariant. *)

\* There is no token, and no connection in the making, once the application gave up or was
\* told of the end.
DownForGood == GivenUp => ~token /\ status \in {"disconnecting", "disconnected"}

\* An IQ waits in _deferredIQs only with a promise that is still open, since some moment
\* before now: the timeout it gets when it is sent is not negative.
DeferredIsOpen == \A i \in IQs : iq[i].at = "deferred" => iq[i].promise = "pending" /\ iq[i].start <= now

\* A lost connection with a token has a task that waits; one without has been reported.
LossTended ==
  /\ status = "disconnected" /\ token => Waiting(task)
  /\ status = "disconnected" /\ ~token => app.told \in Final

Inv ==
  /\ TypeOK
  /\ OwnsListener(task)
  /\ DownForGood
  /\ LossTended
  /\ NoStaleError
  /\ DeferredIsOpen

LEMMA InvInit == Init => Inv
<1> SUFFICES ASSUME Init PROVE Inv
  OBVIOUS
<1>1. TypeOK
  BY DEF Init, TypeOK, Task, App, Told, IQ
<1>2. OwnsListener(task) /\ DownForGood /\ LossTended /\ NoStaleError /\ DeferredIsOpen
  BY DEF Init, OwnsListener, DownForGood, GivenUp, Final, LossTended, NoStaleError, DeferredIsOpen
<1>3. QED
  BY <1>1, <1>2 DEF Inv

\* A step of one IQ that leaves the connection alone.
LEMMA IQStep ==
  ASSUME Inv, UNCHANGED connVars, iq' \in [IQs -> IQ], now' \in Nat, DeferredIsOpen'
  PROVE  Inv'
  BY DEF Inv, TypeOK, OwnsListener, DownForGood, GivenUp, LossTended, Waiting, NoStaleError, connVars

\* A DISCONNECTED status, whatever is known of the application before it hears of it.
LEMMA LoseConnectionInv ==
  ASSUME Inv, NEW kept \in BOOLEAN, NEW a \in App, LoseConnection(kept, a),
         kept => a.leaving = "none" /\ a.told \notin Final,
         UNCHANGED <<online, iq, now, changes>>, losses' \in Nat
  PROVE  Inv'
<1>1. CASE kept
  <2>1. /\ status' = "disconnected" /\ token' = TRUE /\ app' = a
        /\ task' = Schedule(task)
    BY <1>1 DEF LoseConnection
  <2>2. task' \in Task /\ OwnsListener(task') /\ Waiting(task')
    BY <2>1, ScheduleWaits DEF Inv, TypeOK
  <2>3. TypeOK' /\ OwnsListener(task)'
    BY <2>1, <2>2 DEF Inv, TypeOK, OwnsListener
  <2>4. DownForGood' /\ LossTended' /\ NoStaleError' /\ DeferredIsOpen'
    BY <1>1, <2>1, <2>2 DEF Inv, DownForGood, GivenUp, LossTended, Waiting, NoStaleError, DeferredIsOpen
  <2>5. QED
    BY <2>3, <2>4 DEF Inv
<1>2. CASE ~kept
  <2>1. /\ status' = "disconnected" /\ token' = FALSE /\ app' = Reported(a)
        /\ task' = task
    BY <1>2 DEF LoseConnection
  <2>2. TypeOK' /\ OwnsListener(task)'
    BY <2>1, ReportedType DEF Inv, TypeOK, OwnsListener
  <2>3. DownForGood' /\ LossTended' /\ NoStaleError' /\ DeferredIsOpen'
    BY <2>1, ReportedType DEF Inv, DownForGood, GivenUp, LossTended, NoStaleError, DeferredIsOpen
  <2>4. QED
    BY <2>2, <2>3 DEF Inv
<1>3. QED
  BY <1>1, <1>2

LEMMA InvNext == Inv /\ [Next]_vars => Inv'
<1> SUFFICES ASSUME Inv, [Next]_vars PROVE Inv'
  OBVIOUS
<1> USE TimeAssumption
<1>1. CASE UNCHANGED vars
  BY <1>1 DEF Inv, TypeOK, OwnsListener, DownForGood, GivenUp, LossTended, Waiting, NoStaleError,
              DeferredIsOpen, vars
<1>2. CASE Connect
  <2>1. app' \in App /\ app'.leaving = "none" /\ app'.told = "nothing" /\ losses' \in Nat
    <3>1. ResetState(app) \in App /\ ResetState(app).leaving = "none"
      BY DEF Inv, TypeOK, ResetState, App
    <3>2. app' = [ResetState(app) EXCEPT !.told = "nothing"] /\ losses' \in Nat
      BY <1>2 DEF Connect, Inv, TypeOK
    <3>3. QED
      BY <3>1, <3>2 DEF App, Told
  <2>2. TypeOK' /\ OwnsListener(task)'
    BY <1>2, <2>1 DEF Inv, TypeOK, OwnsListener, Connect
  <2>3. DownForGood' /\ LossTended' /\ NoStaleError' /\ DeferredIsOpen'
    BY <1>2, <2>1 DEF Inv, DownForGood, GivenUp, Final, LossTended, NoStaleError, DeferredIsOpen, Connect
  <2>4. QED
    BY <2>2, <2>3 DEF Inv
<1>3. CASE Connected
  <2>1. app' \in App /\ app'.leaving = "none" /\ app'.told = "established" /\ ~app'.failed
    BY <1>3 DEF Inv, TypeOK, Connected, ResetState, App, Told
  <2>2. iq' \in [IQs -> IQ] /\ DeferredIsOpen'
    <3>1. ASSUME NEW i \in IQs
          PROVE  iq'[i] \in IQ /\ iq'[i].at # "deferred"
      <4>1. iq[i] \in IQ /\ now \in Nat /\ (iq[i].at = "deferred" => iq[i].start <= now)
        BY DEF Inv, TypeOK, DeferredIsOpen
      <4>2. iq'[i] = IF iq[i].at = "deferred"
                       THEN [iq[i] EXCEPT !.at = "sent", !.due = now + (now - iq[i].start)]
                       ELSE iq[i]
        BY <1>3 DEF Connected, ProcessDeferredIQs
      <4>3. iq[i].at = "deferred" => now + (now - iq[i].start) \in Nat
        BY <4>1 DEF IQ
      <4>4. QED
        BY <4>1, <4>2, <4>3 DEF IQ
    <3>2. QED
      BY <1>3, <3>1 DEF Connected, ProcessDeferredIQs, DeferredIsOpen
  <2>3. TypeOK' /\ OwnsListener(task)'
    BY <1>3, <2>1, <2>2, CancelType DEF Inv, TypeOK, OwnsListener, Connected
  <2>4. DownForGood' /\ LossTended' /\ NoStaleError'
    BY <1>3, <2>1 DEF Inv, DownForGood, GivenUp, Final, LossTended, NoStaleError, Connected
  <2>5. QED
    BY <2>2, <2>3, <2>4 DEF Inv
<1>4. CASE TokenGranted
  BY <1>4 DEF Inv, TypeOK, OwnsListener, DownForGood, GivenUp, LossTended, Waiting, NoStaleError,
              DeferredIsOpen, TokenGranted
<1>5. CASE Disconnect
  <2> DEFINE a == [app EXCEPT !.leaving = "pending"]
  <2>1. a \in App /\ a.leaving = "pending"
    BY DEF Inv, TypeOK, App
  <2>2. iq' \in [IQs -> IQ] /\ DeferredIsOpen'
    <3>1. ASSUME NEW i \in IQs
          PROVE  iq'[i] \in IQ /\ iq'[i].at # "deferred"
      <4>1. iq[i] \in IQ
        BY DEF Inv, TypeOK
      <4>2. iq'[i] = IF iq[i].at = "deferred" THEN [iq[i] EXCEPT !.at = "gone", !.promise = "rejected"] ELSE iq[i]
        BY <1>5 DEF Disconnect, ClearDeferredIQs
      <4>3. QED
        BY <4>1, <4>2 DEF IQ
    <3>2. QED
      BY <1>5, <3>1 DEF Disconnect, ClearDeferredIQs, DeferredIsOpen
  <2>3. task' \in Task /\ OwnsListener(task)'
    BY <1>5, CancelType DEF Inv, TypeOK, OwnsListener, Disconnect
  <2>4. /\ token' = FALSE /\ UNCHANGED <<online, now, losses, changes>>
        /\ \/ status' = "disconnecting" /\ app' = a
           \/ status' = "disconnected" /\ app' = Reported(a)
    BY <1>5 DEF Disconnect
  <2>5. TypeOK'
    BY <2>1, <2>2, <2>3, <2>4, ReportedType DEF Inv, TypeOK
  <2>6. DownForGood' /\ LossTended' /\ NoStaleError'
    BY <2>1, <2>4, ReportedType DEF DownForGood, GivenUp, LossTended, NoStaleError
  <2>7. QED
    BY <2>2, <2>3, <2>5, <2>6 DEF Inv
<1>6. CASE Closed
  BY <1>6, LoseConnectionInv DEF Closed, Inv, TypeOK
<1>7. CASE ResumeConnection
  <2>1. task' \in Task /\ OwnsListener(task)'
    BY <1>7 DEF Inv, TypeOK, ResumeConnection, Task, OwnsListener
  <2>2. \/ ~token /\ status' = status
        \/ token /\ status' \in {status, "connecting"} /\ status' # "disconnected"
    BY <1>7 DEF ResumeConnection, Resume
  <2>3. TypeOK'
    BY <1>7, <2>1, <2>2 DEF Inv, TypeOK, ResumeConnection
  <2>4. DownForGood' /\ LossTended' /\ NoStaleError' /\ DeferredIsOpen'
    BY <1>7, <2>2 DEF Inv, DownForGood, GivenUp, LossTended, NoStaleError, DeferredIsOpen, ResumeConnection
  <2>5. QED
    BY <2>1, <2>3, <2>4 DEF Inv
<1>8. CASE Tick
  <2>1. now \in Nat /\ now' = now + 1 /\ iq' = iq /\ iq \in [IQs -> IQ] /\ UNCHANGED connVars
    BY <1>8 DEF Tick, Inv, TypeOK
  <2>2. DeferredIsOpen'
    BY <2>1 DEF Inv, DeferredIsOpen, IQ
  <2>3. QED
    BY <2>1, <2>2, IQStep
<1>9. CASE \E kept \in BOOLEAN : AttemptFails(kept)
  <2>1. PICK kept \in BOOLEAN : AttemptFails(kept)
    BY <1>9
  <2>2. [app EXCEPT !.failed = TRUE] \in App
        /\ [app EXCEPT !.failed = TRUE].leaving = app.leaving
        /\ [app EXCEPT !.failed = TRUE].told = app.told
    BY DEF Inv, TypeOK, App
  <2>3. app.leaving = "none" /\ app.told \notin Final
    BY <2>1 DEF AttemptFails, Inv, DownForGood, GivenUp
  <2>4. LoseConnection(kept, [app EXCEPT !.failed = TRUE]) /\ losses' \in Nat
        /\ UNCHANGED <<online, iq, now, changes>>
    BY <2>1 DEF AttemptFails, Inv, TypeOK
  <2>5. QED
    BY <2>2, <2>3, <2>4, LoseConnectionInv
<1>10. CASE \E kept \in BOOLEAN : Drop(kept)
  <2>1. PICK kept \in BOOLEAN : Drop(kept)
    BY <1>10
  <2>2. app.leaving = "none" /\ app.told \notin Final /\ app \in App
    BY <2>1 DEF Drop, Inv, DownForGood, GivenUp, TypeOK
  <2>3. LoseConnection(kept, app) /\ losses' \in Nat /\ UNCHANGED <<online, iq, now, changes>>
    BY <2>1 DEF Drop, Inv, TypeOK
  <2>4. QED
    BY <2>2, <2>3, LoseConnectionInv
<1>11. CASE \E isOnline \in BOOLEAN : NetworkInfo(isOnline)
  <2>1. PICK isOnline \in BOOLEAN : NetworkInfo(isOnline)
    BY <1>11
  <2>2. task' \in Task /\ OwnsListener(task)'
    BY <2>1, TimeoutType DEF Inv, TypeOK, OwnsListener, NetworkInfo
  <2>3. TypeOK'
    BY <2>1, <2>2 DEF Inv, TypeOK, NetworkInfo
  <2>4. Waiting(task) => Waiting(task)'
    BY <2>1 DEF Inv, TypeOK, Task, Waiting, NetworkInfo, ScheduleResume, CancelResume
  <2>5. DownForGood' /\ LossTended' /\ NoStaleError' /\ DeferredIsOpen'
    BY <2>1, <2>4 DEF Inv, DownForGood, GivenUp, LossTended, NoStaleError, DeferredIsOpen, NetworkInfo
  <2>6. QED
    BY <2>2, <2>3, <2>5 DEF Inv
<1>12. CASE \E i \in IQs : SendIQ2(i) \/ DeferredTimeout(i) \/ IQAnswered(i) \/ SentTimeout(i)
  <2>1. PICK i \in IQs : SendIQ2(i) \/ DeferredTimeout(i) \/ IQAnswered(i) \/ SentTimeout(i)
    BY <1>12
  <2>2. iq \in [IQs -> IQ] /\ now \in Nat /\ DeferredIsOpen
    BY DEF Inv, TypeOK
  <2>3. iq' \in [IQs -> IQ] /\ now' \in Nat /\ UNCHANGED connVars
    BY <2>1, <2>2 DEF SendIQ2, DeferredTimeout, IQAnswered, SentTimeout, IQ
  <2>4. DeferredIsOpen'
    BY <2>1, <2>2 DEF SendIQ2, DeferredTimeout, IQAnswered, SentTimeout, IQ, DeferredIsOpen
  <2>5. QED
    BY <2>3, <2>4, IQStep
<1>13. QED
  BY <1>1, <1>2, <1>3, <1>4, <1>5, <1>6, <1>7, <1>8, <1>9, <1>10, <1>11, <1>12 DEF Next

LEMMA AlwaysInv == Spec => []Inv
  BY InvInit, InvNext, PTL DEF Spec

-------------------------------------------------------------------------------
(* The theorems. *)

\* Every variable keeps its type; the count of network listeners never goes below zero
\* although cancel() removes only the one the task knows (ResumeTask).
THEOREM TypeCorrect == Spec => []TypeOK
<1>1. Inv => TypeOK
  BY DEF Inv
<1>2. QED
  BY <1>1, AlwaysInv, PTL

\* A lost connection is resumed or reported, whatever the order of losses, failed attempts,
\* changes of the network and timeouts (XmppConnection._tryResumingConnection, ResumeTask).
THEOREM LossHandled == Spec => []LossIsHandled
<1>1. Inv => LossIsHandled
  BY DEF Inv, TypeOK, LossTended, Waiting, LossIsHandled
<1>2. QED
  BY <1>1, AlwaysInv, PTL

\* An error of an earlier attempt is never left over when the connection is up
\* (xmpp.connectionHandler, _resetState).
THEOREM ErrorsAreFresh == Spec => []NoStaleError
<1>1. Inv => NoStaleError
  BY DEF Inv
<1>2. QED
  BY <1>1, AlwaysInv, PTL

\* After disconnect(), or the report of the end, only connect() connects again: not even the
\* network listeners schedule() forgot can (ResumeTask._resumeConnection asks for the token).
THEOREM GivenUpIsDown == Spec => GivenUpStaysDown
<1>1. Inv /\ [Next]_vars => [GivenUp /\ GivenUp' /\ status' = "connecting" => status = "connecting"]_vars
  <2> SUFFICES ASSUME Inv, [Next]_vars, GivenUp, GivenUp', status' = "connecting"
               PROVE  status = "connecting"
    OBVIOUS
  <2>1. Inv'
    BY InvNext
  <2>2. QED
    BY <2>1 DEF Inv, DownForGood
<1>2. QED
  BY <1>1, AlwaysInv, PTL DEF Spec, GivenUpStaysDown

\* An IQ is sent only while its promise is open: after its timeout or disconnect() it never
\* reaches the wire (XmppConnection.sendIQ2, _processDeferredIQs, _clearDeferredIQs).
THEOREM SettledIsNotSent == Spec => NoSendAfterSettled
<1>1. Inv /\ [Next]_vars
        => [\A i \in IQs : iq[i].at # "sent" /\ iq'[i].at = "sent" => iq'[i].promise = "pending"]_vars
  <2> SUFFICES ASSUME Inv, [Next]_vars, NEW i \in IQs, iq[i].at # "sent", iq'[i].at = "sent"
               PROVE  iq'[i].promise = "pending"
    OBVIOUS
  <2>1. iq \in [IQs -> IQ] /\ (iq[i].at = "deferred" => iq[i].promise = "pending")
    BY DEF Inv, TypeOK, DeferredIsOpen
  <2>2. CASE Connected
    <3>1. iq'[i] = IF iq[i].at = "deferred"
                     THEN [iq[i] EXCEPT !.at = "sent", !.due = now + (now - iq[i].start)]
                     ELSE iq[i]
      BY <2>2 DEF Connected, ProcessDeferredIQs
    <3>2. QED
      BY <2>1, <3>1 DEF IQ
  <2>3. CASE Disconnect
    <3>1. iq'[i] = IF iq[i].at = "deferred" THEN [iq[i] EXCEPT !.at = "gone", !.promise = "rejected"] ELSE iq[i]
      BY <2>3 DEF Disconnect, ClearDeferredIQs
    <3>2. QED
      BY <2>1, <3>1 DEF IQ
  <2>4. CASE \E j \in IQs : SendIQ2(j) \/ DeferredTimeout(j) \/ IQAnswered(j) \/ SentTimeout(j)
    BY <2>1, <2>4 DEF SendIQ2, DeferredTimeout, IQAnswered, SentTimeout, IQ
  <2>5. CASE UNCHANGED iq
    BY <2>5
  <2>6. QED
    BY <2>2, <2>3, <2>4, <2>5
       DEF Next, Connect, TokenGranted, Closed, ResumeConnection, Tick, AttemptFails, Drop, NetworkInfo, vars
<1>2. QED
  BY <1>1, AlwaysInv, PTL DEF Spec, NoSendAfterSettled

-------------------------------------------------------------------------------
(* The pings only close the connection, as a loss does. *)

LEMMA PingFailsRefines ==
  ASSUME NEW p \in {"own", "old"}, PingFails(p)
  PROVE  [Next]_vars
<1> DEFINE failed == [ping EXCEPT !.failed = IF @ < PingThreshold THEN @ + 1 ELSE @, !.sent = @ \ {p}]
<1>1. CASE failed.failed >= PingThreshold /\ status = "connected"
  <2>1. CloseWebsocket(failed)
    BY <1>1 DEF PingFails
  <2>2. \E kept \in BOOLEAN : Drop(kept)
    BY <2>1 DEF CloseWebsocket
  <2>3. QED
    BY <2>2 DEF Next
<1>2. CASE ~(failed.failed >= PingThreshold /\ status = "connected")
  BY <1>2 DEF PingFails
<1>3. QED
  BY <1>1, <1>2

LEMMA StepRefines == [KeepAliveNext]_allVars => [Next]_vars
<1> SUFFICES ASSUME [KeepAliveNext]_allVars
             PROVE  [Next]_vars
  OBVIOUS
<1>1. CASE ConnectionStep
  BY <1>1 DEF ConnectionStep
<1>2. CASE Ping \/ PingAnswered \/ RawInput \/ LinkDies
  BY <1>2 DEF Ping, PingAnswered, RawInput, LinkDies
<1>3. CASE \E p \in {"own", "old"} : PingFails(p)
  BY <1>3, PingFailsRefines
<1>4. CASE UNCHANGED allVars
  BY <1>4 DEF allVars
<1>5. QED
  BY <1>1, <1>2, <1>3, <1>4 DEF KeepAliveNext

-------------------------------------------------------------------------------
(* The pings and the connection. *)

Plugin == [runs : BOOLEAN, failed : Nat, checked : BOOLEAN, sent : SUBSET {"own", "old"}]

\* A connection that is up is pinged, also while it is being closed; a ping that may close
\* it was sent on it; only a connection that is not known to be lost can be dead.
LinkWatched ==
  /\ status = "connected" \/ dead \/ "own" \in ping.sent => ping.runs
  /\ ping.runs => status # "disconnected"

WatchInv == Inv /\ PingTypeOK /\ LinkWatched

LEMMA IntervalType ==
  ASSUME NEW p \in Plugin
  PROVE  /\ StartInterval(p) = [p EXCEPT !.runs = TRUE]
         /\ StartInterval(p) \in Plugin /\ StartInterval(p).runs
         /\ StopInterval(p) \in Plugin /\ ~StopInterval(p).runs
         /\ StopInterval(p).sent = p.sent
  BY DEF Plugin, StartInterval, StopInterval

\* Whatever the plugin was until then, a change of status leaves the interval right.
LEMMA OnStatusWatches ==
  ASSUME NEW p \in Plugin, OnStatus(p), PingTypeOK,
         p.runs = ping.runs, "own" \in p.sent => "own" \in ping.sent,
         status = "connected" \/ dead \/ "own" \in ping.sent => ping.runs,
         ping.runs => status # "disconnected"
  PROVE  PingTypeOK' /\ LinkWatched'
<1>1. CASE status' = "connected" /\ status # "connected"
  <2>1. ping' = StartInterval(p) /\ dead' = FALSE /\ heard' = heard
    BY <1>1 DEF OnStatus
  <2>2. QED
    BY <1>1, <2>1, IntervalType DEF PingTypeOK, LinkWatched, Plugin
<1>2. CASE status' = "disconnected" /\ status # "disconnected"
  <2>1. PICK old \in SUBSET {"old"} :
          ping' = [StopInterval(p) EXCEPT !.sent = IF @ = {} THEN {} ELSE old]
    BY <1>2 DEF OnStatus
  <2>2. dead' = FALSE /\ heard' = heard
    BY <1>2 DEF OnStatus
  <2>3. ping' \in Plugin /\ ~ping'.runs /\ "own" \notin ping'.sent
    BY <2>1, IntervalType DEF Plugin
  <2>4. QED
    BY <1>2, <2>2, <2>3 DEF PingTypeOK, LinkWatched, Plugin
<1>3. CASE /\ ~(status' = "connected" /\ status # "connected")
           /\ ~(status' = "disconnected" /\ status # "disconnected")
  <2>1. ping' = p /\ dead' = dead /\ heard' = heard
    BY <1>3 DEF OnStatus
  <2>2. QED
    BY <1>3, <2>1 DEF PingTypeOK, LinkWatched, Plugin
<1>4. QED
  BY <1>1, <1>2, <1>3

LEMMA WatchInit == KeepAliveInit => WatchInv
<1> SUFFICES ASSUME KeepAliveInit
             PROVE  WatchInv
  OBVIOUS
<1>1. Inv
  BY InvInit DEF KeepAliveInit
<1>2. QED
  BY <1>1 DEF KeepAliveInit, Init, WatchInv, PingTypeOK, LinkWatched

LEMMA WatchNext == WatchInv /\ [KeepAliveNext]_allVars => WatchInv'
<1> SUFFICES ASSUME WatchInv, [KeepAliveNext]_allVars
             PROVE  WatchInv'
  OBVIOUS
<1>1. Inv'
  BY StepRefines, InvNext DEF WatchInv
<1>2. ping \in Plugin
  BY DEF WatchInv, PingTypeOK, Plugin
<1>3. PingTypeOK' /\ LinkWatched'
  <2>1. CASE ConnectionStep
    BY <1>2, <2>1, OnStatusWatches DEF ConnectionStep, WatchInv, LinkWatched
  <2>2. CASE Ping
    <3>1. ping.sent \cup {"own"} \in SUBSET {"own", "old"}
      BY <1>2 DEF Plugin
    <3>2. ping.runs /\ ping' \in Plugin /\ ping'.runs /\ heard' \in BOOLEAN /\ UNCHANGED <<status, dead>>
      <4>1. CASE ServerHeard
        <5>1. ping.runs /\ ping' = [ping EXCEPT !.failed = 0] /\ heard' = FALSE
          BY <2>2, <4>1 DEF Ping
        <5>2. status' = status /\ dead' = dead
          BY <2>2 DEF Ping, vars
        <5>3. QED
          BY <1>2, <5>1, <5>2 DEF Plugin
      <4>2. CASE ~ServerHeard
        BY <1>2, <2>2, <3>1, <4>2 DEF Ping, Plugin, vars, WatchInv, PingTypeOK
      <4>3. QED
        BY <4>1, <4>2
    <3>3. QED
      BY <3>2 DEF WatchInv, PingTypeOK, LinkWatched, Plugin
  <2>3. CASE PingAnswered
    BY <1>2, <2>3 DEF PingAnswered, WatchInv, PingTypeOK, LinkWatched, Plugin, vars
  <2>4. CASE RawInput \/ LinkDies
    BY <1>2, <2>4 DEF RawInput, LinkDies, WatchInv, PingTypeOK, LinkWatched, Plugin, vars
  <2>5. ASSUME NEW p \in {"own", "old"}, PingFails(p)
        PROVE  PingTypeOK' /\ LinkWatched'
    <3> DEFINE failed == [ping EXCEPT !.failed = IF @ < PingThreshold THEN @ + 1 ELSE @,
                                      !.sent = @ \ {p}]
    <3>1. failed \in Plugin /\ failed.runs = ping.runs /\ failed.sent \subseteq ping.sent
      <4>1. ping.sent \ {p} \in SUBSET {"own", "old"}
        BY <1>2 DEF Plugin
      <4>2. (IF ping.failed < PingThreshold THEN ping.failed + 1 ELSE ping.failed) \in Nat
        BY <1>2 DEF Plugin
      <4>3. QED
        BY <1>2, <4>1, <4>2 DEF Plugin
    <3>2. CASE failed.failed >= PingThreshold /\ status = "connected"
      <4>1. OnStatus(failed)
        BY <2>5, <3>2 DEF PingFails, CloseWebsocket
      <4>2. QED
        BY <3>1, <4>1, OnStatusWatches DEF WatchInv, LinkWatched
    <3>3. CASE ~(failed.failed >= PingThreshold /\ status = "connected")
      <4>1. ping' = failed /\ UNCHANGED <<vars, heard, dead>>
        BY <2>5, <3>3 DEF PingFails
      <4>2. QED
        BY <3>1, <4>1 DEF WatchInv, PingTypeOK, LinkWatched, Plugin, vars
    <3>4. QED
      BY <3>2, <3>3
  <2>6. CASE UNCHANGED allVars
    BY <2>6 DEF allVars, pingVars, vars, WatchInv, PingTypeOK, LinkWatched
  <2>7. QED
    BY <2>1, <2>2, <2>3, <2>4, <2>5, <2>6 DEF KeepAliveNext
<1>4. QED
  BY <1>1, <1>3 DEF WatchInv

-------------------------------------------------------------------------------
(* The theorems. *)

\* With its pings the connection takes no step that XmppConnection does not: what a ping
\* does to it is a loss (PingConnectionPlugin, XmppConnection.closeWebsocket).
THEOREM ImplementsConnection == KeepAliveSpec => Spec
<1>1. KeepAliveInit => Init
  BY DEF KeepAliveInit
<1>2. QED
  BY <1>1, StepRefines, PTL DEF KeepAliveSpec, Spec

\* So a loss is handled also when pings find it out, at any threshold.
THEOREM PingedLossHandled == KeepAliveSpec => []LossIsHandled
  BY ImplementsConnection, LossHandled, PTL

\* An IQ whose promise is settled is not sent, whatever pings are (strophe.ping sends its own
\* through sendIQ2 as well).
THEOREM PingedSettledIsNotSent == KeepAliveSpec => NoSendAfterSettled
  BY ImplementsConnection, SettledIsNotSent, PTL

\* A connection that was given up stays down, whatever old pings still fail
\* (PingConnectionPlugin.startInterval, closeWebsocket).
THEOREM PingedGivenUpIsDown == KeepAliveSpec => GivenUpStaysDown
  BY ImplementsConnection, GivenUpIsDown, PTL

\* A connection that is up is watched by the interval, and so is one whose server is out of
\* reach until its loss is known (startInterval, stopInterval): what DeadLinkNoticed needs.
THEOREM ConnectionWatched == KeepAliveSpec => [](PingTypeOK /\ LinkWatched)
<1>1. WatchInv => PingTypeOK /\ LinkWatched
  BY DEF WatchInv
<1>2. QED
  BY <1>1, WatchInit, WatchNext, PTL DEF KeepAliveSpec

===============================================================================
