---------------------------- MODULE XmppConnection ----------------------------
(***************************************************************************)
(* The XMPP connection of one client: XmppConnection, which hides a lost   *)
(* websocket from its user for as long as the stream can be resumed, the   *)
(* ResumeTask that decides when to try, the IQs sendIQ2 keeps for the next *)
(* connection, and what xmpp.js tells the application.                     *)
(*                                                                         *)
(* Strophe, its stream management plugin and the server are external: a    *)
(* connection is made, refused or lost, and the plugin drops the resume    *)
(* token when the stream cannot be resumed any more.  The delay of a       *)
(* resume attempt is random (1.5 s to 27 s): it may pass at any moment.    *)
(* Only the timeouts of IQs are measured, on the clock now.                *)
(***************************************************************************)
EXTENDS Naturals

CONSTANTS IQs,       \* the IQs given to sendIQ2
          Timeout,   \* what is given to sendIQ2 as the timeout
          MaxTime,   \* bound: the last moment of the clock
          MaxLosses, \* bound: connections made anew, lost, and attempts that may be repeated
          MaxChanges \* bound: reports of the application about the network

ASSUME TimeAssumption == Timeout \in Nat \ {0} /\ MaxTime \in Nat
ASSUME BoundsAssumption == MaxLosses \in Nat /\ MaxChanges \in Nat

VARIABLES
  status,  \* XmppConnection._status
  token,   \* whether the stream management plugin has a resume token
  task,    \* the ResumeTask
  online,  \* NetworkInfo
  app,     \* xmpp.js, and the last event it gave the application
  iq,      \* the calls of sendIQ2
  now, losses, changes

connVars == <<status, token, task, online, app, losses, changes>>
vars == <<status, token, task, online, app, iq, now, losses, changes>>

\* _resumeTimeout is "fired" when its callback has run: the code tests only whether it was
\* ever set.  listeners counts the network listeners the task has added and not removed;
\* own says that it still knows how to remove the last of them.
Task == [timeout : {"none", "armed", "fired"}, listeners : Nat, own : BOOLEAN]

\* failed is connectionFailed, leaving is disconnectInProgress: no promise, or its state.
Told == {"nothing", "established", "disconnected", "failed", "dropped"}
Final == {"disconnected", "failed", "dropped"}
App == [failed : BOOLEAN, leaving : {"none", "pending", "resolved"}, told : Told]

\* An IQ is "deferred" while it is in _deferredIQs and "gone" once it is taken out, or its
\* entry invalidated, unsent.  due is when its timer (ours or Strophe's) fires.
IQ == [at : {"caller", "deferred", "sent", "gone"}, promise : {"none", "pending", "resolved", "rejected"},
       start : Nat, due : Nat]

TypeOK ==
  /\ status \in {"none", "connecting", "connected", "disconnecting", "disconnected"}
  /\ token \in BOOLEAN /\ online \in BOOLEAN
  /\ task \in Task /\ app \in App /\ iq \in [IQs -> IQ]
  /\ now \in Nat /\ losses \in Nat /\ changes \in Nat

Init ==
  /\ status = "none" /\ token = FALSE /\ online = TRUE
  /\ task = [timeout |-> "none", listeners |-> 0, own |-> FALSE]
  /\ app = [failed |-> FALSE, leaving |-> "none", told |-> "nothing"]
  /\ iq = [i \in IQs |-> [at |-> "caller", promise |-> "none", start |-> 0, due |-> 0]]
  /\ now = 0 /\ losses = 0 /\ changes = 0

-------------------------------------------------------------------------------
(* ResumeTask *)

CancelResume(t) == [t EXCEPT !.timeout = "none"]

ScheduleResume(t) == [t EXCEPT !.timeout = IF @ = "none" THEN "armed" ELSE @]

\* Faulty: scheduling without clearing the timeout that has already fired.
ScheduleKeepingTimeout(t) ==
  LET t1 == [t EXCEPT !.listeners = @ + 1, !.own = TRUE]
  IN  IF online THEN ScheduleResume(t1) ELSE t1

\* schedule() adds a listener each time, and forgets how to remove the one before.
Schedule(t) ==
  LET t1 == [CancelResume(t) EXCEPT !.listeners = @ + 1, !.own = TRUE]
  IN  IF online THEN ScheduleResume(t1) ELSE t1

Cancel(t) == [CancelResume(t) EXCEPT !.listeners = IF t.own THEN @ - 1 ELSE @, !.own = FALSE]

-------------------------------------------------------------------------------
(* What xmpp.js makes of the changes of status it hears of *)

ResetState(a) == [a EXCEPT !.failed = FALSE, !.leaving = "none"]

\* Disconnected: the promise of disconnect() is resolved, then the application is told.
Reported(a) ==
  [a EXCEPT !.leaving = IF @ = "pending" THEN "resolved" ELSE @,
            !.told = IF a.failed THEN "failed" ELSE IF a.leaving # "none" THEN "disconnected" ELSE "dropped"]

\* The status becomes DISCONNECTED, with the token the plugin has kept or lost: as long as
\* there is one the task is scheduled and nobody hears of it.
LoseConnection(kept, a) ==
  /\ kept => token
  /\ status' = "disconnected" /\ token' = kept
  /\ IF kept THEN task' = Schedule(task) /\ app' = a
             ELSE app' = Reported(a) /\ UNCHANGED task

-------------------------------------------------------------------------------
(* The IQs *)

\* Each deferred IQ gets the time it has waited as its new timeout.
ProcessDeferredIQs ==
  [i \in IQs |-> IF iq[i].at = "deferred"
                   THEN [iq[i] EXCEPT !.at = "sent", !.due = now + (now - iq[i].start)]
                   ELSE iq[i]]

ClearDeferredIQs ==
  [i \in IQs |-> IF iq[i].at = "deferred" THEN [iq[i] EXCEPT !.at = "gone", !.promise = "rejected"] ELSE iq[i]]

\* Sent at once or deferred.  The getter connected also asks whether the websocket is open;
\* here it is until Strophe reports the loss.
SendIQ2(i) ==
  /\ iq[i].at = "caller"
  /\ iq' = [iq EXCEPT ![i] = [at |-> IF status = "connected" THEN "sent" ELSE "deferred",
                              promise |-> "pending", start |-> now, due |-> now + Timeout]]
  /\ UNCHANGED <<connVars, now>>

\* Faulty: the timeout rejects and leaves the IQ in its entry.
DeferredTimeoutKeepingIQ(i) ==
  /\ iq[i].at = "deferred" /\ iq[i].due <= now
  /\ iq' = [iq EXCEPT ![i].promise = "rejected"]
  /\ UNCHANGED <<connVars, now>>

\* The timer of a deferred IQ: takes the IQ out of its entry and rejects.
DeferredTimeout(i) ==
  /\ iq[i].at = "deferred" /\ iq[i].due <= now
  /\ iq' = [iq EXCEPT ![i].at = "gone", ![i].promise = "rejected"]
  /\ UNCHANGED <<connVars, now>>

\* Strophe's answer, or its timer, for an IQ it has sent.
IQAnswered(i) ==
  /\ iq[i].at = "sent" /\ iq[i].promise = "pending" /\ status = "connected"
  /\ \E result \in {"resolved", "rejected"} : iq' = [iq EXCEPT ![i].promise = result]
  /\ UNCHANGED <<connVars, now>>

SentTimeout(i) ==
  /\ iq[i].at = "sent" /\ iq[i].promise = "pending" /\ iq[i].due <= now
  /\ iq' = [iq EXCEPT ![i].promise = "rejected"]
  /\ UNCHANGED <<connVars, now>>

\* Time passes when no timer of an IQ is due.
Tick ==
  /\ now < MaxTime
  /\ \A i \in IQs : iq[i].promise = "pending" => now < iq[i].due
  /\ now' = now + 1
  /\ UNCHANGED <<connVars, iq>>

-------------------------------------------------------------------------------
(* The connection *)

\* xmpp._connect, the first time or after the application was told of the end.
Connect ==
  /\ \/ status = "none" /\ UNCHANGED losses
     \/ app.told \in Final /\ status = "disconnected" /\ losses < MaxLosses /\ losses' = losses + 1
  /\ status' = "connecting"
  /\ app' = [ResetState(app) EXCEPT !.told = "nothing"]
  /\ UNCHANGED <<token, task, online, iq, now, changes>>

\* CONNECTED, for a new stream or a resumed one.
Connected ==
  /\ status = "connecting"
  /\ status' = "connected"
  /\ iq' = ProcessDeferredIQs
  /\ task' = Cancel(task)
  /\ app' = [ResetState(app) EXCEPT !.told = "established"]
  /\ UNCHANGED <<token, online, now, losses, changes>>

\* The server answers _maybeEnableStreamResume.
TokenGranted ==
  /\ status = "connected" /\ ~token
  /\ token' = TRUE
  /\ UNCHANGED <<status, task, online, app, iq, now, losses, changes>>

\* An attempt fails: CONNFAIL, which xmpp.js hears of even when it will be repeated, then
\* DISCONNECTED.
AttemptFails(kept) ==
  /\ status = "connecting"
  /\ IF kept THEN losses < MaxLosses /\ losses' = losses + 1 ELSE UNCHANGED losses
  /\ LoseConnection(kept, [app EXCEPT !.failed = TRUE])
  /\ UNCHANGED <<online, iq, now, changes>>

\* An established connection is lost: closed by the network or the server, or killed
\* because too many pings failed (closeWebsocket).
Drop(kept) ==
  /\ status = "connected" /\ losses < MaxLosses
  /\ losses' = losses + 1
  /\ LoseConnection(kept, app)
  /\ UNCHANGED <<online, iq, now, changes>>

\* xmpp.disconnect, once: later calls get the promise of the first.  The plugin drops the
\* token; Strophe closes an established stream in its own time and reports DISCONNECTED at
\* once when there is none.
Disconnect ==
  /\ app.leaving = "none"
  /\ task' = Cancel(task)
  /\ iq' = ClearDeferredIQs
  /\ token' = FALSE
  /\ LET a == [app EXCEPT !.leaving = "pending"]
     IN  IF status = "connected"
           THEN status' = "disconnecting" /\ app' = a
           ELSE status' = "disconnected" /\ app' = Reported(a)
  /\ UNCHANGED <<online, now, losses, changes>>

\* Strophe has closed the stream, or waited long enough for the server to.
Closed ==
  /\ status = "disconnecting"
  /\ LoseConnection(FALSE, app)
  /\ UNCHANGED <<online, iq, now, losses, changes>>

\* updateNetworkInfo: every listener runs, those the task has forgotten included.
NetworkInfo(isOnline) ==
  /\ changes < MaxChanges /\ changes' = changes + 1
  /\ online' = isOnline
  /\ task' = IF task.listeners = 0 THEN task
             ELSE IF isOnline THEN ScheduleResume(task) ELSE CancelResume(task)
  /\ UNCHANGED <<status, token, app, iq, now, losses>>

\* What streamManagement.resume() does while the connection is up is the plugin's: it may
\* refuse, or start over.
Resume == IF status = "connected" THEN status' \in {"connected", "connecting"} ELSE status' = "connecting"

\* Faulty: the timeout does not look again whether there is still a token.
ResumeUnchecked ==
  /\ task.timeout = "armed"
  /\ task' = [task EXCEPT !.timeout = "fired"]
  /\ Resume
  /\ UNCHANGED <<token, online, app, iq, now, losses, changes>>

\* _resumeConnection, run by the timeout.
ResumeConnection ==
  /\ task.timeout = "armed"
  /\ task' = [task EXCEPT !.timeout = "fired"]
  /\ IF token THEN Resume ELSE UNCHANGED status
  /\ UNCHANGED <<token, online, app, iq, now, losses, changes>>

-------------------------------------------------------------------------------
Next ==
  \/ Connect \/ Connected \/ TokenGranted \/ Disconnect \/ Closed \/ ResumeConnection \/ Tick
  \/ \E kept \in BOOLEAN : AttemptFails(kept) \/ Drop(kept)
  \/ \E isOnline \in BOOLEAN : NetworkInfo(isOnline)
  \/ \E i \in IQs : SendIQ2(i) \/ DeferredTimeout(i) \/ IQAnswered(i) \/ SentTimeout(i)

Spec == Init /\ [][Next]_vars

\* An attempt ends: the server accepts the stream or, at the latest when it has forgotten
\* it, refuses it for good.  Strophe ends a disconnect.  Timers fire.
Fairness ==
  /\ WF_vars(Connected \/ AttemptFails(FALSE))
  /\ WF_vars(Closed)
  /\ WF_vars(ResumeConnection)

FairSpec == Spec /\ Fairness

-------------------------------------------------------------------------------
(* Properties *)

\* A lost connection is never forgotten: either the application has been told of its end,
\* or a resume attempt is armed, or the network is down and a listener waits for it
\* (ResumeTask.schedule, _scheduleResume with _resumeTimeout, XmppConnection._tryResumingConnection).
LossIsHandled ==
  status = "disconnected" =>
    IF token THEN task.own /\ task.listeners > 0 /\ (online => task.timeout = "armed")
             ELSE app.told \in Final

\* Errors of attempts made before the connection came (back) up are not remembered: a later
\* loss is not reported as the failure of an old attempt (xmpp._resetState on CONNECTED).
NoStaleError == status = "connected" => ~app.failed

\* An IQ whose promise was rejected, by its timeout or by disconnect(), is not put on the
\* wire by a later connection (sendIQ2, _clearDeferredIQs, _processDeferredIQs).
NoSendAfterSettled ==
  [][\A i \in IQs : iq[i].at # "sent" /\ iq'[i].at = "sent" => iq'[i].promise = "pending"]_vars

\* Once the application asked to disconnect, or was told that the connection ended, nothing
\* but its own connect() starts another one, whatever timer or network listener of the
\* resume task is still around.
GivenUp == app.leaving # "none" \/ app.told \in Final
GivenUpStaysDown == [][GivenUp /\ GivenUp' /\ status' = "connecting" => status = "connecting"]_vars

\* When the network stays up in the end, a lost connection that could be resumed comes back,
\* or the application is told that it ended, or asks to disconnect.
ResumedOrReported ==
  <>[]online => (status = "disconnected" /\ token ~> status = "connected" \/ GivenUp)

===============================================================================
