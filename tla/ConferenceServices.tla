-------------------------- MODULE ConferenceServices --------------------------
(***************************************************************************)
(* Recording, video SIP calls and AV moderation as one client sees them:   *)
(* the requests it sends, and what it makes of answers, of the presence of *)
(* the focus, which carries the state of the recording and of the SIP call *)
(* every time any of it changes, of a Jibri's presence and of the messages *)
(* of the moderation component (Recording, AVModeration).                  *)
(*                                                                         *)
(* The focus, the Jibris, the component and the other participants are     *)
(* external.  The stream keeps the order of what it carries; the focus     *)
(* answers a request to record before or after the presence that tells of  *)
(* it, refuses what it likes, and may be replaced by another focus, which  *)
(* knows nothing of what the first one ran.                                *)
(***************************************************************************)
EXTENDS Naturals, Sequences, Recording, AVModeration

CONSTANTS MaxRecordings, \* bound: recordings of the conference, numbered in their order
          Address,       \* SIP addresses
          Person, Me,    \* who may be approved, the client's user among them
          MaxActs,       \* bound: requests of the application
          MaxOthers,     \* bound: what other participants ask for
          MaxRestarts,   \* bound: replacements of the focus
          MaxInFlight    \* bound: messages on their way, in each direction

ASSUME PersonAssumption == Me \in Person
ASSUME ServiceBoundsAssumption ==
  {MaxRecordings, MaxActs, MaxOthers, MaxRestarts, MaxInFlight} \subseteq Nat

VARIABLES
  recording, \* the RecordingManager
  gateway,   \* VideoSIPGW
  calls,     \* SIP sessions made by address, whether the last was started, gone astray
  moderation,\* AVModeration
  focus,     \* what the focus runs and publishes, and the starts it has not answered
  component, \* the moderation component
  up, down,  \* messages from and to the client
  lost,      \* recordings whose focus went away
  acts, others, restarts

client == <<recording, gateway, calls, moderation>>
counters == <<acts, others, restarts>>
vars == <<recording, gateway, calls, moderation, focus, component, up, down, lost, counters>>

Recordings == 1..MaxRecordings
Nothing == [id |-> 0, status |-> "none", error |-> FALSE]
Active == {"pending", "on", "retrying"}

\* The client has joined; the focus's presence, of a recording that runs or ran, is under way.
Init ==
  /\ recording = [sessions |-> [r \in Recordings |-> NoSession], told |-> [r \in Recordings |-> Absent]]
  /\ gateway = [sessions |-> [a \in Address |-> NoSession], told |-> [a \in Address |-> Absent]]
  /\ calls = [a \in Address |-> [made |-> 0, started |-> FALSE, astray |-> FALSE]]
  /\ moderation = NoModeration
  /\ \E rec \in {Nothing} \cup [id : {1} \cap Recordings, status : {"on", "off"}, error : {FALSE}] :
       /\ focus = [rec |-> rec, sip |-> Nothing, made |-> rec.id, unanswered |-> {}]
       /\ down = <<[kind |-> "focus", rec |-> rec, sip |-> Nothing]>>
  /\ component = [on |-> FALSE, list |-> {}]
  /\ up = <<>> /\ lost = {}
  /\ acts = 0 /\ others = 0 /\ restarts = 0

-------------------------------------------------------------------------------
(* Calls of the application *)

Send(msg) ==
  /\ acts < MaxActs /\ Len(up) < MaxInFlight
  /\ acts' = acts + 1
  /\ up' = Append(up, msg)
  /\ UNCHANGED <<focus, component, down, lost, others, restarts>>

StartRecording == Send(RecordRequest) /\ UNCHANGED client

\* Rejected at once unless the manager knows the session.
StopRecording(r) == Has(recording, r) /\ Send(StopRequest) /\ UNCHANGED client

CreateVideoSIPGWSession(a) ==
  /\ ~Has(gateway, a) /\ acts < MaxActs
  /\ gateway' = CreateSession(gateway, a)
  /\ calls' = [calls EXCEPT ![a].made = @ + 1, ![a].started = FALSE]
  /\ acts' = acts + 1
  /\ UNCHANGED <<recording, moderation, focus, component, up, down, lost, others, restarts>>

\* start() would send once more while the session is fresh: the application does it once.
StartCall(a) ==
  /\ gateway.sessions[a].status = "fresh" /\ ~calls[a].started
  /\ Send([kind |-> "call", id |-> a, session |-> calls[a].made])
  /\ calls' = [calls EXCEPT ![a].started = TRUE]
  /\ UNCHANGED <<recording, gateway, moderation>>

StopCall(a) ==
  /\ Has(gateway, a) /\ calls[a].started
  /\ Send([kind |-> "hangup", id |-> a, session |-> calls[a].made])
  /\ UNCHANGED client

EnableAVModeration(on) ==
  Sends(moderation, on) /\ Send([kind |-> "enable", on |-> on]) /\ UNCHANGED client

AvModerationApprove(p) == Send(Approval(p)) /\ UNCHANGED client
AvModerationReject(p)  == Send(Rejection(p)) /\ UNCHANGED client

-------------------------------------------------------------------------------
(* The focus, the Jibris and the component *)

Presence(f) == [kind |-> "focus", rec |-> f.rec, sip |-> f.sip]
Answer(kind, id) == [kind |-> kind, id |-> id]
SipError(msg) == [kind |-> "sipError", id |-> msg.id, session |-> msg.session]

\* What the focus runs becomes f, and is published; msgs go to the client as well.
Publish(f, before, after) ==
  /\ focus' = f
  /\ down' = down \o before \o <<Presence(f)>> \o after
  /\ UNCHANGED component

Tell(msgs) == down' = down \o msgs /\ UNCHANGED <<focus, component>>

\* A new recording, with the answer to the client that asked for it before the presence or
\* some time after it.
NewRecording ==
  [focus EXCEPT !.made = @ + 1, !.rec = [id |-> focus.made + 1, status |-> "pending", error |-> FALSE]]

CanRecord == focus.made < MaxRecordings /\ focus.rec.status \notin Active

Recorded ==
  \/ CanRecord /\ Publish(NewRecording, <<Answer("result", focus.made + 1)>>, <<>>)
  \/ CanRecord /\ Publish([NewRecording EXCEPT !.unanswered = @ \cup {focus.made + 1}], <<>>, <<>>)
  \/ Tell(<<Answer("refused", 0)>>)

\* Whatever recording the request was for, the one there is stops.
Stopped ==
  IF focus.rec.status \in Active
    THEN Publish([focus EXCEPT !.rec.status = "off"], <<>>, <<>>)
    ELSE Tell(<<>>)

Called(msg) ==
  \/ /\ focus.sip.status \notin Active
     /\ Publish([focus EXCEPT !.sip = [id |-> msg.id, status |-> "pending", error |-> FALSE]], <<>>, <<>>)
  \/ Tell(<<SipError(msg)>>)

HungUp(msg) ==
  \/ /\ focus.sip.id = msg.id /\ focus.sip.status \in Active
     /\ Publish([focus EXCEPT !.sip.status = "off"], <<>>, <<>>)
  \/ Tell(<<SipError(msg)>>)

\* Moderators hear of every change, and who is approved or rejected hears of that.
Moderate(msg) ==
  LET whitelist(list, removed) == [kind |-> "whitelist", list |-> list, removed |-> removed]
      self(kind) == IF msg.id = Me THEN <<[kind |-> kind]>> ELSE <<>>
  IN  CASE msg.kind = "enable" /\ component.on # msg.on ->
             /\ component' = [on |-> msg.on, list |-> {}]
             /\ down' = Append(down, [kind |-> "enabled", on |-> msg.on])
        [] msg.kind = "approve" /\ component.on ->
             /\ component' = [component EXCEPT !.list = @ \cup {msg.id}]
             /\ down' = down \o self("approved") \o <<whitelist(component'.list, FALSE)>>
        [] msg.kind = "reject" /\ component.on ->
             /\ component' = [component EXCEPT !.list = @ \ {msg.id}]
             /\ down' = down \o self("removed") \o <<whitelist(component'.list, TRUE)>>
        [] OTHER -> UNCHANGED <<component, down>>

Room == Len(down) < MaxInFlight

ServeRequest ==
  /\ up # <<>> /\ Room
  /\ LET msg == Head(up)
     IN  CASE msg.kind = "record" -> Recorded
           [] msg.kind = "stop"   -> Stopped
           [] msg.kind = "call"   -> Called(msg)
           [] msg.kind = "hangup" -> HungUp(msg)
           [] OTHER -> Moderate(msg) /\ UNCHANGED focus
  /\ up' = Tail(up)
  /\ UNCHANGED <<client, lost, counters>>

AnswerLate(r) ==
  /\ r \in focus.unanswered /\ Room
  /\ focus' = [focus EXCEPT !.unanswered = @ \ {r}]
  /\ down' = Append(down, Answer("result", r))
  /\ UNCHANGED <<client, component, up, lost, counters>>

RecordingChanges ==
  /\ Room
  /\ \/ focus.rec.status = "pending" /\ Publish([focus EXCEPT !.rec.status = "on"], <<>>, <<>>)
     \/ /\ focus.rec.status \in Active
        /\ \E error \in BOOLEAN :
             Publish([focus EXCEPT !.rec.status = "off", !.rec.error = error], <<>>, <<>>)
  /\ UNCHANGED <<client, up, lost, counters>>

\* The Jibri that streams publishes the URL.
JibriPresence ==
  /\ Room /\ focus.rec.status = "on"
  /\ down' = Append(down, Answer("jibri", focus.rec.id))
  /\ UNCHANGED <<client, focus, component, up, lost, counters>>

CallChanges ==
  /\ Room /\ focus.sip.status \in Active
  /\ \E status \in {"on", "retrying", "off", "failed"} \ {focus.sip.status} :
       Publish([focus EXCEPT !.sip.status = status], <<>>, <<>>)
  /\ UNCHANGED <<client, up, lost, counters>>

\* Another participant starts a recording, or moderates.
OthersAct ==
  /\ Room /\ others < MaxOthers /\ others' = others + 1
  /\ \/ CanRecord /\ Publish(NewRecording, <<>>, <<>>)
     \/ \E on \in BOOLEAN : Moderate([kind |-> "enable", on |-> on]) /\ UNCHANGED focus
     \/ \E msg \in {Approval(p) : p \in Person} \cup {Rejection(p) : p \in Person} : Moderate(msg) /\ UNCHANGED focus
  /\ UNCHANGED <<client, up, lost, acts, restarts>>

\* A new focus: nobody tells the clients what became of the old one's recordings and calls.
FocusRestart ==
  /\ Room /\ restarts < MaxRestarts /\ restarts' = restarts + 1
  /\ lost' = lost \cup ({focus.rec.id} \ {0}) \cup focus.unanswered
  /\ Publish([focus EXCEPT !.rec = Nothing, !.sip = Nothing, !.unanswered = {}], <<>>, <<>>)
  /\ UNCHANGED <<client, up, acts, others>>

-------------------------------------------------------------------------------
(* What the client receives *)

\* The call of the address's session is up, or asked for.
Calling(a) ==
  /\ calls[a].started
  /\ \/ focus.sip.id = a /\ focus.sip.status \in Active
     \/ \E i \in DOMAIN up : up[i].kind = "call" /\ up[i].id = a

\* A session is astray once something else was taken for the end of its call: the state its
\* address had before, or a refused request to hang up.
Ends(a, ended) == calls' = IF ended /\ Calling(a) THEN [calls EXCEPT ![a].astray = TRUE] ELSE calls

OnPresence(msg) ==
  /\ recording' = IF msg.rec = Nothing THEN recording ELSE HandleFocusPresence(recording, msg.rec)
  /\ IF msg.sip = Nothing THEN UNCHANGED <<gateway, calls>>
     ELSE /\ gateway' = HandleJibriSIPState(gateway, msg.sip)
          /\ Ends(msg.sip.id, msg.sip.status \in {"off", "failed"})
  /\ UNCHANGED moderation

\* The answer of a session that is no longer the gateway's reaches nobody.
RequestFailed(msg) ==
  /\ IF Has(gateway, msg.id) /\ calls[msg.id].made = msg.session
       THEN gateway' = SetState(gateway, msg.id, "failed") /\ Ends(msg.id, TRUE)
       ELSE UNCHANGED <<gateway, calls>>
  /\ UNCHANGED <<recording, moderation>>

Receive ==
  /\ down # <<>> /\ down' = Tail(down)
  /\ LET msg == Head(down)
     IN  CASE msg.kind = "focus"    -> OnPresence(msg)
           [] msg.kind = "sipError" -> RequestFailed(msg)
           [] msg.kind = "result"   -> recording' = Started(recording, msg.id)
                                       /\ UNCHANGED <<gateway, calls, moderation>>
           [] msg.kind = "refused"  -> UNCHANGED client
           [] msg.kind = "jibri"    -> recording' = HandleJibriPresence(recording, msg.id)
                                       /\ UNCHANGED <<gateway, calls, moderation>>
           [] OTHER                 -> moderation' = OnMessage(moderation, msg)
                                       /\ UNCHANGED <<recording, gateway, calls>>
  /\ UNCHANGED <<focus, component, up, lost, counters>>

-------------------------------------------------------------------------------
Next ==
  \/ StartRecording \/ ServeRequest \/ RecordingChanges \/ JibriPresence \/ CallChanges
  \/ OthersAct \/ FocusRestart \/ Receive
  \/ \E r \in Recordings : StopRecording(r) \/ AnswerLate(r)
  \/ \E a \in Address : CreateVideoSIPGWSession(a) \/ StartCall(a) \/ StopCall(a)
  \/ \E on \in BOOLEAN : EnableAVModeration(on)
  \/ \E p \in Person : AvModerationApprove(p) \/ AvModerationReject(p)

Spec == Init /\ [][Next]_vars

-------------------------------------------------------------------------------
(* Properties *)

Quiet == up = <<>> /\ down = <<>>

\* Once everything has arrived, in whatever order answers, presence and Jibris came, the
\* client shows the focus's recording with its status, and no other one as running, but for
\* those of a focus that went away.
RecordingShown ==
  Quiet => \A r \in Recordings :
             LET shown == recording.told[r]
             IN  /\ shown = recording.sessions[r].status
                 /\ IF focus.rec.id = r
                      THEN shown \in {focus.rec.status} \cup IF focus.rec.status = "off" THEN {Absent} ELSE {}
                      ELSE shown \in {Absent, "off"} \/ r \in lost

\* A SIP call in progress has a session in its state, unless its session is astray.
CallHasSession ==
  Quiet /\ focus.sip.status \in Active /\ ~calls[focus.sip.id].astray =>
    gateway.sessions[focus.sip.id].status = focus.sip.status

\* The application knows whether moderation is on, whether the user may unmute and who else
\* may: all approved since it was switched on, but for those on the list kept from before,
\* of whom it is not told again.
ApprovalsShown ==
  Quiet =>
    /\ moderation.enabled = component.on
    /\ component.on => /\ moderation.may = (Me \in component.list)
                       /\ moderation.approved \subseteq component.list
                       /\ component.list \subseteq moderation.approved \cup moderation.kept

===============================================================================
