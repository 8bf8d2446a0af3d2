------------------------------ MODULE Recording ------------------------------
(***************************************************************************)
(* The sessions of a RecordingManager, and of a VideoSIPGW, as the focus's *)
(* presence, the answers to requests and the presence of a Jibri change    *)
(* them.  m.sessions holds the sessions the manager keeps by their id and  *)
(* m.told the status the last event about each gave to the application.    *)
(* "unknown" is the status of a session a Jibri announced before the focus *)
(* did, "fresh" the undefined state of a new SIP session.                  *)
(***************************************************************************)

Absent == "absent"
NoSession == [status |-> Absent, error |-> FALSE]

\* getSession, stopRecording's check, and the test of createVideoSIPGWSession.
Has(m, id) == m.sessions[id].status # Absent

\* _addSession with _createSession, or setStatus, then _emitSessionUpdate.
Updated(m, id, session) ==
  [m EXCEPT !.sessions[id] = session, !.told[id] = session.status]

\* The same status twice is told twice: the check for duplicates compares the error of the
\* session, undefined until there is one, with an attribute, null when it is missing.
Duplicate(m, u) == Has(m, u.id) /\ u.error /\ m.sessions[u.id] = [status |-> u.status, error |-> TRUE]

\* _handleFocusPresence, of an update u.  An error is never taken back.
HandleFocusPresence(m, u) ==
  IF (~Has(m, u.id) /\ u.status = "off") \/ Duplicate(m, u) THEN m
  ELSE Updated(m, u.id, [status |-> u.status, error |-> u.error \/ m.sessions[u.id].error])

\* _handleJibriPresence: only the URL of a known session changes.
HandleJibriPresence(m, id) ==
  IF Has(m, id) THEN Updated(m, id, m.sessions[id])
  ELSE Updated(m, id, [status |-> "unknown", error |-> FALSE])

\* Faulty: the session of the answer is stored whatever presence said before it.
StartedAnyway(m, id) == Updated(m, id, [status |-> "pending", error |-> FALSE])

\* startRecording once the focus has answered.  The session it returns is another object
\* than the manager's when presence came first.
Started(m, id) == IF Has(m, id) THEN m ELSE Updated(m, id, [status |-> "pending", error |-> FALSE])

\* The requests of JibriSession to the focus; which recording is to stop is not said.
RecordRequest == [kind |-> "record"]
StopRequest == [kind |-> "stop"]

-------------------------------------------------------------------------------
(* VideoSIPGW: sessions by address, deleted when they are off or have failed *)

Gone == {"off", "failed"}

\* Faulty: a session that retries is given up.
SetStateImpatient(m, a, state) ==
  IF m.sessions[a].status = state THEN m
  ELSE LET told == Updated(m, a, [status |-> state, error |-> FALSE])
       IN  IF state \in {"pending", "on"} THEN told ELSE [told EXCEPT !.sessions[a] = NoSession]

\* setState and sessionStateChanged.
SetState(m, a, state) ==
  IF m.sessions[a].status = state THEN m
  ELSE LET told == Updated(m, a, [status |-> state, error |-> FALSE])
       IN  IF state \in Gone THEN [told EXCEPT !.sessions[a] = NoSession] ELSE told

\* handleJibriSIPState: its own check for an unchanged state reads a field never set.
HandleJibriSIPState(m, u) == IF Has(m, u.id) THEN SetState(m, u.id, u.status) ELSE m

\* createVideoSIPGWSession.
CreateSession(m, a) ==
  IF Has(m, a) THEN m ELSE [m EXCEPT !.sessions[a] = [status |-> "fresh", error |-> FALSE]]

===============================================================================
