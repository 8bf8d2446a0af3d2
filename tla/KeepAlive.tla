------------------------------- MODULE KeepAlive -------------------------------
(***************************************************************************)
(* XmppConnection with the pings that find out that its websocket is dead: *)
(* PingConnectionPlugin, started and stopped by the changes of status, and *)
(* LastRequestTracker, which notes when the server was last heard.         *)
(*                                                                         *)
(* A ping times out before the next is due, as with the default options.   *)
(* What becomes of a ping when its connection is lost is Strophe's and the *)
(* plugin's: its timer may still fire on a later connection.               *)
(***************************************************************************)
EXTENDS XmppConnection

CONSTANT PingThreshold \* failed pings that kill the connection

ASSUME ThresholdAssumption == PingThreshold \in Nat \ {0}

VARIABLES
  ping, \* the plugin: its interval, failedPings, whether _lastServerCheck is set, pings sent
  heard,\* the server was heard (_lastSuccess) since _lastServerCheck
  dead  \* the server is no longer reached, and nobody has noticed

pingVars == <<ping, heard, dead>>
allVars == <<vars, pingVars>>

KeepAliveInit ==
  /\ Init
  /\ ping = [runs |-> FALSE, failed |-> 0, checked |-> FALSE, sent |-> {}]
  /\ heard = FALSE /\ dead = FALSE

\* The values of the variables.
PingTypeOK ==
  /\ ping \in [runs : BOOLEAN, failed : Nat, checked : BOOLEAN, sent : SUBSET {"own", "old"}]
  /\ heard \in BOOLEAN /\ dead \in BOOLEAN

StartInterval(p) == [p EXCEPT !.runs = TRUE]

StopInterval(p) == IF p.runs THEN [p EXCEPT !.runs = FALSE, !.failed = 0] ELSE p

\* _stropheConnectionCb, of what the connection's step has made of the status; p is the
\* plugin until then.
OnStatus(p) ==
  /\ CASE status' = "connected" /\ status # "connected" ->
            ping' = StartInterval(p) /\ dead' = FALSE
       [] status' = "disconnected" /\ status # "disconnected" ->
            /\ \E old \in SUBSET {"old"} :
                 ping' = [StopInterval(p) EXCEPT !.sent = IF @ = {} THEN {} ELSE old]
            /\ dead' = FALSE
       [] OTHER -> ping' = p /\ UNCHANGED dead
  /\ UNCHANGED heard

\* A step of the connection.  A dead one brings nothing from the server.
ConnectionStep ==
  /\ Next
  /\ dead => token' = token \/ status' # status
  /\ dead => \A i \in IQs : iq'[i].promise # "resolved" \/ iq[i].promise = "resolved"
  /\ OnStatus(ping)

\* getTimeSinceLastSuccess is less than the time since _lastServerCheck, which the first
\* answered ping sets.
ServerHeard == ping.checked /\ heard

\* Faulty: every ping starts the count anew.
PingForgiving ==
  /\ ping.runs /\ "own" \notin ping.sent
  /\ IF ServerHeard
       THEN ping' = [ping EXCEPT !.failed = 0] /\ heard' = FALSE
       ELSE ping' = [ping EXCEPT !.failed = 0, !.sent = @ \cup {"own"}] /\ UNCHANGED heard
  /\ UNCHANGED <<vars, dead>>

\* The interval: no ping when the server was heard since the last check.
Ping ==
  /\ ping.runs /\ "own" \notin ping.sent
  /\ IF ServerHeard
       THEN ping' = [ping EXCEPT !.failed = 0] /\ heard' = FALSE
       ELSE ping' = [ping EXCEPT !.sent = @ \cup {"own"}] /\ UNCHANGED heard
  /\ UNCHANGED <<vars, dead>>

PingAnswered ==
  /\ "own" \in ping.sent /\ status = "connected" /\ ~dead
  /\ ping' = [ping EXCEPT !.failed = 0, !.checked = TRUE, !.sent = @ \ {"own"}]
  /\ heard' = FALSE
  /\ UNCHANGED <<vars, dead>>

CloseWebsocket(p) == \E kept \in BOOLEAN : Drop(kept) /\ OnStatus(p)

\* An error or a timeout; one too many closes the websocket, whether the connection is the
\* one the ping was sent on or not.  The count is told apart up to the threshold.
PingFails(p) ==
  /\ p \in ping.sent
  /\ LET failed == [ping EXCEPT !.failed = IF @ < PingThreshold THEN @ + 1 ELSE @, !.sent = @ \ {p}]
     IN  IF failed.failed >= PingThreshold /\ status = "connected"
           THEN CloseWebsocket(failed)
           ELSE ping' = failed /\ UNCHANGED <<vars, heard, dead>>

\* rawInput, once connected.
RawInput ==
  /\ status = "connected" /\ ~dead
  /\ heard' = TRUE
  /\ UNCHANGED <<vars, ping, dead>>

\* The server is out of reach without the socket being closed.
LinkDies ==
  /\ status = "connected" /\ ~dead /\ losses < MaxLosses
  /\ dead' = TRUE
  /\ UNCHANGED <<vars, ping, heard>>

KeepAliveNext ==
  \/ ConnectionStep \/ Ping \/ PingAnswered \/ RawInput \/ LinkDies
  \/ \E p \in {"own", "old"} : PingFails(p)

\* The fairness of the connection, and timers: the interval and the timeouts of pings.
KeepAliveSpec ==
  /\ KeepAliveInit /\ [][KeepAliveNext]_allVars
  /\ WF_allVars((Connected \/ AttemptFails(FALSE)) /\ OnStatus(ping))
  /\ WF_allVars(Closed /\ OnStatus(ping))
  /\ WF_allVars(ResumeConnection /\ OnStatus(ping))
  /\ WF_allVars(Ping)
  /\ WF_allVars(PingFails("own"))

-------------------------------------------------------------------------------
\* A connection whose server is out of reach does not stay up: the pings, which every stanza
\* received puts off and resets, find out (startInterval, stopInterval, closeWebsocket).
DeadLinkNoticed == dead ~> status # "connected"

===============================================================================
