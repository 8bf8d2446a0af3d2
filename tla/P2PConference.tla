---------------------------- MODULE P2PConference ----------------------------
(***************************************************************************)
(* How the participants of a conference switch between the bridge (JVB)    *)
(* and a peer-to-peer connection: the P2P part of JitsiConference at every *)
(* endpoint, the jingle messages and presence the XMPP server carries      *)
(* between them, and the events of their peer connections.                 *)
(*                                                                         *)
(* With exactly two humans in the room the one with the smaller id starts  *)
(* a P2P session; a third participant makes both stop it.  Nobody waits    *)
(* for the other: each endpoint decides from the presence it has seen.     *)
(* The media sessions are seen through what the conference asks of them;   *)
(* JingleSession models what they do with it.                              *)
(***************************************************************************)
EXTENDS Naturals, Sequences, FiniteSets

CONSTANTS Endpoint,   \* occupants of the room over time, by the order of their ids
          Capable,    \* those with P2P enabled in config and browser
          Followed,   \* those whose JVB session and remote tracks are followed; the switching
                      \* does not depend on either
          Bots,       \* those that may be in the room as a bot first (poltergeist, Jigasi)
          Toggles,    \* those whose user may switch end-to-end encryption on or off
          MaxToggles, \* bound: how often
          Faults,     \* subset of {"ice", "force", "late", "stale"}, see the actions
          None        \* no session, no deferred start

ASSUME EndpointAssumption == Endpoint \subseteq Nat /\ IsFiniteSet(Endpoint)
ASSUME NoneAssumption == None \notin Endpoint \cup [by : Endpoint, to : Endpoint, n : Nat]
ASSUME SetsAssumption == /\ Capable \subseteq Endpoint /\ Followed \subseteq Endpoint /\ Bots \subseteq Endpoint
                         /\ Toggles \subseteq Capable /\ MaxToggles \in Nat
                         /\ Faults \subseteq {"ice", "force", "late", "stale"}

VARIABLES
  room,      \* "out", "bot", "in" or "left", per endpoint, as the server sees it
  inbox,     \* the stanzas the server has for an endpoint, in the order of its stream
  conf,      \* the endpoint's JitsiConference
  answered   \* the P2P sessions whose initiator has set the answer

vars == <<room, inbox, conf, answered>>

\* A P2P session by its initiator, its responder and the initiator's sid.
Session == [by : Endpoint, to : Endpoint, n : Nat]
Other(e, s) == IF s.by = e THEN s.to ELSE s.by

Message == [type : {"join", "bot", "human", "leave", "initiate", "accept", "terminate"}, from : Endpoint,
            session : Session \cup {None}, restart : BOOLEAN]
Presence(type, e) == [type |-> type, from |-> e, session |-> None, restart |-> FALSE]
Jingle(type, e, s) == [type |-> type, from |-> e, session |-> s, restart |-> FALSE]
Terminate(e, s, restart) == [type |-> "terminate", from |-> e, session |-> s, restart |-> restart]

\* The fields of JitsiConference the switching uses.  phase is where p2pJingleSession is,
\* jvb where jvbJingleSession is ("ended": terminated by ourselves, not replaced yet),
\* jvbMedia the last setMediaTransferActive asked of it; shown are the remote tracks the
\* participants of the conference have, tagged with their connection.
Conference ==
  [peers : SUBSET Endpoint, bots : SUBSET Endpoint,
   session : Session \cup {None},
   phase : {"none", "inviting", "offered", "accepting", "negotiated"},
   p2p : BOOLEAN, deferred : Endpoint \cup {None}, made : Nat,
   jvb : {"none", "accepting", "live", "ended"}, jvbMedia : BOOLEAN,
   jvbTracks : SUBSET Endpoint, p2pTracks : SUBSET Endpoint,
   shown : SUBSET ({"jvb", "p2p"} \X Endpoint),
   e2ee : BOOLEAN, toggles : Nat, switching : BOOLEAN, \* KeyHandler: enabled, _enabling pending
   late : SUBSET Session,    \* terminated with their invite task still running
   stale : BOOLEAN,          \* the peer connection of a terminated session is still open
   parked : BOOLEAN,         \* history: a restart left the JVB media and tracks aside
   outdated : BOOLEAN]       \* history: the session is of a deferred start that encryption
                             \* kept from being cleared

NewConference ==
  [peers |-> {}, bots |-> {}, session |-> None, phase |-> "none", p2p |-> FALSE, deferred |-> None,
   made |-> 0, jvb |-> "none", jvbMedia |-> TRUE, jvbTracks |-> {}, p2pTracks |-> {},
   shown |-> {}, e2ee |-> FALSE, toggles |-> 0, switching |-> FALSE,
   late |-> {}, stale |-> FALSE, parked |-> FALSE, outdated |-> FALSE]

Init == /\ room = [e \in Endpoint |-> "out"]
        /\ inbox = [e \in Endpoint |-> <<>>]
        /\ conf = [e \in Endpoint |-> NewConference]
        /\ answered = {}

Here(e) == room[e] = "in"
Members == {e \in Endpoint : Here(e)}
Occupants == {e \in Endpoint : room[e] \in {"in", "bot"}}

-----------------------------------------------------------------------------
(* Pieces of the handlers, as functions of the conference.                 *)

ShouldBeInP2PMode(c) == Cardinality(c.peers) = 1 /\ c.peers \cap c.bots = {}
ThePeer(c) == CHOOSE q \in c.peers : TRUE

\* Faulty: the tracks of either connection are surfaced.
AddedAlways(c, tag, owners) ==
  [c EXCEPT !.shown = @ \cup ({tag} \X (owners \cap c.peers))]

\* onRemoteTrackAdded: only for the active connection, only for known participants.
Added(c, tag, owners) ==
  IF (tag = "p2p") = c.p2p
  THEN [c EXCEPT !.shown = @ \cup ({tag} \X (owners \cap c.peers))]
  ELSE c
\* onRemoteTrackRemoved
Removed(c, tag, owners) == [c EXCEPT !.shown = @ \ ({tag} \X owners)]

\* Made-up events for all tracks of a connection (_addRemoteTracks, _removeRemoteTracks).
TracksOf(c, tag) == IF tag = "jvb" THEN c.jvbTracks ELSE c.p2pTracks
AddRemoteTracks(c, tag) == Added(c, tag, TracksOf(c, tag))
RemoveRemoteTracks(c, tag) == Removed(c, tag, TracksOf(c, tag))

SuspendJvbMedia(c) == [c EXCEPT !.jvbMedia = FALSE]
ResumeJvbMedia(c) == [c EXCEPT !.jvbMedia = TRUE]
SetP2PStatus(c, status) == [c EXCEPT !.p2p = status]
ClearDeferredStart(c) == [c EXCEPT !.deferred = None]

\* _startP2PSession: a session is created and its invite task queued.
StartP2PSession(e, c, q) ==
  LET d == ClearDeferredStart(c)
  IN IF c.session # None THEN d
     ELSE [d EXCEPT !.session = [by |-> e, to |-> q, n |-> c.made], !.made = @ + 1,
                    !.phase = "inviting", !.p2pTracks = {}]

\* _stopP2PSession, but for the session-terminate: the JVB gets its media and its tracks
\* back when the P2P session had been established and this is no restart.
StopP2PSession(c, restart) ==
  LET back == c.p2p /\ c.jvb # "none" /\ ~restart
      media == IF back THEN ResumeJvbMedia(c) ELSE c
      d == [SetP2PStatus(RemoveRemoteTracks(media, "p2p"), FALSE) EXCEPT
             !.session = None, !.phase = "none", !.p2pTracks = {}, !.outdated = FALSE,
             !.late = IF c.phase = "inviting" THEN @ \cup {c.session} ELSE @,
             !.stale = TRUE,
             !.parked = @ \/ (c.p2p /\ c.jvb # "none" /\ restart)]
  IN IF c.session = None THEN c
     ELSE IF back THEN [AddRemoteTracks(d, "jvb") EXCEPT !.parked = FALSE] ELSE d

\* Faulty: the deferred start outlives the situation it was made for.
MaybeStartOrStopKeepingTask(e, c, userLeft) ==
  LET should == ShouldBeInP2PMode(c)
      q == ThePeer(c)
  IN IF e \notin Capable \/ c.e2ee THEN c
     ELSE IF c.session # None THEN (IF should THEN c ELSE StopP2PSession(c, FALSE))
     ELSE IF ~should \/ q < e THEN c
     ELSE IF ~userLeft THEN StartP2PSession(e, c, q)
     ELSE IF c.deferred # None THEN c
     ELSE [c EXCEPT !.deferred = q]

\* _maybeStartOrStopP2P
MaybeStartOrStopP2P(e, c, userLeft) ==
  LET should == ShouldBeInP2PMode(c)
      d == IF should THEN c ELSE ClearDeferredStart(c)
      q == ThePeer(c)
  IN IF e \notin Capable \/ c.e2ee THEN c
     ELSE IF c.session # None THEN (IF should THEN d ELSE StopP2PSession(d, FALSE))
     ELSE IF ~should \/ q < e THEN d
     ELSE IF ~userLeft THEN StartP2PSession(e, d, q)
     ELSE IF d.deferred # None THEN d
     ELSE [d EXCEPT !.deferred = q]

-----------------------------------------------------------------------------
(* Sending.                                                                *)

\* The server passes a stanza on to the occupants it is meant for.
Deliver(boxes, to, m) == [q \in Endpoint |-> IF q \in to \cap Members
                                            THEN Append(boxes[q], m) ELSE boxes[q]]

\* sendSessionTerminate: for a session that was given up, when its peer is still known.
Goodbyes(boxes, e, before, after, restart) ==
  IF before.session = None \/ after.session = before.session THEN boxes
  ELSE Deliver(boxes, {Other(e, before.session)} \cap after.peers,
               Terminate(e, before.session, restart))

\* The conference of e becomes c; it says goodbye to the session it has stopped.
Become(e, c) == /\ conf' = [conf EXCEPT ![e] = c]
                /\ inbox' = Goodbyes(inbox, e, conf[e], c, FALSE)

-----------------------------------------------------------------------------
(* The room.                                                               *)

\* The joiner gets the presence of everybody in one go and then counts as joined
\* (onMemberJoined for each, _onMucJoined); the others get its presence, which for one
\* that takes the place of its poltergeist only lacks the bot type of before.
Join(e) ==
  /\ room[e] \in {"out", "bot"}
  /\ room' = [room EXCEPT ![e] = "in"]
  /\ LET c == [conf[e] EXCEPT !.peers = Occupants \ {e}, !.bots = Occupants \ (Members \cup {e})]
     IN conf' = [conf EXCEPT ![e] = MaybeStartOrStopP2P(e, c, FALSE)]
  /\ inbox' = Deliver(inbox, Members, Presence(IF room[e] = "bot" THEN "human" ELSE "join", e))
  /\ UNCHANGED answered

BotJoins(e) ==
  /\ room[e] = "out" /\ e \in Bots
  /\ room' = [room EXCEPT ![e] = "bot"]
  /\ inbox' = Deliver(inbox, Members, Presence("bot", e))
  /\ UNCHANGED <<conf, answered>>

\* leave(): both sessions are closed without a session-terminate, the P2P flag and the
\* deferred start stay as they are, and nothing is listened to any more.
Leave(e) ==
  /\ room[e] \in {"in", "bot"}
  /\ room' = [room EXCEPT ![e] = "left"]
  /\ conf' = [conf EXCEPT ![e] =
                [NewConference EXCEPT !.p2p = conf[e].p2p, !.deferred = conf[e].deferred]]
  /\ inbox' = [Deliver(inbox, Members \ {e}, Presence("leave", e)) EXCEPT ![e] = <<>>]
  /\ UNCHANGED answered

-----------------------------------------------------------------------------
(* Stanzas.                                                                *)

\* The next stanza of e has the given type.
Receives(e, type) == Here(e) /\ inbox[e] # <<>> /\ Head(inbox[e]).type = type
Received(e) == Head(inbox[e])
Rest(e) == [inbox EXCEPT ![e] = Tail(@)]

\* The handler turns the conference into c.
Handle(e, c) == /\ conf' = [conf EXCEPT ![e] = c]
                /\ inbox' = Goodbyes(Rest(e), e, conf[e], c, FALSE)
                /\ UNCHANGED room

OnMemberJoined(e) ==
  /\ Receives(e, "join") \/ Receives(e, "bot")
  /\ LET q == Received(e).from
         c == [conf[e] EXCEPT !.peers = @ \cup {q},
                              !.bots = IF Receives(e, "bot") THEN @ \cup {q} ELSE @]
     IN Handle(e, MaybeStartOrStopP2P(e, c, FALSE))
  /\ UNCHANGED answered

\* Faulty: the change of the bot type is noted and nothing made of it.
OnBotTypeRemovedNoted(e) ==
  /\ Receives(e, "human")
  /\ Handle(e, [conf[e] EXCEPT !.bots = @ \ {Received(e).from}])
  /\ UNCHANGED answered

\* _onMemberBotTypeChanged: the real participant has replaced its poltergeist.
OnBotTypeRemoved(e) ==
  /\ Receives(e, "human")
  /\ LET c == [conf[e] EXCEPT !.bots = @ \ {Received(e).from}]
     IN Handle(e, MaybeStartOrStopP2P(e, c, FALSE))
  /\ UNCHANGED answered

\* Faulty: the P2P session is not looked at.
OnMemberLeftOnlyTracks(e) ==
  /\ Receives(e, "leave")
  /\ LET q == Received(e).from
         c == [conf[e] EXCEPT !.peers = @ \ {q}, !.bots = @ \ {q}, !.shown = @ \ ({"jvb", "p2p"} \X {q})]
     IN Handle(e, c)
  /\ UNCHANGED answered

\* The participant and its tracks are gone at once; the sessions follow (JvbTrackRemoved).
OnMemberLeft(e) ==
  /\ Receives(e, "leave")
  /\ LET q == Received(e).from
         c == [conf[e] EXCEPT !.peers = @ \ {q}, !.bots = @ \ {q}, !.shown = @ \ ({"jvb", "p2p"} \X {q})]
     IN Handle(e, MaybeStartOrStopP2P(e, c, TRUE))
  /\ UNCHANGED answered

\* Faulty: who calls is not asked whether the room still has only the two.
OnIncomingCallUnchecked(e) ==
  /\ Receives(e, "initiate")
  /\ LET s == Received(e).session
         c == conf[e]
     IN IF e \in Capable /\ c.session = None
        THEN Handle(e, [c EXCEPT !.session = s, !.phase = "accepting", !.p2pTracks = {}])
        ELSE /\ inbox' = Deliver(Rest(e), {s.by}, Terminate(e, s, FALSE))
             /\ UNCHANGED <<room, conf>>
  /\ UNCHANGED answered

\* Faulty: a call is accepted over the session there is.
OnIncomingCallNeverBusy(e) ==
  /\ Receives(e, "initiate")
  /\ LET s == Received(e).session
         c == conf[e]
     IN IF e \in Capable /\ ShouldBeInP2PMode(c)
        THEN /\ conf' = [conf EXCEPT ![e] = [c EXCEPT !.session = s, !.phase = "accepting",
                                                      !.p2pTracks = {}]]
             /\ inbox' = Rest(e) /\ UNCHANGED room
        ELSE /\ inbox' = Deliver(Rest(e), {s.by}, Terminate(e, s, FALSE))
             /\ UNCHANGED <<room, conf>>
  /\ UNCHANGED answered

\* _rejectIncomingCall: a session-terminate to the caller.
RejectIncomingCall(e, s) ==
  /\ inbox' = Deliver(Rest(e), {s.by}, Terminate(e, s, FALSE))
  /\ UNCHANGED <<room, conf>>

\* _onIncomingCallP2P: busy, declined or accepted.
OnIncomingCall(e) ==
  /\ Receives(e, "initiate")
  /\ LET s == Received(e).session
         c == conf[e]
     IN IF e \in Capable /\ c.session = None /\ ShouldBeInP2PMode(c)
        THEN Handle(e, [c EXCEPT !.session = s, !.phase = "accepting", !.p2pTracks = {}])
        ELSE RejectIncomingCall(e, s)
  /\ UNCHANGED answered

\* onCallAccepted; an accept for a session that is no more is an unknown sid.
OnCallAccepted(e) ==
  /\ Receives(e, "accept")
  /\ LET s == Received(e).session IN
     IF conf[e].session = s
     THEN /\ Handle(e, [conf[e] EXCEPT !.phase = "negotiated"])
          /\ answered' = answered \cup {s}
     ELSE Handle(e, conf[e]) /\ UNCHANGED answered

\* onCallEnded; strophe.jingle has ended the session already, so nothing is sent back.
OnCallEnded(e) ==
  /\ Receives(e, "terminate")
  /\ conf' = [conf EXCEPT ![e] = IF @.session = Received(e).session
                                 THEN StopP2PSession(@, Received(e).restart) ELSE @]
  /\ inbox' = Rest(e)
  /\ UNCHANGED <<room, answered>>

-----------------------------------------------------------------------------
(* The P2P session's tasks and its peer connection.                        *)

InviteDone(e) ==
  /\ Here(e) /\ conf[e].phase = "inviting"
  /\ conf' = [conf EXCEPT ![e].phase = "offered"]
  /\ inbox' = Deliver(inbox, {conf[e].session.to}, Jingle("initiate", e, conf[e].session))
  /\ UNCHANGED <<room, answered>>

\* The invite task of a session that was stopped meanwhile: dropped by close() when it
\* was waiting, else it still sends its session-initiate ("late").
OldInviteDone(e) ==
  /\ Here(e)
  /\ \E s \in conf[e].late :
       /\ conf' = [conf EXCEPT ![e].late = @ \ {s}]
       /\ \/ UNCHANGED inbox
          \/ "late" \in Faults /\ inbox' = Deliver(inbox, {s.to}, Jingle("initiate", e, s))
  /\ UNCHANGED <<room, answered>>

AcceptDone(e) ==
  /\ Here(e) /\ conf[e].phase = "accepting"
  /\ conf' = [conf EXCEPT ![e].phase = "negotiated"]
  /\ inbox' = Deliver(inbox, {conf[e].session.by}, Jingle("accept", e, conf[e].session))
  /\ UNCHANGED <<room, answered>>

\* The remote description is set: the peer's track appears on the P2P connection.
P2PTrackAdded(e) ==
  /\ Here(e) /\ e \in Followed /\ conf[e].phase = "negotiated" /\ conf[e].p2pTracks = {}
  /\ LET owners == {Other(e, conf[e].session)} IN
     conf' = [conf EXCEPT ![e] = Added([@ EXCEPT !.p2pTracks = owners], "p2p", owners)]
  /\ UNCHANGED <<room, inbox, answered>>

\* _onIceConnectionEstablished of the P2P session.  Its responder may insist on the
\* bridge ("force": forceJVB121Ratio).
IceConnected(e) ==
  /\ Here(e) /\ conf[e].session \in answered /\ conf[e].phase = "negotiated" /\ ~conf[e].p2p
  /\ LET c == [SetP2PStatus(conf[e], TRUE) EXCEPT !.parked = FALSE]
         d == IF c.jvb = "none" THEN c ELSE SuspendJvbMedia(RemoveRemoteTracks(c, "jvb"))
     IN \/ Become(e, AddRemoteTracks(d, "p2p"))
        \/ "force" \in Faults /\ c.session.to = e /\ Become(e, StopP2PSession(conf[e], FALSE))
  /\ UNCHANGED <<room, answered>>

\* _onIceConnectionFailed of the P2P session, when its peer is gone, or any time ("ice").
IceFailed(e) ==
  /\ Here(e) /\ conf[e].phase = "negotiated"
  /\ "ice" \in Faults \/ conf[Other(e, conf[e].session)].session # conf[e].session
  /\ Become(e, StopP2PSession(conf[e], FALSE))
  /\ UNCHANGED <<room, answered>>

\* The connection of a stopped session fails before its closing task has run ("stale"):
\* close() left onconnectionstatechange in place, the handler does not ask which session.
OldConnectionFailed(e) ==
  /\ Here(e) /\ conf[e].stale /\ "stale" \in Faults
  /\ Become(e, [StopP2PSession(conf[e], FALSE) EXCEPT !.stale = FALSE])
  /\ UNCHANGED <<room, answered>>

OldConnectionClosed(e) ==
  /\ Here(e) /\ conf[e].stale
  /\ conf' = [conf EXCEPT ![e].stale = FALSE]
  /\ UNCHANGED <<room, inbox, answered>>

\* The deferred start; after leave() there is no room left to start it in (it throws).
\* _maybeStartOrStopP2P clears none with encryption on, so it may be for one who is gone.
DeferredStart(e) ==
  /\ conf[e].deferred # None
  /\ LET c == conf[e]
         alone == c.peers = {c.deferred} /\ c.bots = {}
         history == c.outdated \/ (c.session = None /\ c.toggles > 0 /\ ~alone)
     IN conf' = [conf EXCEPT ![e] =
          IF Here(e) THEN [StartP2PSession(e, c, c.deferred) EXCEPT !.outdated = history]
          ELSE [c EXCEPT !.deferred = None]]
  /\ UNCHANGED <<room, inbox, answered>>

-----------------------------------------------------------------------------
(* The JVB session.                                                        *)

\* _acceptJvbIncomingCall: Jicofo invites whoever is not alone.  What is left of the
\* session before has been closed by then.
JvbInvited(e) ==
  /\ Here(e) /\ e \in Followed /\ conf[e].jvb \in {"none", "ended"}
  /\ conf[e].jvbTracks = {} /\ Cardinality(Occupants) > 1
  /\ conf' = [conf EXCEPT ![e] = [@ EXCEPT !.jvb = "accepting", !.jvbMedia = TRUE, !.parked = FALSE]]
  /\ UNCHANGED <<room, inbox, answered>>

\* Faulty: the media is left active without a look at the P2P session.
JvbAcceptedWithMedia(e) ==
  /\ Here(e) /\ conf[e].jvb = "accepting"
  /\ conf' = [conf EXCEPT ![e].jvb = "live"]
  /\ UNCHANGED <<room, inbox, answered>>

\* The session-accept got its result.
JvbAccepted(e) ==
  /\ Here(e) /\ conf[e].jvb = "accepting"
  /\ conf' = [conf EXCEPT ![e].jvb = "live", ![e].jvbMedia = @ /\ ~conf[e].p2p]
  /\ UNCHANGED <<room, inbox, answered>>

\* session-terminate of Jicofo (onCallEnded).
JvbTerminated(e) ==
  /\ Here(e) /\ conf[e].jvb \in {"accepting", "live"}
  /\ conf' = [conf EXCEPT ![e].jvb = "none"]
  /\ UNCHANGED <<room, inbox, answered>>

\* The closing task of an ended JVB session gives up its tracks.
JvbClosed(e) ==
  /\ Here(e) /\ conf[e].jvb \in {"none", "ended"} /\ conf[e].jvbTracks # {}
  /\ conf' = [conf EXCEPT ![e] = [RemoveRemoteTracks(@, "jvb") EXCEPT !.jvbTracks = {}]]
  /\ UNCHANGED <<room, inbox, answered>>

\* Jicofo signals the sources of a participant, whose presence came before.
JvbTrackAdded(e) ==
  /\ Here(e) /\ conf[e].jvb \in {"accepting", "live"}
  /\ \E q \in conf[e].peers \ conf[e].jvbTracks :
       LET c == [conf[e] EXCEPT !.jvbTracks = @ \cup {q}]
       IN conf' = [conf EXCEPT ![e] = Added(c, "jvb", {q})]
  /\ UNCHANGED <<room, inbox, answered>>

\* removeRemoteStreamsOnLeave
JvbTrackRemoved(e) ==
  /\ Here(e)
  /\ \E q \in conf[e].jvbTracks \ conf[e].peers :
       LET c == Removed(conf[e], "jvb", {q})
       IN conf' = [conf EXCEPT ![e] = [c EXCEPT !.jvbTracks = @ \ {q}]]
  /\ UNCHANGED <<room, inbox, answered>>

\* KeyHandler.setEnabled: the setting is in force before the keys are ready; a second
\* change waits for the first one.
SetE2EE(e) ==
  /\ Here(e) /\ e \in Toggles /\ conf[e].toggles < MaxToggles /\ ~conf[e].switching
  /\ conf' = [conf EXCEPT ![e].e2ee = ~@, ![e].toggles = @ + 1, ![e].switching = TRUE]
  /\ UNCHANGED <<room, inbox, answered>>

\* _restartMediaSessions, when _setEnabled has resolved.
RestartMediaSessions(e) ==
  /\ Here(e) /\ conf[e].switching
  /\ LET c == StopP2PSession([conf[e] EXCEPT !.switching = FALSE], TRUE)
         d == MaybeStartOrStopP2P(e, [c EXCEPT !.jvb = IF @ = "none" THEN "none" ELSE "ended"], FALSE)
     IN /\ conf' = [conf EXCEPT ![e] = d]
        /\ inbox' = Goodbyes(inbox, e, conf[e], d, TRUE)
  /\ UNCHANGED <<room, answered>>

-----------------------------------------------------------------------------
Stanza(e) == OnMemberJoined(e) \/ OnBotTypeRemoved(e) \/ OnMemberLeft(e) \/ OnIncomingCall(e)
             \/ OnCallAccepted(e) \/ OnCallEnded(e)
Tasks(e) == InviteDone(e) \/ OldInviteDone(e) \/ AcceptDone(e) \/ P2PTrackAdded(e)
            \/ OldConnectionClosed(e) \/ DeferredStart(e) \/ RestartMediaSessions(e)
JvbTasks(e) == JvbAccepted(e) \/ JvbClosed(e) \/ JvbTrackRemoved(e)
Ice(e) == IceConnected(e) \/ IceFailed(e)
Environment(e) == Join(e) \/ BotJoins(e) \/ Leave(e) \/ OldConnectionFailed(e) \/ JvbInvited(e)
                  \/ JvbTerminated(e) \/ JvbTrackAdded(e) \/ SetE2EE(e)

Next == \E e \in Endpoint : Stanza(e) \/ Tasks(e) \/ JvbTasks(e) \/ Ice(e) \/ Environment(e)

Spec == Init /\ [][Next]_vars

\* Stanzas arrive, queued tasks and timers run, two peers that negotiated get connected.
FairSpec == Spec /\ \A e \in Endpoint : /\ WF_vars(Stanza(e)) /\ WF_vars(Tasks(e))
                                        /\ WF_vars(JvbTasks(e)) /\ WF_vars(IceConnected(e))

-----------------------------------------------------------------------------
(* Properties.                                                             *)

\* The values of the variables.
TypeOK == /\ room \in [Endpoint -> {"out", "bot", "in", "left"}]
          /\ inbox \in [Endpoint -> Seq(Message)]
          /\ conf \in [Endpoint -> Conference]
          /\ answered \in SUBSET Session

\* Whatever order joins, leaves, invitations, refusals and timers came in, a participant
\* holds a P2P session only with the one other participant it knows, no bot
\* (_maybeStartOrStopP2P, _onIncomingCallP2P).  With encryption on it does not
\* look, and looks again when the restart is done; a deferred start that became
\* outdated meanwhile still starts its session.
P2POnlyForTwo ==
  \A e \in Members :
    conf[e].session # None /\ ~conf[e].e2ee /\ ~conf[e].switching /\ ~conf[e].outdated =>
      conf[e].peers = {Other(e, conf[e].session)} /\ conf[e].bots = {}

\* A JVB session that is gone still holds tracks its closing task will give up.
Closing(c) == c.jvb \in {"none", "ended"} /\ c.jvbTracks # {}

\* The application sees exactly the remote tracks of the active connection, those of the
\* participants it knows: none twice, none missing after a switch in either direction
\* (_onIceConnectionEstablished, _stopP2PSession, onRemoteTrackAdded).
ActiveTracksShown ==
  \A e \in Members : LET c == conf[e] IN
    ~Closing(c) /\ ~c.parked =>
      c.shown = IF c.p2p THEN {"p2p"} \X (c.p2pTracks \cap c.peers)
                ELSE {"jvb"} \X (c.jvbTracks \cap c.peers)

\* Media is sent to the bridge exactly while the P2P connection is not used, however the
\* JVB invitation and its result interleave with the P2P session.
MediaOnOneConnection ==
  \A e \in Members : conf[e].jvb = "live" /\ ~conf[e].parked => conf[e].jvbMedia = ~conf[e].p2p

\* A deferred start is for the only participant there is, with no session yet
\* (deferredStartP2PTask); a switch of the encryption leaves it aside.
DeferredIsCurrent ==
  \A e \in Members : conf[e].deferred # None /\ conf[e].toggles = 0 =>
    conf[e].peers = {conf[e].deferred} /\ conf[e].session = None

\* Two participants that are in P2P mode with each other use the same session.
PeersAgree ==
  \A e, q \in Members :
    /\ conf[e].p2p /\ conf[q].p2p
    /\ Other(e, conf[e].session) = q /\ Other(q, conf[q].session) = e
    => conf[e].session = conf[q].session

\* A P2P call that one side has left does not go on at the other: the session-terminate
\* or the presence ends it, without waiting for ICE to fail (an endpoint that encrypts
\* does not look at presence and has to wait).
HalfCall(e) == /\ Here(e) /\ conf[e].p2p /\ ~conf[e].e2ee
               /\ conf[Other(e, conf[e].session)].session # conf[e].session
HalfCallEnds == \A e \in Endpoint : HalfCall(e) ~> ~HalfCall(e)

\* "A delay given in seconds, before the conference switches back to P2P after the 3rd
\* participant has left": two capable participants that stay alone end up in P2P mode.
BackToP2P ==
  \A e, q \in Capable :
    e # q /\ <>[](Occupants = {e, q} /\ Members = Occupants) => <>[](conf[e].p2p /\ conf[q].p2p)
=============================================================================
