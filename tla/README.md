# Verification of lib-jitsi-meet

TLA+ models of the parts of lib-jitsi-meet whose correctness depends on the
order of things: promises, callbacks, timers, stanzas of other participants.
TLC checks them on small instances, TLAPS proves the properties that matter
most for every value of the constants. Source paths are relative to the
repository; `JitsiConference.js:3478` names a line of it.

## 1. Inventory

lib-jitsi-meet runs in one JavaScript thread per participant. There is no
parallelism inside an endpoint, but every `await`, promise, timer, WebRTC
callback and stanza handler is a point where another handler runs. Between
endpoints everything is concurrent; the XMPP server orders the stanzas of one
stream.

| Component | State it keeps | Operations | What makes it correct |
|---|---|---|---|
| `AsyncQueue` | pending tasks, worker (concurrency 1), `_stopped` | push, clear, shutdown | one task at a time, in order, none after shutdown, every task calls back |
| `JingleSessionPC` | state (pending/active/ended), modification queue, cached SDPs, local and remote video activity, receive constraint | invite, acceptOffer, setAnswer, replaceTransport, add/replace/mute/unmute tracks, remote streams, content-modify, terminate, close | the peer knows the sources and the video preference; an ended session tells the peer nothing and closes its peer connection; callers hear of results |
| `TraceablePeerConnection`, `TPCUtils` | local and remote tracks, descriptions, transceivers | addTrack, replaceTrack, mute/unmute, set descriptions, close | descriptions and attached tracks agree; closed once |
| `strophe.jingle` | sessions by sid | dispatch of jingle IQs, terminate | an IQ reaches the session it is for, and no ended one |
| `JitsiConference` (P2P and JVB) | participants, `p2p`, `p2pJingleSession`, `jvbJingleSession`, `deferredStartP2PTask` | member joined/left, calls, ICE events, restart, leave | P2P only with exactly one peer; media and tracks of exactly one connection; back to P2P when alone |
| `IceFailedHandling` | ping, timer, cancelled | start, cancel | only a session that is still broken is restarted |
| `XmppConnection`, `ResumeTask`, `strophe.ping`, `NetworkInfo` | status, deferred IQs, resume timer, network listener, failed pings | connect, disconnect, sendIQ2, resume, ping | a dropped connection is resumed or reported; IQs settle in time |
| `xmpp.js`, `JitsiConnection` | connection attempts, credentials | connect, status handler | one outcome reported per attempt |
| `moderator.js` (focus) | session id, back-off timers | conference request, retry, authentication | one conference allocation, retried until granted |
| `ChatRoom`, `strophe.emuc`, `Caps`, `Lobby`, `BreakoutRooms` | members, presence, role, lobby and breakout rooms | presence, join, leave, kick | joined and left events match the room |
| `AVModeration`, `SignalingLayerImpl` | who may unmute, mute state by presence | presence and message handlers | events follow the last presence |
| `RTC`, `BridgeChannel` | channel, queue of pending choices, retry timer | open, close, send | what was asked before the channel opened is sent after |
| `ReceiveVideoController`, `SendVideoController` | constraints, last N, media sessions | set constraints, session added | each session gets the last constraint |
| `JitsiLocalTrack` | mute chain, effect in progress, stream | mute, unmute, setEffect, dispose | operations take effect in call order |
| `ParticipantConnectionStatus`, `TrackStreamingStatus` | timers per track, RTC mutes | track and rtc events | the status follows the last event when timers have run |
| E2EE (`KeyHandler`, `ManagedKeyHandler`, `OlmAdapter`, `Context`) | enabled, key, key index, olm sessions | set enabled, ratchet, rotate | keys reach whoever is present; one change at a time |
| Recording, `VideoSIPGW` | sessions and their status | presence handlers | one session per id |
| `ProxyConnectionService`, `ProxyConnectionPC` | a jingle session between two own endpoints | IQ exchange | one peer at a time |
| SDP utilities, statistics, detection, transcription, browser helpers | - | text transformation, periodic sampling | data only |

Interactions: `JitsiConference` calls its sessions and hears of them through
`XMPPEvents` (CALL_ACCEPTED, CALL_ENDED, CONNECTION_ICE_FAILED, ...);
`strophe.jingle` turns IQs into calls on sessions; a session pushes tasks on
its `AsyncQueue`, whose tasks wait for WebRTC; presence reaches the conference
through `ChatRoom`; `KeyHandler` restarts the media sessions.

The hard behaviours, each with its line, are the hazards of PROJECT.json.

## 2. Plan

Done, in this order:

1. `AsyncQueue`, `JingleSession` with proofs: the queue everything goes through.
2. `P2PConference`: the switching protocol of several endpoints.
3. `XmppConnection` with proofs; `KeepAlive` on top of it.
4. `KeyRing`, `KeyExchange`: the keys of end-to-end encryption.
5. `Room`: conference request, join, presence, lobby.
6. `LocalTracks`; `VideoStatus`, `RemoteTracks`: both directions of the media.
7. `ReceiveVideo`, `BridgeLink`: the channel to the bridge, what is asked over
   it, and the failure of ICE.
8. `VideoSdp`, `LocalDescription`: from the browser's description to the peer's.
9. `Recording`, `AVModeration`, `ConferenceServices`.

Left:

* proofs: `KeysAgree` of `KeyExchange`, which needs the keys under way as well;
  `PresenceTellsTracks` and `SessionsSend` of `LocalTracks`; `LocalDescription`.
  `Room` is built on folds and `SelectSeq`, of which the provers know nothing;
* modules: the proxy connection, breakout rooms, several local video tracks
  (multi-stream) in `LocalTracks`.

Which module uses which: `KeepAlive` extends `XmppConnection`; `KeyExchange`
extends `KeyRing`, `RemoteTracks` `VideoStatus`, `BridgeLink` `ReceiveVideo`,
`LocalDescription` `VideoSdp`, and `ConferenceServices` `Recording` and
`AVModeration`. `JingleSession` implements `AsyncQueue` (an INSTANCE with a
refinement mapping). Each `MC` module gives one of them its values.

## 3. Modules

**AsyncQueue** is the abstract specification of `modules/util/AsyncQueue.js`
with the `async` library's worker: `Push`, `Begin`, `Finish`, `ClearAndStop`.

**JingleSession** is one `JingleSessionPC`, in any of three roles (session
with the bridge, initiator or responder of a P2P session) and with either SDP
format. Descriptions are sets of sources; `NoSdp` is "no description yet".

| State | Code |
|---|---|
| `state`, `held` | `JingleSession.state`; the conference's reference |
| `queue`, `running`, `stopped` | `modificationQueue`; `running` also has the phase, i.e. the promise the task waits for, and `old`, the description it read at its start |
| `outcome`, `nops` | what the callers have heard |
| `pcClosed`, `attached`, `local`, `remote` | the peer connection |
| `signal` | what the peer knows, `_cachedOldLocalSdp`, `_cachedNewLocalSdp` |
| `localVideoActive`, `remoteVideoActive`, `recvConstraint`, `told` | video preference, and what the last content-modify said |
| `connected` | the XMPP connection |
| `lost` | history: what a failure made the peer miss, and the code never repeats |

Calls and messages push a task (`Invite` ... `AddIceCandidates`); `StartTask`
and its siblings are the first turn of a task; `MediaOk`, `CycleOk`,
`OfferOk` and so on are the settling of the promise it waits for, each with a
failing twin; `Terminate`, `RemoteTerminate`, `Leave` end the session at any
point in between.

**P2PConference** is the switching part of `JitsiConference` at every
endpoint of a room, with the server between them. `conf[e]` is the conference
of endpoint e, `inbox[e]` the stanzas under way to it. A handler is an action
that computes the next conference with the function named after the method it
calls (`MaybeStartOrStopP2P`, `StartP2PSession`, `StopP2PSession`), and says
goodbye to the session it gave up. The JVB session is seen through its
invitation, its acceptance and the remote tracks it brings; only endpoints in
`Followed` have one, since nothing in the switching depends on it. A real
participant may take the place of a poltergeist (`BotJoins`, then `Join`).

Faults are switched by a constant: "ice" (P2P connections fail at any time),
"force" (the responder insists on the bridge: `forceJVB121Ratio`), "late" (an
invite task outlives its session and still sends), "stale" (a stopped
session's peer connection reports a failure before it is closed).

**XmppConnection** is the connection of one client: `XmppConnection`,
`ResumeTask`, `NetworkInfo` and the part of `xmpp.js` that talks to the
application.

| State | Code |
|---|---|
| `status` | `XmppConnection._status` ("none": not connected yet) |
| `token` | `streamManagement.getResumeToken()`; the plugin is external |
| `task` | `_resumeTimeout` ("fired" is set but run), the number of network listeners the task has added, whether it still has the remover of the last |
| `online` | `NetworkInfo._current` |
| `app` | `connectionFailed`, `disconnectInProgress` and the last event of the application |
| `iq` | each call of `sendIQ2`: where the IQ is, its promise, when it was asked for, when its timer fires |
| `now`, `losses`, `changes` | the clock of the IQ timers, and bounds |

Strophe calls `_stropheConnectionCb` from inside its own functions, so each
action is a whole callback: `Connected` sends the deferred IQs, cancels the
resume task and resets the flags of `xmpp.js`; `AttemptFails` is CONNFAIL and
the DISCONNECTED after it; `Drop` is the loss of an established connection,
also when the ping plugin kills it; `Disconnect` reports DISCONNECTED at once
unless a stream has to be closed first (`Closed`). While there is a token
`LoseConnection` hides the loss and schedules the task. The resume delay is
random, so `ResumeConnection` may run at any time. What the plugin's
`resume()` does on a connection that is up cannot be told from this
repository; `Resume` allows a refusal as well as a new start.

**KeepAlive** adds the pings to `XmppConnection`: `ping` is
`PingConnectionPlugin` (its interval, `failedPings`, whether `_lastServerCheck`
is set, the pings sent on this connection and on an older one), `heard` is
`_lastSuccess` against the last check, `dead` a server that is out of reach
while the socket looks open. Every step of the connection starts or stops the
interval with the status (`OnStatus`); a ping too many closes the websocket
(`CloseWebsocket`), which is `Drop` of `XmppConnection`. A ping times out before
the next is due (5 s against 10 s by default).

**KeyRing** is `modules/e2ee/Context.js`: operators on the ring of keys of one
participant (`SetKey`, `Encode`, ratcheting on decryption within the window).
**KeyExchange** puts one behind each pair of endpoints. `ep[e]` is
`KeyHandler`, `ManagedKeyHandler` and `OlmAdapter` of an endpoint: enabled or
not, the calls of `setEnabled` waiting on each other, key and index, requests
and what waits for them, a session per participant. `net[e][p]` is the ordered
stream of presence and messages between two. What a promise continues with runs
before the next event, so events of e wait for `Idle(e)`. Requests may time out
and be answered late (`Late`).

**Room** has the conference of each client (`cl[c]`: the focus request, the
`ChatRoom` of the main room and of the lobby, what the application knows of
participants and knockers) and the multi-user chat service (`srv`, external):
occupants, owner, members-only, and the stanzas under way. A connection may drop
and resume, with or without the presence that was sent. A client has one
conference at a time. The service is modelled from what the handlers expect.

**LocalTracks** has the tracks (`trk`: stream, effect, the chain
`_prevSetMuted`), the conference (`conf`: its tracks, mutes by the focus, what
presence says and what was sent), the sessions (`ses`: queue, sender, direction,
tracks) and the calls of the application that wait. It assumes unified plan, a
browser that mutes a camera by removing its stream, one track of a kind, source
names not signalled, media not suspended, and an application that waits for a
call on a kind of media before the next (`Careful`).

**VideoStatus** computes the status of a remote video from what a detector
looks at, and keeps its timers; **RemoteTracks** has the rest: presence of the
owners, the sessions with their described sources, tasks and tracks, what the
application is shown, what the bridge forwards. The same detectors
serve participants (`ParticipantConnectionStatus`) and tracks
(`TrackStreamingStatus`); `names`, chosen at the start, says which. Time is counted in units, one
timeout each. An owner joins and leaves once and has one source per session;
presence comes before sources.

**ReceiveVideo** is `ReceiveVideoController` and its constraints object, which
is mutable and shared; **BridgeLink** is the rest of the way: channels and
sockets (`chan`, `sock`, the channel of `RTC`), the JVB session and its ICE
state, the tasks of `IceFailedHandling`. A socket knows which channel it is of
and what the bridge was told over it. The focus ends a session before it starts
another. Only the new bandwidth strategy is modelled.

**VideoSdp** is the text transformation of a video section as operators: sources
in the order of their lines, which carry an msid, the groups; `SdpSimulcast`,
`RtxModifier`, `SdpConsistency`, `LocalSdpMunger`, `SDPDiffer` and the reading of
source-add and source-remove. **LocalDescription** is a session that goes through
its tasks with them: the browser (external) gives a section new sources when it
sends again, `TraceablePeerConnection` rewrites, the difference is sent, the
peer makes of it what `JingleSessionPC` does. A task is one step: what gets
between tasks and fails is the subject of `JingleSession`.

**Recording** has the sessions of `RecordingManager` and of `VideoSIPGW`, and
**AVModeration** one kind of media of the class of that name; both as operators.
**ConferenceServices** is one client with them, its requests (`up`), and the
stream of answers, presence and messages to it (`down`). The focus, the Jibris,
the moderation component and other participants are external: the focus answers
before or after the presence that tells of the change, refuses what it likes,
and may be replaced by one that knows nothing.

The theorems are in modules of their own: **JingleSessionProofs**,
**XmppConnectionProofs** (with those of `KeepAlive`), **P2PConferenceProofs**,
**BridgeLinkProofs**, **RemoteTracksProofs**, **KeyExchangeProofs**,
**LocalTracksProofs** and **ConferenceServicesProofs**. A module with variables
states its type invariant as `TypeOK` (`PingTypeOK` in `KeepAlive`, for what it
adds); that of `ConferenceServices` is stated with its proofs. Definitions whose
comment starts with "Faulty" are deliberate errors:
replacing the definition that follows with one of them breaks the property
PROJECT.json names for it.

## 4. Runs

| Run | Checks | Bounds | Distinct states |
|---|---|---|---|
| `jingle` | `PeerKnowsSources`, `PeerKnowsVideoPreference`, `ClosedIsQuiet`, `ImplementsAsyncQueue`, `EndedClosesPc`, `CallersHear` | two sources, all roles and formats, multi-stream, all faults, three operations | 496,000 |
| `jingle_stall` | `TaskCallsBack` is violated | two sources, bridge session | - |
| `p2p` | `P2POnlyForTwo`, `ActiveTracksShown`, `MediaOnOneConnection`, `DeferredIsCurrent`, `PeersAgree` | three endpoints (the third may be a bot first), all faults, one switch of encryption | 966,000 |
| `p2p_live` | `HalfCallEnds`, `BackToP2P` | three endpoints, no faults | 13,000 |
| `xmpp` | `LossIsHandled`, `NoSendAfterSettled`, `GivenUpStaysDown`, `ResumedOrReported`, `DeadLinkNoticed` | one IQ with timeout 1, two ticks, three losses, two network reports, two failed pings | 568,000 |
| `e2ee` | `KeysAgree`, `LeaverLockedOut`, `SessionsAgree` | three endpoints, two of which encrypt; one switches on and off, the other on; one new key each, late session-inits, a ring of two keys | 2,300,000 |
| `room` | `ParticipantsMatch`, `PresenceTold`, `LobbyAttended` | two clients that join twice, three acts on the room (kicks, roles, lobby); one of them drops once and changes its presence once | 3,600,000 |
| `tracks` | `PresenceTellsTracks`, `SessionsSend`, `FocusMuteHolds` | a microphone, a camera that may have an effect and a desktop, two sessions that start once, three calls about the video | 2,200,000 |
| `remote` | `MutedAsTold`, `TracksKept`, `StatusCurrent`, no deadlock | one owner with two changes of presence, two sessions, four timeouts of 1 to 3 units | 878,000 |
| `bridge` | `BridgeTold`, `ChannelComesBack`, `FailureHandled` | two sessions, three sockets, one transport-replace, two failures of ICE, two calls, three deployments | 5,600,000 |
| `sdp` | `PeerDescribes`, `SameSources`, `TrackTold`, `TrackKnowsSsrc` | a camera and a desktop, seven tasks, three layers, five kinds of connection | 75,000 |
| `services` | `RecordingShown`, `CallHasSession`, `ApprovalsShown` | two recordings, one SIP address, the user and one other, four acts, one of others, one replaced focus, two stanzas under way | 3,300,000 |

Why the bounds are enough:

* `jingle`: three operations are a task that runs, one that waits and one that
  comes after the session ended; two sources allow a diff that adds one and
  removes the other, and the nested `addTracks`.
* `p2p`: three endpoints are the least for which P2P has to stop and come back.
  An endpoint joins and leaves once, so it has a few sessions, which are told
  apart by their sid.
* `xmpp`: IQs do not look at each other, so one is enough; it can wait and be
  sent, or time out, before or after. Three losses give a drop and two failed
  attempts, the least that leaves a listener of the resume task behind.
* `e2ee`: the third endpoint does not encrypt, but learns and may leave with a
  session; the first two meet in every order of joining and switching. Numbers
  of keys beyond two only repeat the ring.
* `room`: one moderator and one guest; a second join finds what the first left
  behind in listeners, hooks and members.
* `tracks`: a replacement with a mute on either side of it is three calls; two
  sessions are all there are. The microphone is there for the presence, in which the
  kinds meet: it is told of when a session starts, whatever was done to the video
  by then, so that a pass over the tracks finds it changed and the last track not.
  What is called on it goes the way of the screen's calls.
* `remote`: participants are independent of each other except for what the
  bridge forwards, which is arbitrary. The timeouts differ where the code's do.
* `bridge`: three sockets are one, its successor after a loss, and one of a
  second session; the second session may start with the first one's socket,
  failure task and constraints still about.
* `sdp`: seven tasks are add, mute, unmute, suspend, resume, replace, remove; the
  state space closes under more, up to the numbers of fresh sources.
* `services`: a second recording after a first that went wrong; the answer of
  one request and the presence of another under way together.

Deadlock is checked in `remote`, where time and reports never end. Elsewhere a
session that has ended, a room everybody has left and a bound that is spent stop
for good.

## 5. Fairness

`JingleSession`: weak fairness of the worker. The event loop runs a task that
can run, and the WebRTC promises settle, one way or the other. Nothing is
assumed of callers, the peer or the network.

`P2PConference`: weak fairness of stanza delivery, queued tasks and timers,
and of `IceConnected`: two peers that have negotiated get connected. Without
the last `BackToP2P` would not be about this code but about the network. No
fairness for joins, leaves, failures or JVB invitations.

`KeepAlive`: weak fairness of the timers (resumption, the ping interval, the
timeout of a ping), of `Closed` (Strophe ends a disconnect with a timeout of its
own) and of the end of an attempt: the server accepts the stream or refuses it
for good, at the latest when it has forgotten it (`IceFailedHandling.js:101`
speaks of 65 seconds). `ResumedOrReported` has the premise that the network
stays up in the end; nobody makes it. `DeadLinkNoticed` needs no more than the
pings.

All other modules have `Init /\ [][Next]_vars` and safety properties only. Where
the property is about the end of something ("once nothing is under way") it is
an invariant with that premise, so it holds whether or not the rest comes.

## 6. Disagreements and exceptions

`jingle_stall`: with multi-stream support `invite()` and
`setOfferAnswerCycle()` wait, inside a task, for `addTracks()`, whose task waits
behind them. `AsyncQueue.js:38` says the task MUST call back. Two local video
tracks are enough.

The properties except states the code does not bring back in order. A history
variable or a premise names each, so that everything else is checked. In the
order of the runs:

* **Sessions.** `lost`: a message sent offline, or after a failed
  renegotiation, is not repeated. `Hung`: behind a task that stalls nobody is
  called. `close()` drops waiting tasks with their callbacks
  (`JingleSessionPC.js:2874`), although `addTrackAsUnmute` promises one of two
  outcomes (2417). A second `close()`, by leaving after a JVB session was
  terminated (`JitsiConference.js:684`), clears a closing task of the first that
  has not begun, and its own is refused by the stopped queue: the peer connection
  stays open. The runs have it; `lost` holds "close" then, and `EndedClosesPc`
  excepts nothing else besides a hung worker.
* **P2P.** Endpoints with encryption on are excepted from `P2POnlyForTwo` and
  `HalfCallEnds`: `_maybeStartOrStopP2P` returns early for them, and a deferred
  start stays set (`JitsiConference.js:3482`). `ActiveTracksShown` and
  `MediaOnOneConnection` except what a restart for encryption leaves: the other
  endpoint does not resume its bridge media "just yet" (2467), and nothing does
  it later. `outdated`: a deferred start that encryption kept from being cleared
  (3479 to 3495) fires after all, and starts a session with somebody who may be
  gone, or not be the only other participant. A session-initiate that leaves after the terminate of its session is
  accepted as a new call; `p2p_live` has no such delay.
* **XMPP.** `ResumeTask.schedule` (60, 66) adds a network listener each time and
  forgets the one before, which may arm an attempt to resume a connection that
  is up. After giving up it does no harm, since `_resumeConnection` looks for
  the token first: that is `GivenUpStaysDown`. A deferred IQ gets the time it
  has waited as its new timeout (`XmppConnection.js:505`) instead of what is
  left of it (561).
* **Encryption.** `orphan`: one side freed a session the other still holds.
  `deaf`: what is remembered of a peer's last key survives switching off
  (`OlmAdapter.js:420`), so the same key sent again is ignored. `raced`: a
  ratchet that waits for its key material overwrites a rotation
  (`ManagedKeyHandler.js:129`, `143`); what the others hold then need not be the
  key in use. `gone`: those whose departure was heard since the key was made that
  such a ratchet had taken; they may know that key, and with it the one in use,
  until the next rotation. `LeaverLockedOut` excepts them in a raced state, and
  speaks of everybody else who has left. A call of `setEnabled` whose
  `initSessions` throws hangs, and all later ones with it
  (`OlmAdapter.js:85`, `KeyHandler.js:78`).
* **Room.** `hooks`: a guest who came through the lobby and is made moderator
  before it has left it does not join it as host (`Lobby.js:192`, `217`).
  `ChatRoom.leave` never rejects, although its documentation says so. A client
  that leaves while its conference request backs off joins all the same once the
  request is granted (`moderator.js:427`, `ChatRoom.js:213`): an occupant
  without a conference, which the properties do not count as a client in the room.
* **Local tracks.** `unsaid`: tracks muted while outside the conference, or on a
  session without their kind. `astray`: tracks whose call failed on one session
  and not the other, ran while a session started, or replaced one the focus was
  muting. `unsent`: `_updateRoomPresence` overwrites `presenceChanged` for each
  track (`JitsiConference.js:3675`), so a change that is not the last track's is
  not sent (3654: "send the packet in case of a modification") until something
  else sends presence; the run reaches it, and `PresenceTellsTracks`, which reads
  what was sent, excepts the kinds it concerns. Two
  concurrent calls may leave two tracks of a kind (against 1116). Disposing a track with an effect
  never stops the device's stream. In `tracks` only
  the camera has effects (`Enhanced`): `setEffect` on a muted video only
  remembers the effect, since "the actual track doesn't exists if it's muted"
  (`JitsiLocalTrack.js:844`). So it is for a camera, whose unmute starts the
  effect (447). A screen keeps its stream: an effect set while it is muted is
  never started, one taken off goes on, and the next change stops what was not
  started and loses the stream (540). The model shows this when the screen is in
  `Enhanced`; no property is about it.
* **Remote tracks.** `Overlooked`: a video that freezes after its last event is
  never looked at again, and one that is restoring for longer than its timer
  stays so.
* **Bridge.** `crossed`: the opening or closing of an older socket changes the
  state of a newer one's channel. `broken`: a transport-replace that fails
  leaves no channel. A getter of `ReceiverVideoConstraints` changes lastN, and
  mixing the two ways of asking is excepted (`asked.ways`). A restart of ICE by
  terminating leaves the old websocket unclosed (`RTC.js:362`).
* **Descriptions.** `lost`: a muted camera added in unified plan is not told. In
  P2P with unified plan a change of direction waits until somebody renegotiates
  (`JingleSessionPC.js:640`). A change of groups alone is never sent.
* **Services.** `lost` recordings, whose focus went away, are shown for ever.
  `astray` SIP sessions: presence of the call before, or a refused request to
  hang up, was taken for their end. The whitelist of moderation is kept when it
  is switched off (`kept`). The check for a repeated recording event compares
  `_error` undefined with null and never matches.

## 7. Proofs

The theorems of `JingleSessionProofs` are for any set of sources, any roles,
formats and faults and any bound on operations, from the assumptions on
constants that `JingleSession` states (`NoTask` is not a task, `NoSource` no
source, the sets are what they are said to be).

* `TypeCorrect`: `Spec => []TypeOK`. One lemma per group of actions; the
  type invariant is inductive as it stands.
* `EndedSessionIsQuiet`: `Spec => []ClosedIsQuiet`. `QueueInv` adds that a
  closing task is in the queue only once it is stopped: without it the worker
  could close the peer connection of a live session.
* `PeerKnowledge`: `Spec => []PeerKnowsSources`. The property speaks of an
  active session; the invariant `SourceInv` speaks of a pending one too, since
  the activation inherits what was sent before. `CacheInv`: nothing is cached
  before the activation, nor while the signalling works. `LocalInv`: the
  description a task read when it started is still the local one while it
  attaches tracks. `KnownInv`: the peer knows the base description, or the
  cached pair leads from what it knows to it. All of it rests on the lemma
  `PatchDiff`: applying the diff of two descriptions to the first gives the
  second.
* `PeerVideoPreference`: `Spec => []PeerKnowsVideoPreference`. `VideoInv` says
  in addition that a pending session has told nothing, so the peer assumes the
  defaults; that is why the activation need only tell what differs from them.
* `QueueRefinement`: `Spec => ImplementsAsyncQueue`, the refinement of
  `AsyncQueue`: the queue is initially empty, and each action of a session is,
  through the mapping, a push, the start or the end of a task, the closing, or a
  stutter. It needs the queue invariant too: the closing task is the last one.

The theorems of `XmppConnectionProofs` are for any set of IQs, any timeout and
any bounds. Their inductive invariant `Inv` joins what each part must know of
the others:

* `OwnsListener`: a listener the task can remove has been added, so the count
  is never negative (`TypeCorrect`).
* `LossTended`: a lost connection with a token has a task that waits and whose
  timeout has not fired yet. The last is what `LossHandled` needs in addition
  to the property: a network report would otherwise meet a timeout that is set
  and never runs again.
* `DownForGood`: once given up there is no token, which makes the forgotten
  listeners harmless (`GivenUpIsDown`).
* `DeferredIsOpen`: an IQ still in the list has an open promise, so sending
  the list sends nothing that was settled (`SettledIsNotSent`).

Of `KeepAlive`, in the same module: `ImplementsConnection` says that a connection with pings
takes only steps of `XmppConnection`; a ping that fails closes the websocket,
which is a loss like others. `PingedLossHandled`, `PingedSettledIsNotSent` and
`PingedGivenUpIsDown` follow. `ConnectionWatched` (`WatchInv`) is about the pings
themselves: a connection that is up, or dead without anybody knowing, has its
interval running.

`P2PConferenceProofs`, for any set of endpoints. Each handler is a function of
one conference, so most of the invariant is about one (`Good`): the fields fit
together, a session is with the only other participant, tracks and bridge media
follow the active connection, a deferred start is for who is there. What a
handler may assume of others is in two parts:

* `StreamOK`: what an endpoint has seen of another agrees with the presence and
  stanzas still to come, an arrival first, a leave last. Without it somebody who
  left could come back as a peer, and a call could come from a stranger.
* A session is between two endpoints of which the smaller id invites; calls
  under way are of sessions between sender and receiver (`MessageOK`).

`SessionOnlyForTwo`, `TracksOfActive`, `MediaOnOne` and `DeferredForTheOther`
follow. The parts for tracks are stronger than the properties: they say what
holds while a JVB session closes or is parked, since the next step may end that.

`PeersAgreeOnSession` is about two conferences and what is under way between
them. An initiator numbers its sessions, so a new one is none of the earlier.
`CallsInv` adds to the invariant:

* `CallsOK`: a session is invited to at most once, by a task that is still to run
  (the invite task of a terminated session included) or has run. Whoever took the
  invitation has it no more in its box, so no session is taken a second time;
  only such a session can be in an accept, and only an answered one carries media.
* `AgreeOK`: while the responder goes on with an answered session, none that the
  initiator has begun since is answered. `PeersAgree` is the case of both using
  theirs.

Each action is one of four turns of a session, `Stays`, `Ends`, `Starts` or
`Takes`; the lemma `CallStep` says that any of them, with boxes that get only
what the sender had to send, keeps the invariant.

`BridgeLinkProofs`, for any endpoints, heights (among which there is a greatest,
as `ReceiveVideo` assumes), deployments and bounds:

* `LinkInv`: channels and sockets own each other, and a channel over a socket
  that may retry is ready to, or waits for one to open; `ComesBack` needs it.
* `WishInv`: what the controller holds is what the application asked for, in
  either way of asking, and what is not kept for the channel is still as it was
  in the beginning; a new channel would otherwise be told nothing.
* `ToldOK`: the bridge at the other end of an open channel was told the object.
  With `WishInv` that is `BridgeIsTold`.
* `FailureIsHandled` is inductive together with `SessionOK`.

`RemoteTracksProofs`, for any owners, changes and timeouts: `SessionsOK` says how
the tracks of a session, its described sources, the event the browser is telling
of and the queued tasks fit together; that a removal is queued behind each
addition that was taken back is what makes `TracksAreKept` inductive. `MutesOK`
adds the source info to `MutedAsTold`. `StatusOK` says of every detector that
its status is the one of now, that a timer will look again, or that a frozen
video is overlooked; and that one which is not needed has no timers
(`StatusIsCurrent`).

`KeyExchangeProofs`, for any endpoints, rings, calls, keys and delays, from the
assumption that `NoKey` is no key. `LeaversLockedOut` is about what somebody may
compute long after it left, so the invariant relates histories:

* `HeardOK`, `NetOK`: keys are numbered by their owner's index; nobody heard of,
  or has under way, one beyond it; nothing comes from who has left after its
  departure, which was its last message.
* `EpOK`: an endpoint that encrypts has a key or is about to make one (or its
  call of `setEnabled` hangs); a call that begins is the one `starting` names;
  with no change of the key under way the key is the one in use.
* `LockedOutOK`: once the departure was received, a rotation is asked for, or
  the key has a number beyond all that were heard, or a call that will make such
  a key is under way, or a ratchet has overwritten it; whoever is not in `gone`
  was never told the key in use, nor the one a ratchet has taken. The lemma `KeepsOut` says what a step must do to keep this
  (`Keeps`); each handler is shown to.

The contexts for other endpoints' keys are left untyped there: decoding tries
keys in a recursion over the window, of which nothing can be proved.

`SessionsAgreed`, in the second part of the same module, is about two endpoints a < b of which only a
invites, the messages between them in both directions, and the calls of
`setEnabled` at either side. It assumes in addition that `NoSession` is no session
("undefined" is no object of Olm). `SInv` is inductive together with the invariant
above:

* `CallsOK`, `AskedOK`: the calls of an endpoint begin in their order, each after
  what it waits for; those that wait want the other state than the last that
  began, or all the same one. Hence no session is freed between two steps that
  rely on it, and an invitation presence asks for does not follow a call that
  switches off.
* `LettersOK`: invitations go only up and answers only down, and nobody who is
  yet to join has sent anything.
* `Ordered`, `Knows`, for each pair: invitations and answers are numbered in their
  order, none is under way once a holds a session, and each knows of the other or
  will hear of it before anything else.
* `Agree`, for each pair but those in `orphan` or with a call that hangs: what a
  holds b holds, or b has freed it and the news is under way; what only b holds a
  will hear of, or b will hear that a freed it; a call that frees is followed by
  "off", and "off" by "on" if the endpoint encrypts again; while both encrypt
  without a session an invitation is under way, or something that will make a
  invite is. With nothing under way this leaves the agreement.

The pair is followed through lemmas on what a message taken (`Shrunk`) or sent
(`Grown`) does to it at the inviter and at the invited (`InviterHears`,
`InvitedAccepts`, ...); `MoveHolds` makes of them what a step of an endpoint must
do to keep the invariant, and each handler is shown to do it.

`LocalTracksProofs`, for any tracks, sessions and bounds. Every function of
`LocalTracks` takes a world and gives one, so the invariant (`WInv`) is one of a
world, and each function is shown to keep it:

* `TracksOK`: a track knows whether it is in the conference, which has it once.
* `ChainOK`: the focus only mutes; a device is waited for only to unmute.
* `CallsOK`: the calls under way are each about a kind of their own, and bring a
  track that is not in the conference. Functions that are in the middle of a call
  keep `InvBut`, the invariant without that call.
* `FocusOK`, of each track that is not `astray`: if the focus muted its kind, it is
  muted, or the sessions are about to be done with its unmute, which will end the
  mute of the focus.

`FocusMuted` follows, since with nothing under way no session is about to do
anything. It assumes `Careful`: two concurrent calls may put the same track into
the conference twice (section 6), and that the tracks present at the start are
different ones. Of what the room is told (`TellTracks`, a fold) the proof needs
only that it changes neither the tracks nor the mute of the focus.

`ConferenceServicesProofs`, for any recordings, addresses, persons and bounds:
what the client shows lags behind the focus by the messages under way. The
invariant says that when all of them have been received, the client will show
what the focus and the moderation component have now (`Foreseen`, a trace of
handlers). Each step of the focus appends to the messages and changes what they
lead to; each message received is the first of the trace. `RecordingIsShown` and
`ApprovalsAreShown` are the case of none under way. `CallsHaveSessions` speaks of
the last presence instead, since the application makes sessions at any time.

Only model-checked:

* `KeysAgree`: beyond the sessions of two endpoints (`SessionsAgreed`) it depends
  on the keys in every message under way and on what the recursive decoding finds.
* The invariants of `Room`, whose operators are folds and `SelectSeq` over
  sequences, and `PresenceTellsTracks`, about what `TellTracks` folds from the
  tracks: what these compute is induction over data.
* `SessionsSend`: it relates the queue of each session, operation by operation, to
  the chains and calls, and what the operations leave when they run is again a
  fold over the queue.
* The invariants of `LocalDescription`: its descriptions are what `SelectSeq` and the
  folds of `VideoSdp` make of the lists of sources and groups, induction again.
* Liveness: `EndedClosesPc`, `CallersHear`, `HalfCallEnds`, `BackToP2P`,
  `ResumedOrReported` and `DeadLinkNoticed`.

The type invariants are proved, so no run repeats them; those of `KeyExchange`,
`Room` and `LocalTracks`, which are not, hold on the instances of their runs
(`INVARIANT TypeOK`). Proved is also `NoStaleError` (`ErrorsAreFresh`): once connected, errors of
earlier attempts are forgotten.

## 8. Not modelled

* Data: codecs, bitrates, encodings, candidates, the translation of Jingle
  elements other than sources and groups, messages of chat and polls,
  cryptography. No property looks at it.
* Browser I/O: enumerating devices and acquiring streams (`RTCUtils`,
  `ScreenObtainer`); what it returns is an input of `LocalTracks`.
* Observers: statistics, connection quality, end-to-end ping, detection of
  silence and noise, analytics. They sample numbers and change nothing.
* Transcription, browser and version helpers: thin wrappers.
* The websocket's shard keep-alive (`XmppConnection.js:447`, a fetch under way
  at the disconnect arms it again), and the record of pings for suspended devices.
* Authentication and login of the focus and of XMPP; breakout rooms; the proxy
  connection, a second and simpler exchange between two own endpoints.
