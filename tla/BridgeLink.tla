----------------------------- MODULE BridgeLink -----------------------------
(***************************************************************************)
(* The link to the bridge: the channel of messages (BridgeChannel, RTC),   *)
(* what the application asks for over it (ReceiveVideo), and the handling  *)
(* of a JVB session whose ICE fails (IceFailedHandling).                   *)
(*                                                                         *)
(* The focus ends a session before it starts another, and starts another   *)
(* for one that the client ended.  A socket that is closed here, or whose  *)
(* peer connection is, is gone at once.  The application sets constraints  *)
(* with a lastN and a view.                                                *)
(***************************************************************************)
EXTENDS ReceiveVideo, Sequences, FiniteSets

CONSTANTS
    Deployment, \* how channels are made and what is done about a failed session
    Own,        \* the constraints that an application may set
    MaxSessions, MaxReplaces, MaxSockets, MaxTasks, MaxCalls  \* bounds

Modes == {"websocket", "datachannel"}
Restarts == {"terminate", "notify", "fail"}

ASSUME BridgeLinkAssumption ==
    /\ Deployment \subseteq Modes \X Restarts /\ Own \subseteq Constraints
    /\ {MaxSessions, MaxReplaces, MaxSockets, MaxTasks, MaxCalls} \subseteq Nat

VARIABLES
    mode,     \* of the channels: over a socket or a data channel
    restart,  \* a failed session: terminate it, notify the focus or fail
    room,     \* the conference has not been left
    jvb,      \* the JVB session
    task,     \* the tasks that handle an ICE failure, the cancellable one last
    rtc,      \* RTC's channel, or 0
    chan,     \* the bridge channels there have been
    sock,     \* the sockets there have been
    ctl,      \* the receive video controller
    asked     \* what the application asked for, and by which of the two ways

vars == <<mode, restart, room, jvb, task, rtc, chan, sock, ctl, asked>>

conf == <<mode, restart>>
link == <<rtc, chan, sock>>
wish == <<ctl, asked>>

Present == jvb.state \in {"accepting", "started"}

-----------------------------------------------------------------------------
(* Sockets and channels.                                                   *)

OpenIn(ss, c) == c # 0 /\ chan[c].ref # 0 /\ ss[chan[c].ref].state = "open"

IsOpen(c) == OpenIn(sock, c)

(* The constraints k keeps go out if the channel is open.                  *)
Told(ss, k) ==
    IF OpenIn(ss, rtc) /\ k.cached THEN [ss EXCEPT ![chan[rtc].ref].told = k.obj] ELSE ss

NewChannel(socket) ==
    [ref |-> socket, retries |-> mode = "websocket", byClient |-> FALSE, timer |-> FALSE,
     once |-> FALSE, crossed |-> FALSE]

InitializeBridgeChannel ==
    /\ Len(sock) < MaxSockets
    /\ rtc' = Len(chan) + 1
    /\ chan' = Append(chan, NewChannel(Len(sock) + 1))
    /\ sock' = Append(sock, [of |-> rtc', state |-> "connecting", told |-> Unasked])

WithoutSocket(i) == [sock EXCEPT ![i] = [@ EXCEPT !.state = "gone", !.told = Unasked]]

Gone(c) == IF c = 0 \/ chan[c].ref = 0 THEN sock ELSE WithoutSocket(chan[c].ref)

(* The channel is closed here: it does not retry.                          *)
CloseChannel ==
    /\ sock' = Gone(rtc)
    /\ chan' = IF rtc = 0 THEN chan
               ELSE [chan EXCEPT ![rtc] = [@ EXCEPT !.byClient = TRUE, !.timer = FALSE,
                                                    !.retries = FALSE, !.ref = 0]]

CloseBridgeChannel == CloseChannel /\ rtc' = 0

(* The channel goes with its peer connection, if that carries it.          *)
PeerConnectionCloses ==
    IF mode = "websocket" THEN UNCHANGED <<chan, sock>>
    ELSE /\ sock' = Gone(rtc)
         /\ chan' = IF rtc = 0 THEN chan ELSE [chan EXCEPT ![rtc].ref = 0]

(* Faulty: retries are not enabled again.                                  *)
OpenedForGood(ch) == IF ch.once THEN [ch EXCEPT !.timer = FALSE, !.once = FALSE] ELSE ch

(* A channel that opens ends the retries of every channel waiting for one. *)
Opened(ch) ==
    IF ch.once THEN [ch EXCEPT !.timer = FALSE, !.once = FALSE, !.retries = TRUE] ELSE ch

(* An open socket: RTC's channel tells the bridge what is asked of it,     *)
(* whichever channel the socket is of.                                     *)
SocketOpens(i) ==
    /\ sock[i].state = "connecting"
    /\ sock' = Told([sock EXCEPT ![i].state = "open"], ctl)
    /\ chan' = [c \in DOMAIN chan |->
           [Opened(chan[c]) EXCEPT !.crossed = chan[c].ref # i /\ (@ \/ chan[c].once)]]
    /\ UNCHANGED <<conf, room, jvb, task, rtc, wish>>

(* A socket is closed by the other side or never opened.  Its channel      *)
(* retries, and loses its socket even if that is another by now.           *)
SocketCloses(i) ==
    LET c == sock[i].of
        ch == chan[c]
        retry == mode = "websocket" /\ ~ch.byClient /\ ch.retries
    IN
    /\ sock[i].state \in {"connecting", "open"}
    /\ sock' = WithoutSocket(i)
    /\ chan' = [chan EXCEPT ![c] =
           [ref |-> 0, retries |-> ch.retries /\ ~retry, byClient |-> ch.byClient,
            timer |-> ch.timer \/ retry, once |-> ch.once \/ retry,
            crossed |-> ch.crossed \/ ch.ref \notin {0, i}]]
    /\ UNCHANGED <<conf, room, jvb, task, rtc, wish>>

(* The next attempt is made after a longer time, until one is open.        *)
Retry(c) ==
    /\ chan[c].timer
    /\ IF IsOpen(c) THEN /\ chan' = [chan EXCEPT ![c].timer = FALSE]
                         /\ UNCHANGED sock
       ELSE /\ Len(sock) < MaxSockets
            /\ sock' = Append(sock, [of |-> c, state |-> "connecting", told |-> Unasked])
            /\ chan' = [chan EXCEPT ![c].ref = Len(sock) + 1]
    /\ UNCHANGED <<conf, room, jvb, task, rtc, wish>>

-----------------------------------------------------------------------------
(* The JVB session and its transport.                                      *)

SessionInitiate ==
    /\ room /\ ~Present /\ jvb.sessions < MaxSessions
    /\ jvb' = [jvb EXCEPT !.state = "accepting", !.ice = "new", !.reconnect = FALSE,
                          !.replacing = 0, !.broken = FALSE, !.handled = FALSE,
                          !.sessions = @ + 1]
    /\ InitializeBridgeChannel
    /\ UNCHANGED <<conf, room, task, wish>>

MediaStarted ==
    /\ jvb.state = "accepting"
    /\ jvb' = [jvb EXCEPT !.state = "started"]
    /\ ctl' = MediaSessionStarted(ctl)
    /\ sock' = Told(sock, ctl')
    /\ UNCHANGED <<conf, room, task, rtc, chan, asked>>

(* onCallEnded of RTC: a socket is closed, a data channel is not.          *)
OnCallEnded ==
    IF mode = "websocket" THEN CloseBridgeChannel ELSE PeerConnectionCloses /\ rtc' = 0

SessionTerminate ==
    /\ Present
    /\ jvb' = [jvb EXCEPT !.state = "none"]
    /\ OnCallEnded
    /\ UNCHANGED <<conf, room, task, wish>>

(* The focus moves the session to another bridge.  Tasks of the session's  *)
(* queue set the new transport, or fail to.                                *)
TransportReplace ==
    /\ Present /\ jvb.replaces < MaxReplaces
    /\ jvb' = [jvb EXCEPT !.replacing = @ + 1, !.replaces = @ + 1]
    /\ CloseBridgeChannel
    /\ UNCHANGED <<conf, room, task, wish>>

TransportReplaced ==
    /\ Present /\ jvb.replacing > 0
    /\ jvb' = [jvb EXCEPT !.replacing = @ - 1, !.ice = "new", !.broken = FALSE]
    /\ InitializeBridgeChannel
    /\ UNCHANGED <<conf, room, task, wish>>

TransportFails ==
    /\ Present /\ jvb.replacing > 0
    /\ jvb' = [jvb EXCEPT !.replacing = @ - 1, !.broken = rtc = 0]
    /\ UNCHANGED <<conf, room, task, link, wish>>

(* The last task is cancelled: its timer, or what its ping would start.    *)
Cancelled(ts) ==
    LET last == Len(ts) IN
    IF ts = <<>> THEN ts
    ELSE IF ts[last] = "waiting" THEN [ts EXCEPT ![last] = "done"]
    ELSE IF ts[last] = "pinging" THEN [ts EXCEPT ![last] = "canceled"] ELSE ts

Leave ==
    /\ room
    /\ room' = FALSE
    /\ CloseBridgeChannel
    /\ task' = Cancelled(task)
    /\ jvb' = [jvb EXCEPT !.state = "none"]
    /\ UNCHANGED <<conf, wish>>

-----------------------------------------------------------------------------
(* ICE of the JVB session and the handling of its failure.                 *)

IceConnected ==
    /\ Present /\ jvb.ice # "connected"
    /\ jvb' = [jvb EXCEPT !.ice = "connected", !.reconnect = FALSE, !.handled = FALSE]
    /\ task' = IF jvb.reconnect \/ restart = "terminate" THEN Cancelled(task) ELSE task
    /\ UNCHANGED <<conf, room, link, wish>>

IceDisconnected ==
    /\ Present /\ jvb.ice = "connected"
    /\ jvb' = [jvb EXCEPT !.ice = "disconnected", !.reconnect = TRUE]
    /\ UNCHANGED <<conf, room, task, link, wish>>

(* Faulty: a task that is still about is taken to handle the new failure.  *)
IceFailedOnce ==
    /\ Present /\ jvb.ice \in {"new", "disconnected"} /\ Len(task) < MaxTasks
    /\ jvb' = [jvb EXCEPT !.ice = "failed"]
    /\ task' = IF \E t \in DOMAIN task : task[t] # "done" THEN task
               ELSE Append(task, "pinging")
    /\ UNCHANGED <<conf, room, link, wish>>

IceFailed ==
    /\ Present /\ jvb.ice \in {"new", "disconnected"} /\ Len(task) < MaxTasks
    /\ jvb' = [jvb EXCEPT !.ice = "failed"]
    /\ task' = Append(task, "pinging")
    /\ UNCHANGED <<conf, room, link, wish>>

(* XMPP answers, and ICE has two more seconds.                             *)
Pong(t) ==
    /\ task[t] \in {"pinging", "canceled"}
    /\ task' = [task EXCEPT ![t] = IF @ = "canceled" THEN "done" ELSE "waiting"]
    /\ UNCHANGED <<conf, room, jvb, link, wish>>

(* XMPP does not answer: nothing is said of the failure.                   *)
NoPong(t) ==
    /\ task[t] \in {"pinging", "canceled"}
    /\ task' = [task EXCEPT ![t] = "done"]
    /\ jvb' = [jvb EXCEPT !.handled = @ \/ jvb.ice = "failed"]
    /\ UNCHANGED <<conf, room, link, wish>>

(* The focus is told of a failure, if there still is one.                  *)
SendIceFailedNotification ==
    [jvb EXCEPT !.handled = @ \/ (room /\ jvb.ice = "failed")]

(* The session of the moment is terminated, or the focus is told.          *)
ActOnIceFailed(t) ==
    LET ended == restart = "terminate" /\ Present /\ jvb.ice # "connected" IN
    /\ task[t] = "waiting"
    /\ task' = [task EXCEPT ![t] = "done"]
    /\ jvb' = IF ended THEN [jvb EXCEPT !.state = "ended"]
              ELSE SendIceFailedNotification
    /\ IF ended THEN PeerConnectionCloses ELSE UNCHANGED <<chan, sock>>
    /\ UNCHANGED <<conf, room, rtc, wish>>

-----------------------------------------------------------------------------
(* What the application asks for.                                          *)

Ask(c, way, what) ==
    /\ room /\ asked.calls < MaxCalls
    /\ ctl' = c
    /\ asked' = [what EXCEPT !.calls = @ + 1, !.ways = @ \union {way}]
    /\ UNCHANGED <<conf, room, jvb, task, rtc, chan>>

SetLastN(n) ==
    /\ n # asked.lastN
    /\ Ask(WithLastN(ctl, n), "values", [asked EXCEPT !.lastN = n])
    /\ sock' = IF ctl'.rvcLastN # ctl.rvcLastN THEN Told(sock, ctl') ELSE sock

SelectEndpoints(ids) ==
    /\ Ask(WithSelected(ctl, ids), "values",
           IF ids = {} THEN asked ELSE [asked EXCEPT !.view.shown = ids])
    /\ sock' = IF ctl'.obj # Updated(ctl).obj THEN Told(sock, ctl') ELSE sock

SetPreferredReceiveMaxFrameHeight(h) ==
    /\ Ask(WithHeight(ctl, h, jvb.state # "none"), "values", [asked EXCEPT !.view.height = h])
    /\ sock' = IF ctl'.rvcHeight # ctl.rvcHeight THEN Told(sock, ctl') ELSE sock

SetReceiverConstraints(own) ==
    /\ Ask(WithConstraints(ctl, own), "own", [asked EXCEPT !.own = own])
    /\ sock' = IF ctl.obj # own THEN Told(sock, ctl') ELSE sock

-----------------------------------------------------------------------------
Init ==
    /\ \E d \in Deployment : mode = d[1] /\ restart = d[2]
    /\ room = TRUE
    /\ jvb = [state |-> "none", ice |-> "new", reconnect |-> FALSE, handled |-> FALSE,
              replacing |-> 0, broken |-> FALSE, sessions |-> 0, replaces |-> 0]
    /\ task = <<>> /\ rtc = 0 /\ chan = <<>> /\ sock = <<>>
    /\ \E n \in LastN :
         /\ ctl = NewController(n)
         /\ asked = [lastN |-> n, view |-> [shown |-> {}, height |-> OnStage],
                     own |-> Unasked, ways |-> {}, calls |-> 0]

Next ==
    \/ \E i \in DOMAIN sock : SocketOpens(i) \/ SocketCloses(i)
    \/ \E c \in DOMAIN chan : Retry(c)
    \/ SessionInitiate \/ MediaStarted \/ SessionTerminate
    \/ TransportReplace \/ TransportReplaced \/ TransportFails \/ Leave
    \/ IceConnected \/ IceDisconnected \/ IceFailed
    \/ \E t \in DOMAIN task : Pong(t) \/ NoPong(t) \/ ActOnIceFailed(t)
    \/ \E n \in LastN : SetLastN(n)
    \/ \E ids \in SUBSET Endpoint : SelectEndpoints(ids)
    \/ \E h \in Height : SetPreferredReceiveMaxFrameHeight(h)
    \/ \E own \in Own : SetReceiverConstraints(own)

Spec == Init /\ [][Next]_vars

-----------------------------------------------------------------------------
Session ==
    [state : {"none", "accepting", "started", "ended"},
     ice : {"new", "connected", "disconnected", "failed"},
     reconnect : BOOLEAN, handled : BOOLEAN, replacing : 0 .. MaxReplaces,
     broken : BOOLEAN, sessions : 0 .. MaxSessions, replaces : 0 .. MaxReplaces]
Channel == [ref : Nat, retries : BOOLEAN, byClient : BOOLEAN, timer : BOOLEAN,
            once : BOOLEAN, crossed : BOOLEAN]
Socket == [of : Nat, state : {"connecting", "open", "gone"}, told : Constraints]
Request == [lastN : LastN, view : [shown : SUBSET Endpoint, height : Height],
            own : Constraints, ways : SUBSET {"values", "own"}, calls : 0 .. MaxCalls]

(* The values of the variables; RTC's channel is the last one.             *)
TypeOK ==
    /\ mode \in Modes /\ restart \in Restarts /\ room \in BOOLEAN
    /\ jvb \in Session
    /\ task \in Seq({"pinging", "canceled", "waiting", "done"})
    /\ chan \in Seq(Channel) /\ sock \in Seq(Socket) /\ rtc \in {0, Len(chan)}
    /\ ctl \in Controller /\ asked \in Request

(* What the application asked for.  Its own constraints lose their lastN   *)
(* when a session starts after them.                                       *)
Wishes ==
    IF "own" \in asked.ways
    THEN {[asked.own EXCEPT !.lastN = n] : n \in {asked.own.lastN, ctl.rvcLastN}}
    ELSE {[lastN |-> asked.lastN,
           view |-> IF asked.view.shown = {} THEN NoView ELSE asked.view]}

(* The bridge at the other end of the channel was told what the            *)
(* application last asked for, before the channel opened, while it was     *)
(* down or since, if the application keeps to one way of asking.           *)
BridgeTold ==
    IsOpen(rtc) /\ jvb.state = "started" /\ Cardinality(asked.ways) = 1 =>
        sock[chan[rtc].ref].told \in Wishes

(* A session has a channel unless its transport is being replaced or could *)
(* not be, and the channel over a socket is up, on its way, or tried       *)
(* again, unless another socket's opening or closing was taken for its own *)
ChannelComesBack ==
    /\ Present => rtc # 0 \/ jvb.replacing > 0 \/ jvb.broken
    /\ rtc # 0 /\ mode = "websocket" =>
         LET ch == chan[rtc] IN ch.timer \/ (ch.ref # 0 /\ ch.retries) \/ ch.crossed

(* A failure of ICE is being handled or has been, unless ICE connected     *)
(* again or XMPP is gone too.                                              *)
FailureHandled ==
    Present /\ jvb.ice = "failed" =>
        \/ jvb.handled
        \/ \E t \in DOMAIN task : task[t] \in {"pinging", "waiting"}

=============================================================================
