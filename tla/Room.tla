-------------------------------- MODULE Room --------------------------------
(***************************************************************************)
(* The room and its lobby: ChatRoom, strophe.emuc, Lobby and the focus     *)
(* (moderator.js) of every client, and what JitsiConference makes of them. *)
(*                                                                         *)
(* cl[c] is the state of client c, srv the multi-user chat service (an     *)
(* external component, seen through what the handlers expect of it) with   *)
(* the stanzas under way to each client.  The service handles a stanza as  *)
(* it is sent; what it sends back arrives later, in order.                 *)
(***************************************************************************)
EXTENDS Integers, Sequences, SequencesExt

CONSTANTS
    Client,
    NoClient,
    MaxJoins,     \* bound: calls of join() of one conference
    MaxDrops,     \* bound: interruptions of each connection
    MaxUpdates,   \* bound: changes of each client's own presence
    MaxActs,      \* bound: what the moderators do, and who leaves
    Trusted       \* who may enable the lobby, admit, deny and kick

ASSUME RoomAssumption ==
    /\ {MaxJoins, MaxActs} \subseteq Nat
    /\ {MaxDrops, MaxUpdates} \subseteq [Client -> Nat]
    /\ NoClient \notin Client /\ Trusted \subseteq Client

VARIABLES
    cl, srv,
    conn          \* whether each connection is up, and how often it was lost

vars == <<cl, srv, conn>>

Rooms == {"main", "lobby"}
Away == -1                       \* no presence known
Version == {Away} \cup UNION {0..MaxUpdates[c] : c \in Client}      \* what a presence says, as a version

\* live: the room is in emuc.rooms; timers: timeouts of leave() that run.
Muc == [live : BOOLEAN, joined : BOOLEAN, moderator : BOOLEAN, members : [Client -> Version],
        listeners : Nat, timers : Nat]

Conference ==
    [room : BOOLEAN, focus : Seq({"asked", "wait", "done"}), muc : [Rooms -> Muc],
     only : {"unset", "open", "members"}, lobby : {"none", "guest", "host"}, lobbyJid : BOOLEAN,
     hooks : Nat, parts : SUBSET Client, knocking : SUBSET Client,
     refused : BOOLEAN, pres : Version, dirty : BOOLEAN]

Stanza ==
    [type : {"in", "out", "kick"}, room : Rooms, who : Client, pres : Version, owner : BOOLEAN]
      \cup [type : {"destroyed"}, invite : BOOLEAN]
      \cup [type : {"refused", "gone", "changed", "invite"}]
      \cup [type : {"info"}, only : BOOLEAN]
      \cup [type : {"form"}, enable : BOOLEAN]

Service ==
    [occ : [Rooms -> SUBSET Client], owner : Client \cup {NoClient}, only : BOOLEAN,
     member : SUBSET Client, shown : [Client -> Version],
     acts : 0..MaxActs, down : [Client -> Seq(Stanza)]]

Unjoined == [live |-> FALSE, joined |-> FALSE, moderator |-> FALSE,
             members |-> [c \in Client |-> Away], listeners |-> 0, timers |-> 0]

\* A conference with its ChatRoom, not yet joined.
Fresh == [room |-> TRUE, focus |-> <<>>,
          muc |-> [r \in Rooms |-> [Unjoined EXCEPT !.live = r = "main"]],
          only |-> "unset", lobby |-> "none", lobbyJid |-> FALSE, hooks |-> 0, parts |-> {},
          knocking |-> {}, refused |-> FALSE, pres |-> 0, dirty |-> FALSE]

Init ==
    /\ cl = [c \in Client |-> Fresh]
    /\ srv = [occ |-> [r \in Rooms |-> {}], owner |-> NoClient, only |-> FALSE, member |-> {},
              shown |-> [c \in Client |-> Away], acts |-> 0, down |-> [c \in Client |-> <<>>]]
    /\ conn = [c \in Client |-> [up |-> TRUE, drops |-> 0]]

-----------------------------------------------------------------------------
\* The service.

Tell(s, P, m) == [s EXCEPT !.down = [c \in Client |-> IF c \in P THEN Append(@[c], m) ELSE @[c]]]

Presence(s, r, who) ==
    [type |-> "in", room |-> r, who |-> who, owner |-> s.owner = who,
     pres |-> IF r = "main" THEN s.shown[who] ELSE 0]

\* The newcomer hears of everybody, of itself last; the others hear of it.
Enter(s, c, r) ==
    LET t == [s EXCEPT !.occ[r] = @ \cup {c}]
        u == FoldSet(LAMBDA p, v : Tell(v, {c}, Presence(v, r, p)), t, s.occ[r] \ {c})
    IN  Tell(Tell(u, {c}, Presence(t, r, c)), s.occ[r] \ {c}, Presence(t, r, c))

SrvJoin(s, c, r, pres) ==
    LET t == IF s.occ["main"] = {} THEN [s EXCEPT !.owner = c] ELSE s
    IN  CASE r = "lobby" /\ ~s.only -> Tell(s, {c}, [type |-> "gone"])
          [] r = "lobby" /\ s.only -> Enter(s, c, r)
          [] r = "main" /\ s.only /\ c \notin s.member -> Tell(s, {c}, [type |-> "refused"])
          [] OTHER -> Enter([t EXCEPT !.shown[c] = pres], c, r)

DestroyLobby(s, invite) ==
    [Tell(s, s.occ["lobby"], [type |-> "destroyed", invite |-> invite]) EXCEPT
        !.occ["lobby"] = {}, !.only = FALSE]

\* type "kick": with status 307.  An empty room is gone, and its lobby with it.
SrvLeave(s, c, r, type) ==
    LET out == [type |-> type, room |-> r, who |-> c, pres |-> Away, owner |-> FALSE]
        t == [Tell(s, s.occ[r], out) EXCEPT !.occ[r] = @ \ {c}]
        u == IF r = "main" THEN [t EXCEPT !.shown[c] = Away,
                                          !.owner = IF @ = c THEN NoClient ELSE @] ELSE t
    IN  IF c \notin s.occ[r] THEN s
        ELSE IF r = "main" /\ u.occ["main"] = {}
        THEN [DestroyLobby(u, FALSE) EXCEPT !.member = {}]
        ELSE u

SrvPresence(s, c, pres) ==
    IF c \notin s.occ["main"] THEN s
    ELSE LET t == [s EXCEPT !.shown[c] = pres]
         IN  Tell(t, s.occ["main"], Presence(t, "main", c))

SrvConfigure(s, enable) ==
    LET t == IF s.only /\ ~enable THEN DestroyLobby(s, TRUE) ELSE [s EXCEPT !.only = enable]
    IN  IF s.only = enable THEN s ELSE Tell(t, t.occ["main"], [type |-> "changed"])

SrvInvite(s, c) == [Tell(s, {c}, [type |-> "invite"]) EXCEPT !.member = @ \cup {c}]

\* The focus makes somebody else the owner when the owner has left.
Promote(c) ==
    /\ srv.owner = NoClient /\ c \in srv.occ["main"]
    /\ srv' = LET t == [srv EXCEPT !.owner = c]
              IN  Tell(t, t.occ["main"], Presence(t, "main", c))
    /\ UNCHANGED <<cl, conn>>

-----------------------------------------------------------------------------
\* Functions of the client c on a world w = [k, s]: its state and the service.
\* send() throws while the connection is down.

World(c) == [k |-> cl[c], s |-> srv]

Become(c, w) ==
    /\ cl' = [cl EXCEPT ![c] = w.k]
    /\ srv' = w.s

Up(c) == conn[c].up

Acted(s) == srv' = [s EXCEPT !.acts = @ + 1]

\* Faulty: what was set while joining is not sent.
SendPresenceClean(w, c, fromJoin) ==
    IF ~Up(c) \/ (~w.k.muc["main"].joined /\ ~fromJoin) THEN w
    ELSE [k |-> [w.k EXCEPT !.dirty = FALSE],
          s |-> IF fromJoin THEN SrvJoin(w.s, c, "main", w.k.pres) ELSE w.s]

\* sendPresence of the main room: nothing is sent before the join.
SendPresence(w, c, fromJoin) ==
    IF ~Up(c) \/ (~w.k.muc["main"].joined /\ ~fromJoin) THEN w
    ELSE [k |-> [w.k EXCEPT !.dirty = FALSE],
          s |-> IF fromJoin THEN SrvJoin(w.s, c, "main", w.k.pres)
                ELSE SrvPresence(w.s, c, w.k.pres)]

\* allocateConferenceFocus, at once a failure while the connection is down.
Allocate(w, c) ==
    [w EXCEPT !.k.focus = Append(@, IF Up(c) THEN "asked" ELSE "wait"), !.k.refused = FALSE]

Clean(w, r) == [w EXCEPT !.k.muc[r].joined = FALSE, !.k.muc[r].listeners = 0]

\* doLeave: unavailable is sent.
DoLeave(w, c, r) == IF Up(c) THEN [w EXCEPT !.s = SrvLeave(w.s, c, r, "out")] ELSE w

\* ChatRoom.leave: it waits for MUC_LEFT or its timer.
LeaveMuc(w, c, r) ==
    DoLeave([Clean(w, r) EXCEPT !.k.muc[r].timers = @ + 1], c, r)

\* Lobby.leave; the reference goes when the leave has settled.  Without a
\* connection that is at once.
LeaveLobby(w, c) ==
    IF w.k.lobby = "none" THEN w
    ELSE LET v == LeaveMuc(w, c, "lobby") IN IF Up(c) THEN v ELSE [v EXCEPT !.k.lobby = "none"]

\* Lobby.join: a new ChatRoom, joined without the focus.
JoinMucLobby(w, c, how) ==
    LET v == [w EXCEPT !.k.lobby = how,
                       !.k.hooks = IF how = "guest" THEN @ + 1 ELSE @,
                       !.k.muc["lobby"] = [Unjoined EXCEPT !.live = TRUE, !.listeners = 1]]
    IN  IF Up(c) THEN [v EXCEPT !.s = SrvJoin(v.s, c, "lobby", 0)] ELSE v

\* createRoom throws when there is such a room already.
MaybeJoinLobby(w, c) ==
    LET main == w.k.muc["main"] IN
    IF /\ main.joined /\ main.moderator
       /\ w.k.only = "members" /\ w.k.lobby = "none" /\ w.k.lobbyJid
       /\ ~w.k.muc["lobby"].live
    THEN JoinMucLobby(w, c, "host") ELSE w

\* JitsiConference.leave up to its await.
LeaveConference(w, c) ==
    [LeaveMuc(LeaveLobby(w, c), c, "main") EXCEPT !.k.room = FALSE]

Repeat(n, F(_), w) == FoldLeft(LAMBDA v, i : F(v), w, [i \in 1..n |-> i])

-----------------------------------------------------------------------------
\* Presence of the room.

\* MUC_JOINED: the presence that was held back, the lobby hooks, disco info.
Joined(w, c) ==
    LET a == [w EXCEPT !.k.muc["main"].joined = TRUE]
        b == IF a.k.dirty THEN SendPresence(a, c, FALSE) ELSE a
        d == Repeat(b.k.hooks, LAMBDA v : LeaveLobby(v, c), b)
    IN  [d EXCEPT !.s = Tell(d.s, {c}, [type |-> "info", only |-> d.s.only])]

OwnPresence(w, c, m) ==
    LET before == w.k.muc[m.room]
        a == [w EXCEPT !.k.muc[m.room].moderator = m.owner]
        b == IF m.room = "main" /\ before.moderator # m.owner THEN MaybeJoinLobby(a, c) ELSE a
    IN  IF before.joined THEN b
        ELSE IF m.room = "main" THEN Joined(b, c)
        ELSE [b EXCEPT !.k.muc["lobby"].joined = TRUE]

\* Faulty: what a member says later is not kept.
MemberPresenceOnce(w, m) ==
    LET new == w.k.muc[m.room].members[m.who] = Away
        a == IF new THEN [w EXCEPT !.k.muc[m.room].members[m.who] = m.pres] ELSE w
    IN  IF m.room = "main"
        THEN [a EXCEPT !.k.parts = IF new THEN @ \cup {m.who} ELSE @]
        ELSE [a EXCEPT !.k.knocking =
                 IF new /\ w.k.lobby = "host" THEN @ \cup {m.who} ELSE @]

\* Who knocks is news to the host unless it is in the main room already.
MemberPresence(w, m) ==
    LET new == w.k.muc[m.room].members[m.who] = Away
        a == [w EXCEPT !.k.muc[m.room].members[m.who] = m.pres]
    IN  IF m.room = "main"
        THEN [a EXCEPT !.k.parts = IF new THEN @ \cup {m.who} ELSE @]
        ELSE [a EXCEPT !.k.knocking =
                 IF new /\ w.k.lobby = "host" /\ w.k.muc["main"].members[m.who] = Away
                 THEN @ \cup {m.who} ELSE @]

\* MUC_MEMBER_LEFT.
Forget(w, r, who) ==
    LET a == [w EXCEPT !.k.muc[r].members[who] = Away]
    IN  IF r = "main" THEN [a EXCEPT !.k.parts = @ \ {who}]
        ELSE [a EXCEPT !.k.knocking = IF w.k.lobby = "host" THEN @ \ {who} ELSE @]

\* KICKED of oneself: the conference is left; a guest of the lobby is told.
Kicked(w, c, r) ==
    IF r = "main" THEN (IF w.k.room THEN LeaveConference(w, c) ELSE w)
    ELSE IF w.k.lobby = "guest" THEN Clean(w, "lobby") ELSE w

\* MUC_LEFT settles the leaves of this ChatRoom.
MucLeft(w, r) ==
    LET settled == w.k.muc[r].timers > 0
    IN  [w EXCEPT !.k.muc[r].timers = 0,
                  !.k.lobby = IF r = "lobby" /\ settled THEN "none" ELSE @]

SelfUnavailable(w, c, m) ==
    LET a == IF m.type = "kick" THEN Kicked(w, c, m.room) ELSE w
        known == {p \in Client : a.k.muc[m.room].members[p] # Away}
        b == FoldSet(LAMBDA p, v : Forget(v, m.room, p), a, known)
        d == [b EXCEPT !.k.muc[m.room].live = FALSE]
    IN  IF m.type = "kick" THEN d ELSE MucLeft(d, m.room)

Take(c, types) == srv.down[c] # <<>> /\ Up(c) /\ Head(srv.down[c]).type \in types

Took(c) == [k |-> cl[c], s |-> [srv EXCEPT !.down[c] = Tail(@)]]

PresenceReceived(c) ==
    LET m == Head(srv.down[c]) IN
    /\ Take(c, {"in", "out", "kick"})
    /\ Become(c, IF ~cl[c].muc[m.room].live THEN Took(c)
                 ELSE CASE m.type = "in" /\ m.who = c -> OwnPresence(Took(c), c, m)
                        [] m.type = "in" /\ m.who # c -> MemberPresence(Took(c), m)
                        [] m.type # "in" /\ m.who = c -> SelfUnavailable(Took(c), c, m)
                        [] OTHER -> Forget(Took(c), m.room, m.who))
    /\ UNCHANGED conn

\* The lobby is destroyed.  The host's users are gone; a guest joins when it is
\* invited on, else the conference fails.
LobbyDestroyed(c) ==
    LET w == Took(c)
        m == Head(srv.down[c])
        host == [Clean(w, "lobby") EXCEPT !.k.knocking = @ \ {p \in Client :
                    w.k.muc["lobby"].members[p] # Away}, !.k.lobby = "none"]
        guest == IF m.invite THEN Allocate(w, c) ELSE Clean(w, "lobby")
        v == CASE w.k.lobby = "host" -> host [] w.k.lobby = "guest" -> guest [] OTHER -> w
    IN  /\ Take(c, {"destroyed"})
        /\ Become(c, IF ~w.k.muc["lobby"].live THEN w
                     ELSE [v EXCEPT !.k.muc["lobby"].live = FALSE])
        /\ UNCHANGED conn

\* registration-required names the lobby; the lobby itself may be gone.
Refused(c) ==
    /\ Take(c, {"refused", "gone"})
    /\ Become(c, LET w == Took(c) IN
         IF Head(srv.down[c]).type = "refused" /\ w.k.muc["main"].live
         THEN [w EXCEPT !.k.lobbyJid = TRUE, !.k.refused = TRUE] ELSE w)
    /\ UNCHANGED conn

\* Status 104: ask for the room's info; its answer.
ConfigChanged(c) ==
    /\ Take(c, {"changed"})
    /\ Become(c, LET w == Took(c) IN
         IF w.k.muc["main"].live
         THEN [w EXCEPT !.s = Tell(w.s, {c}, [type |-> "info", only |-> w.s.only])] ELSE w)
    /\ UNCHANGED conn

Membership(only) == IF only THEN "members" ELSE "open"

\* Faulty: the lobby of a room that already was members-only is not joined.
RoomInfoSilent(c) ==
    LET only == Head(srv.down[c]).only IN
    /\ Take(c, {"info"})
    /\ Become(c, [Took(c) EXCEPT !.k.lobbyJid = only, !.k.only = Membership(only)])
    /\ UNCHANGED conn

RoomInfo(c) ==
    LET only == Head(srv.down[c]).only
        w == [Took(c) EXCEPT !.k.lobbyJid = only, !.k.only = Membership(only)]
    IN  /\ Take(c, {"info"})
        /\ Become(c, IF cl[c].only # w.k.only THEN MaybeJoinLobby(w, c) ELSE w)
        /\ UNCHANGED conn

\* Every hook joins the main room; each join allocates.
Invited(c) ==
    /\ Take(c, {"invite"})
    /\ Become(c, IF cl[c].muc["main"].live /\ Len(cl[c].focus) + cl[c].hooks <= MaxJoins
                 THEN Repeat(cl[c].hooks, LAMBDA v : Allocate(v, c), Took(c)) ELSE Took(c))
    /\ UNCHANGED conn

\* The configuration form has arrived and is submitted.
FormReceived(c) ==
    /\ Take(c, {"form"})
    /\ Become(c, LET w == Took(c) IN
         [w EXCEPT !.s = SrvConfigure(w.s, Head(srv.down[c]).enable)])
    /\ UNCHANGED conn

-----------------------------------------------------------------------------
\* The application.

Join(c) ==
    /\ cl[c].room /\ ~cl[c].muc["main"].joined
    /\ cl[c].focus = <<>>
    /\ Become(c, Allocate(World(c), c))
    /\ UNCHANGED conn

\* join, once the focus is there: the first presence, and a listener.
JoinMuc(w, c) ==
    SendPresence([w EXCEPT !.k.muc["main"].listeners = @ + 1], c, TRUE)

Asked(c, i) == i \in DOMAIN cl[c].focus /\ cl[c].focus[i] = "asked" /\ Up(c)

\* The answer to the conference request: the focus is ready,
FocusReady(c, i) ==
    /\ Asked(c, i)
    /\ Become(c, JoinMuc([World(c) EXCEPT !.k.focus[i] = "done"], c))
    /\ UNCHANGED conn

\* or it is not, or there was an error.
FocusNotReady(c, i) ==
    /\ Asked(c, i)
    /\ cl' = [cl EXCEPT ![c].focus[i] = "wait"]
    /\ UNCHANGED <<srv, conn>>

\* The back-off is over; nothing cancels it.
FocusRetry(c, i) ==
    /\ i \in DOMAIN cl[c].focus /\ cl[c].focus[i] = "wait"
    /\ Up(c)
    /\ cl' = [cl EXCEPT ![c].focus[i] = "asked"]
    /\ UNCHANGED <<srv, conn>>

Leave(c) ==
    /\ cl[c].room /\ srv.acts < MaxActs
    /\ LET w == LeaveConference(World(c), c)
       IN  cl' = [cl EXCEPT ![c] = w.k] /\ Acted(w.s)
    /\ UNCHANGED conn

\* Five seconds without MUC_LEFT: emuc forgets the room.
LeaveTimeout(c, r) ==
    /\ cl[c].muc[r].timers > 0
    /\ cl' = [cl EXCEPT ![c].muc[r].timers = @ - 1, ![c].muc[r].live = FALSE,
                        ![c].lobby = IF r = "lobby" THEN "none" ELSE @]
    /\ UNCHANGED <<srv, conn>>

\* joinLobby, after the room has refused us.
JoinLobby(c) ==
    /\ cl[c].room /\ cl[c].lobbyJid /\ cl[c].refused
    /\ ~cl[c].muc["lobby"].live /\ cl[c].hooks < MaxJoins
    /\ Become(c, JoinMucLobby(World(c), c, "guest"))
    /\ UNCHANGED conn

MayAct(c) ==
    /\ c \in Trusted /\ Up(c) /\ srv.acts < MaxActs
    /\ cl[c].room /\ cl[c].muc["main"].joined /\ cl[c].muc["main"].moderator

\* setMembersOnly: everybody here becomes a member, then the form is asked for.
SetLobby(c, enable) ==
    /\ MayAct(c)
    /\ enable # (cl[c].only = "members")
    /\ enable \/ cl[c].lobby # "none"
    /\ \A i \in DOMAIN srv.down[c] : srv.down[c][i].type # "form"
    /\ LET s == IF enable THEN [srv EXCEPT !.member = @ \cup srv.occ["main"]] ELSE srv
       IN  Acted(Tell(s, {c}, [type |-> "form", enable |-> enable]))
    /\ UNCHANGED <<cl, conn>>

Approve(c, p) ==
    /\ MayAct(c)
    /\ cl[c].lobby # "none" /\ cl[c].muc["lobby"].members[p] # Away
    /\ p \notin srv.member
    /\ Acted(SrvInvite(srv, p))
    /\ UNCHANGED <<cl, conn>>

\* denyAccess, kickParticipant.
Kick(c, p, r) ==
    /\ MayAct(c) /\ p # c
    /\ p \in srv.occ[r] /\ cl[c].muc[r].members[p] # Away
    /\ Acted(SrvLeave(srv, p, r, "kick"))
    /\ UNCHANGED <<cl, conn>>

\* A property of the local participant changes.
UpdatePresence(c) ==
    /\ cl[c].room /\ cl[c].pres < MaxUpdates[c]
    /\ Become(c, SendPresence([World(c) EXCEPT !.k.pres = @ + 1, !.k.dirty = TRUE], c, FALSE))
    /\ UNCHANGED conn

Drop(c) ==
    /\ Up(c) /\ conn[c].drops < MaxDrops[c]
    /\ conn' = [conn EXCEPT ![c] = [up |-> FALSE, drops |-> @.drops + 1]]
    /\ UNCHANGED <<cl, srv>>

\* The stream is resumed: every listener sends the presence again.
Resumed(c) ==
    /\ ~Up(c)
    /\ conn' = [conn EXCEPT ![c].up = TRUE]
    /\ srv' = IF cl[c].muc["main"].listeners > 0 /\ cl[c].muc["main"].joined
              THEN SrvPresence(srv, c, cl[c].pres) ELSE srv
    /\ cl' = [cl EXCEPT ![c].dirty = @ /\ ~(cl[c].muc["main"].listeners > 0
                                             /\ cl[c].muc["main"].joined)]

-----------------------------------------------------------------------------
Receive(c) ==
    \/ PresenceReceived(c) \/ LobbyDestroyed(c) \/ Refused(c) \/ ConfigChanged(c)
    \/ RoomInfo(c) \/ Invited(c) \/ FormReceived(c)

Next ==
    \E c \in Client :
      \/ Receive(c)
      \/ Join(c) \/ Leave(c) \/ JoinLobby(c) \/ UpdatePresence(c)
      \/ \E i \in 1..MaxJoins : FocusReady(c, i) \/ FocusNotReady(c, i)
                                    \/ FocusRetry(c, i)
      \/ \E r \in Rooms : LeaveTimeout(c, r)
      \/ \E enable \in BOOLEAN : SetLobby(c, enable)
      \/ \E p \in Client : Approve(c, p) \/ \E r \in Rooms : Kick(c, p, r)
      \/ Promote(c) \/ Drop(c) \/ Resumed(c)

Spec == Init /\ [][Next]_vars

-----------------------------------------------------------------------------
\* Properties.

\* Clients, the service and the connections are well formed.
TypeOK ==
    /\ cl \in [Client -> Conference]
    /\ srv \in Service
    /\ conn \in [Client -> [up : BOOLEAN, drops : Nat]]

\* In the room, with nothing under way to it.
Settled(c) ==
    /\ cl[c].room /\ cl[c].muc["main"].joined /\ cl[c].muc["main"].live
    /\ Up(c) /\ srv.down[c] = <<>>

\* The participants the application has been told of are those in the room, as
\* they last presented themselves (onPresence, onPresenceUnavailable,
\* onMemberJoined, onMemberLeft), whatever dropped and was kicked before.
ParticipantsMatch ==
    \A c \in Client : Settled(c) =>
      /\ c \in srv.occ["main"]
      /\ cl[c].parts = srv.occ["main"] \ {c}
      /\ \A p \in cl[c].parts : cl[c].muc["main"].members[p] = srv.shown[p]

\* What a participant sets about itself, before it joins, while it joins or
\* while the connection is down, is what the room shows in the end
\* (presenceUpdateTime, onConnStatusChanged).
PresenceTold ==
    \A c \in Client : Settled(c) => srv.shown[c] = cl[c].pres

\* A moderator of a room with a lobby is in it, whichever of its role and the
\* room's becoming members-only was known first: nobody knocks unheard
\* (_maybeJoinLobbyRoom).  Not so one who came through the lobby and is made
\* moderator before its leave of the lobby has settled, nor one whose join of
\* the lobby failed: lobbyRoom stays and the join is not repeated.
LobbyAttended ==
    \A c \in Client :
      (/\ Settled(c) /\ cl[c].muc["main"].moderator /\ srv.only
       /\ cl[c].hooks = 0)
      => /\ cl[c].lobby = "host"
         /\ cl[c].muc["lobby"].joined => c \in srv.occ["lobby"]
=============================================================================
