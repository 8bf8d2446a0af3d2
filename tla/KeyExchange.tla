---------------------------- MODULE KeyExchange ----------------------------
(***************************************************************************)
(* End-to-end encryption in a room: KeyHandler, ManagedKeyHandler and      *)
(* OlmAdapter of every endpoint, the messages and presence between them,   *)
(* and the key rings (KeyRing) media go through.                           *)
(*                                                                         *)
(* ep[e] is the state of endpoint e, net[e][p] what is under way from e to *)
(* p.  What a promise continues with runs before the next event of the     *)
(* event loop: events of e wait until Idle(e).                             *)
(***************************************************************************)
EXTENDS KeyRing, Sequences, SequencesExt

CONSTANTS
    Endpoint,     \* ids, which are compared
    Encrypting,   \* those that have FEATURE_E2EE; to the others nothing is sent
    Unset,        \* "undefined": no key heard of yet
    NoSession,
    MaxCalls,     \* bound: calls of setEnabled of each endpoint
    MaxKeys,      \* bound: no rotation beyond this key
    Late          \* what may be late: the answer to "init" or "key", a "frame"

ASSUME ExchangeAssumption ==
    /\ Endpoint \subseteq Nat \ {0} /\ Encrypting \subseteq Endpoint
    /\ MaxCalls \in [Endpoint -> Nat] /\ MaxKeys \in Nat
    /\ Late \subseteq {"init", "key", "frame"}

VARIABLES
    room,         \* who is in the room, as the server knows
    ep, net,
    left,         \* who has left
    heard,        \* history: the keys each endpoint was ever told
    orphan,       \* history: pairs of which one holds a session the other has not
    deaf          \* history: <<e, p>>, e forgot p's key but not that it had it

vars == <<room, ep, net, left, heard, orphan, deaf>>

Session == Endpoint \X Endpoint \X Nat

\* "undefined" is no session.
ASSUME SessionAssumption == NoSession \notin Session

Call == [want : BOOLEAN, phase : {"wait", "init", "key", "done", "hung"}, on : Nat]
Request == [to : Endpoint, kind : {"init", "key"}, n : Nat, by : Nat]
Message ==
    [type : {"joined", "left", "on", "off", "session-init"}, n : Nat]
      \cup [type : {"session-ack", "key-info", "key-info-ack"}, n : Nat,
            session : Session, key : Key \cup {NoKey}, index : Nat \cup {-1}]

New == [known |-> {}, enabled |-> FALSE, calls |-> <<>>, enabling |-> 0, starting |-> 0,
        key |-> NoKey, index |-> -1, reqs |-> {}, rotations |-> {},
        session |-> [p \in Endpoint |-> NoSession], pending |-> [p \in Endpoint |-> 0],
        inits |-> [p \in Endpoint |-> 0], lastKey |-> [p \in Endpoint |-> Unset],
        asked |-> {}, rotate |-> FALSE, ratchet |-> FALSE, material |-> NoKey, raced |-> FALSE,
        gone |-> {}, ctx |-> [p \in Endpoint |-> NewContext], old |-> Encode(NewContext)]

Init ==
    /\ room = {} /\ left = {} /\ orphan = {} /\ deaf = {}
    /\ ep = [e \in Endpoint |-> New]
    /\ net = [e \in Endpoint |-> [p \in Endpoint |-> <<>>]]
    /\ heard = [e \in Endpoint |-> {}]

-----------------------------------------------------------------------------
\* Messages.

Mail(P, M(_)) == [p \in Endpoint |-> IF p \in P THEN <<M(p)>> ELSE <<>>]

Nothing == [p \in Endpoint |-> <<>>]

\* e sends mail; what is for someone who has left, or would ignore it, is lost.
Send(n, e, mail) ==
    [n EXCEPT ![e] = [p \in Endpoint |->
        IF p \in room \cap Encrypting THEN @[p] \o mail[p] ELSE <<>>]]

KeyInfo(type, s, session, n) ==
    [type |-> type, n |-> n, session |-> session, key |-> s.key, index |-> s.index]

-----------------------------------------------------------------------------
\* What the handlers have in common.

HasSession(s) == {p \in s.known : s.session[p] # NoSession}

FreshKey(s, e) == [owner |-> e, n |-> s.index + 1, step |-> 0]

\* updateKey up to its await: store, and ask everybody with a session to confirm.
\* History: gone are those of whom e heard that they left since the key was made
\* that it has, or that a ratchet under way has taken.
UpdateKey(s, key) ==
    [s EXCEPT !.key = key, !.index = @ + 1, !.raced = FALSE,
              !.gone = IF s.material = NoKey THEN {} ELSE @,
              !.reqs = @ \cup {[to |-> p, kind |-> "key", n |-> s.index + 1, by |-> 0] :
                               p \in HasSession(s)}]

KeyMail(s) == Mail(HasSession(s), LAMBDA p : KeyInfo("key-info", s, s.session[p], s.index))

\* Use the own key as it is now.
UseKey(s, e) ==
    [s EXCEPT !.ctx[e] = SetKeys(@, s.key, s.index), !.old = Encode(s.ctx[e])]

\* _sendSessionInit to those of P it does not reject at once.
Invitable(s, P) == {p \in P \cap Encrypting : s.session[p] = NoSession /\ s.pending[p] = 0}

SendSessionInit(s, P, by) ==
    [s EXCEPT !.inits = [p \in Endpoint |-> IF p \in P THEN @[p] + 1 ELSE @[p]],
              !.pending = [p \in Endpoint |-> IF p \in P THEN s.inits[p] + 1 ELSE @[p]],
              !.reqs = @ \cup {[to |-> p, kind |-> "init", n |-> s.inits[p] + 1, by |-> by] : p \in P}]

InitMail(s, P) == Mail(P, LAMBDA p : [type |-> "session-init", n |-> s.inits[p] + 1])

ClearSession(s, P) ==
    [s EXCEPT !.session = [p \in Endpoint |-> IF p \in P THEN NoSession ELSE @[p]]]

\* _onParticipantKeyUpdated, unless the key is the last one heard of.
Learn(s, p, m) ==
    IF s.lastKey[p] = m.key THEN s
    ELSE [s EXCEPT !.lastKey[p] = m.key, !.ctx[p] = SetKeys(@, m.key, m.index)]

-----------------------------------------------------------------------------
\* Continuations of promises.

CanResume(s, i) ==
    /\ i \in DOMAIN s.calls
    /\ s.calls[i].phase = "wait"
    /\ s.calls[i].on \in {0} \cup {j \in DOMAIN s.calls : s.calls[j].phase = "done"}
    /\ \A j \in 1..(i - 1) : s.calls[j].phase # "wait"

NoKeyRequests(s, n) == \A r \in s.reqs : ~(r.kind = "key" /\ r.n = n)

InitsSettled(s) ==
    /\ s.starting # 0
    /\ \A r \in s.reqs : ~(r.kind = "init" /\ r.by = s.starting)

KeySettled(s, i) ==
    i \in DOMAIN s.calls /\ s.calls[i].phase = "key" /\ NoKeyRequests(s, s.calls[i].on)

Idle(s) ==
    /\ \A i \in DOMAIN s.calls : ~CanResume(s, i) /\ ~KeySettled(s, i)
    /\ ~InitsSettled(s)
    /\ \A n \in s.rotations : ~NoKeyRequests(s, n)
    /\ s.asked = {} \/ s.starting # 0

Unmoved == UNCHANGED <<room, left, heard, orphan, deaf>>

\* setEnabled(true) goes on: KeyHandler, ManagedKeyHandler and initSessions,
\* which throws when it is already running; then _enabling stays open.
TurnOn(e, i) ==
    LET s == [ep[e] EXCEPT !.enabling = i, !.enabled = TRUE]
        P == Invitable(s, {p \in s.known : e < p})
    IN  /\ CanResume(ep[e], i)
        /\ ep[e].calls[i].want
        /\ IF s.starting # 0
           THEN /\ ep' = [ep EXCEPT ![e] = [s EXCEPT !.calls[i].phase = "hung"]]
                /\ UNCHANGED net
           ELSE /\ ep' = [ep EXCEPT ![e] =
                            [SendSessionInit(s, P, i) EXCEPT !.starting = i,
                                                             !.calls[i].phase = "init"]]
                /\ net' = Send(net, e, InitMail(s, P))
        /\ Unmoved

\* initSessions is through: the new key is sent.
KeyMade(e) ==
    LET s == [UpdateKey(ep[e], FreshKey(ep[e], e)) EXCEPT !.starting = 0,
                !.calls[ep[e].starting] = [want |-> TRUE, phase |-> "key",
                                           on |-> ep[e].index + 1]]
    IN  /\ InitsSettled(ep[e])
        /\ ep' = [ep EXCEPT ![e] = s]
        /\ net' = Send(net, e, KeyMail(s))
        /\ Unmoved

\* setEnabled(false) goes on.  The sessions are freed first, so that nobody is
\* told that the key is gone.  The keys of the others go with their contexts,
\* but lastKey stays.
TurnOff(e, i) ==
    LET s == [ClearSession(ep[e], ep[e].known) EXCEPT
                !.enabling = i, !.enabled = FALSE,
                !.ctx = [p \in Endpoint |-> NewContext]]
    IN  /\ CanResume(ep[e], i)
        /\ ~ep[e].calls[i].want
        /\ ep' = [ep EXCEPT ![e] =
                    [UpdateKey(s, NoKey) EXCEPT
                        !.calls[i] = [want |-> FALSE, phase |-> "key", on |-> s.index + 1]]]
        /\ deaf' = deaf \cup {<<e, p>> : p \in {q \in Endpoint : ep[e].lastKey[q] # Unset}}
        /\ UNCHANGED <<room, net, left, heard, orphan>>

\* updateKey is through: use the key, tell the room, restart the media.
Switched(e, i) ==
    LET s == ep[e] IN
    /\ KeySettled(s, i)
    /\ \A j \in DOMAIN s.calls : ~CanResume(s, j)
    /\ ep' = [ep EXCEPT ![e] = [UseKey(s, e) EXCEPT !.calls[i].phase = "done"]]
    /\ net' = Send(net, e, Mail(room \ {e}, LAMBDA p :
                 [type |-> IF s.calls[i].want THEN "on" ELSE "off", n |-> 0]))
    /\ Unmoved

\* A rotation is through.
Rotated(e, n) ==
    /\ n \in ep[e].rotations
    /\ NoKeyRequests(ep[e], n)
    /\ ep' = [ep EXCEPT ![e] = [UseKey(ep[e], e) EXCEPT !.rotations = @ \ {n}]]
    /\ Unmoved
    /\ UNCHANGED net

\* The rest of _onParticipantPropertyChanged, once no initSessions is running.
InviteAsked(e, p) ==
    LET s == [ep[e] EXCEPT !.asked = @ \ {p}]
        P == Invitable(s, {p})
    IN  /\ p \in ep[e].asked
        /\ ep[e].starting = 0
        /\ ep' = [ep EXCEPT ![e] = SendSessionInit(s, P, 0)]
        /\ net' = Send(net, e, InitMail(s, P))
        /\ Unmoved

-----------------------------------------------------------------------------
\* The application and the room.

SetEnabled(e, want) ==
    LET s == ep[e] IN
    /\ e \in room \cap Encrypting /\ Idle(s)
    /\ Len(s.calls) < MaxCalls[e]
    /\ want # s.enabled
    /\ ep' = [ep EXCEPT ![e].calls = Append(@, [want |-> want, phase |-> "wait",
                                                 on |-> s.enabling])]
    /\ Unmoved
    /\ UNCHANGED net

Join(e) ==
    /\ e \notin room \cup left
    /\ room' = room \cup {e}
    /\ ep' = IF e \in Encrypting THEN [ep EXCEPT ![e].known = room] ELSE ep
    /\ net' = Send(net, e, Mail(room, LAMBDA p : [type |-> "joined", n |-> 0]))
    /\ UNCHANGED <<left, heard, orphan, deaf>>

Leave(e) ==
    /\ e \in room
    /\ room' = room \ {e} /\ left' = left \cup {e}
    /\ ep' = [ep EXCEPT ![e] = New]
    /\ net' = [p \in Endpoint |->
                 IF p = e THEN [q \in Endpoint |-> IF q \in (room \cap Encrypting) \ {e}
                                   THEN Append(net[e][q], [type |-> "left", n |-> 0]) ELSE <<>>]
                 ELSE [net[p] EXCEPT ![e] = <<>>]]
    /\ orphan' = {x \in orphan : e \notin x}
    /\ deaf' = {x \in deaf : e \notin {x[1], x[2]}}
    /\ UNCHANGED heard

-----------------------------------------------------------------------------
\* Timers.  The debounce period is not shorter than the time an answer may
\* take, so a rotation finds the previous one settled.

Rotate(e) ==
    LET s == [UpdateKey(ep[e], FreshKey(ep[e], e)) EXCEPT !.rotate = FALSE,
                !.rotations = {ep[e].index + 1}]
    IN  /\ ep[e].rotate /\ Idle(ep[e])
        /\ ep[e].rotations = {}
        /\ ep[e].index < MaxKeys
        /\ ep' = [ep EXCEPT ![e] = s]
        /\ net' = Send(net, e, KeyMail(s))
        /\ Unmoved

\* _ratchetKeyImpl: importKey fails without a key.
RatchetKey(e) ==
    /\ ep[e].ratchet /\ Idle(ep[e])
    /\ ep[e].material = NoKey
    /\ ep' = [ep EXCEPT ![e].ratchet = FALSE, ![e].material = ep[e].key]
    /\ Unmoved
    /\ UNCHANGED net

\* The key is ratcheted.  If it was replaced meanwhile, what is used and told
\* from now on is a key nobody was sent: raced.
RatchetDone(e) ==
    LET s == [ep[e] EXCEPT !.key = Ratchet(ep[e].material), !.material = NoKey,
                           !.raced = @ \/ ep[e].key # ep[e].material]
    IN  /\ ep[e].material # NoKey /\ Idle(ep[e])
        /\ ep' = [ep EXCEPT ![e] = UseKey(s, e)]
        /\ Unmoved
        /\ UNCHANGED net

\* Whether the answer to a request, or the request, is still under way.
UnderWay(e, r) ==
    LET asks == IF r.kind = "init" THEN "session-init" ELSE "key-info"
        answers == IF r.kind = "init" THEN "session-ack" ELSE "key-info-ack"
    IN  \/ \E i \in DOMAIN net[e][r.to] : net[e][r.to][i].type = asks /\ net[e][r.to][i].n = r.n
        \/ \E i \in DOMAIN net[r.to][e] : net[r.to][e][i].type = answers /\ net[r.to][e][i].n = r.n

Timeout(e, r) ==
    /\ r \in ep[e].reqs /\ Idle(ep[e])
    /\ r.kind \in Late \/ ~UnderWay(e, r)
    /\ ep' = [ep EXCEPT ![e].reqs = @ \ {r},
                        ![e].pending[r.to] = IF r.kind = "init" THEN 0 ELSE @]
    /\ Unmoved
    /\ UNCHANGED net

-----------------------------------------------------------------------------
\* Messages and presence.

\* e takes the next message from p, ends in state s and answers with mail.
Deliver(e, p, s, mail) ==
    /\ ep' = [ep EXCEPT ![e] = s]
    /\ net' = Send([net EXCEPT ![p][e] = Tail(@)], e, mail)
    /\ UNCHANGED <<room, left>>

Next1(e, p, types) ==
    net[p][e] # <<>> /\ Idle(ep[e]) /\ Head(net[p][e]).type \in types

ParticipantJoined(e, p) ==
    /\ Next1(e, p, {"joined"})
    /\ Deliver(e, p, [ep[e] EXCEPT !.known = @ \cup {p}, !.ratchet = @ \/ ep[e].enabled], Nothing)
    /\ UNCHANGED <<heard, orphan, deaf>>

\* Faulty: the key is ratcheted, not rotated, when someone leaves.
ParticipantLeftRatchets(e, p) ==
    /\ Next1(e, p, {"left"})
    /\ Deliver(e, p, [ClearSession(ep[e], {p}) EXCEPT !.known = @ \ {p},
                        !.ctx[p] = NewContext, !.gone = @ \cup {p},
                        !.ratchet = @ \/ ep[e].enabled], Nothing)
    /\ UNCHANGED <<heard, orphan, deaf>>

ParticipantLeft(e, p) ==
    /\ Next1(e, p, {"left"})
    /\ Deliver(e, p, [ClearSession(ep[e], {p}) EXCEPT !.known = @ \ {p},
                        !.ctx[p] = NewContext, !.gone = @ \cup {p},
                        !.rotate = @ \/ ep[e].enabled], Nothing)
    /\ UNCHANGED <<heard, orphan, deaf>>

\* p has the session, or will take it for its own when the answer arrives.
Expects(s, e, session) == s.session[e] = session \/ s.pending[e] = session[3]

\* Faulty: presence never starts a session.
NotedOnly(s, e, p, on) == IF s.enabled /\ ~on THEN ClearSession(s, {p}) ELSE s

\* _onParticipantPropertyChanged up to its await.
Noted(s, e, p, on) ==
    IF ~s.enabled THEN s
    ELSE IF ~on THEN ClearSession(s, {p})
    ELSE IF e < p THEN [s EXCEPT !.asked = @ \cup {p}] ELSE s

\* e2ee.enabled of a participant changes.  Whoever is not encrypting at that
\* moment keeps a session the other one has freed; whoever is may free one that
\* the other, encrypting again, still expects.
PropertyChanged(e, p) ==
    LET s == ep[e]
        on == Head(net[p][e]).type = "on"
    IN  /\ Next1(e, p, {"on", "off"})
        /\ Deliver(e, p, Noted(s, e, p, on), Nothing)
        /\ orphan' = IF /\ ~on /\ s.session[p] # NoSession
                        /\ ~s.enabled \/ Expects(ep[p], e, s.session[p])
                     THEN orphan \cup {{e, p}} ELSE orphan
        /\ UNCHANGED <<heard, deaf>>

SessionInit(e, p) ==
    LET m == Head(net[p][e])
        sid == <<p, e, m.n>>
    IN  /\ Next1(e, p, {"session-init"})
        /\ IF ep[e].session[p] # NoSession THEN Deliver(e, p, ep[e], Nothing)
           ELSE Deliver(e, p, [ep[e] EXCEPT !.session[p] = sid],
                        Mail({p}, LAMBDA q : KeyInfo("session-ack", ep[e], sid, m.n)))
        /\ UNCHANGED <<heard, orphan, deaf>>

\* e is told p's key; new says whether the context takes it.
Hears(e, p, key, new) ==
    /\ heard' = [heard EXCEPT ![e] = IF key = NoKey THEN @ ELSE @ \cup {key}]
    /\ deaf' = IF new THEN deaf \ {<<e, p>>} ELSE deaf
    /\ UNCHANGED orphan

\* Faulty: after a session asked for by presence the key is not sent.
SessionAckSilent(e, p) ==
    LET s == ep[e]
        m == Head(net[p][e])
        open == [s EXCEPT !.session[p] = m.session, !.pending[p] = 0,
                          !.reqs = {r \in @ : ~(r.kind = "init" /\ r.to = p)}]
    IN  /\ Next1(e, p, {"session-ack"})
        /\ s.session[p] = NoSession /\ m.n = s.pending[p]
        /\ Deliver(e, p, IF m.key = NoKey THEN open
                         ELSE [open EXCEPT !.lastKey[p] = m.key,
                                           !.ctx[p] = SetKeys(@, m.key, m.index)], Nothing)
        /\ Hears(e, p, m.key, m.key # NoKey)

\* The answer to the pending session-init.  If presence had asked for it, the
\* waiting handler goes on and sends the own key, for which nobody waits.
SessionAck(e, p) ==
    LET s == ep[e]
        m == Head(net[p][e])
        mine == {r \in s.reqs : r.kind = "init" /\ r.to = p /\ r.n = m.n}
        open == [s EXCEPT !.session[p] = m.session, !.pending[p] = 0, !.reqs = @ \ mine]
        byPresence == \E r \in mine : r.by = 0
    IN  /\ Next1(e, p, {"session-ack"})
        /\ s.session[p] = NoSession /\ m.n = s.pending[p]
        /\ Deliver(e, p, IF m.key = NoKey THEN open
                         ELSE [open EXCEPT !.lastKey[p] = m.key,
                                           !.ctx[p] = SetKeys(@, m.key, m.index)],
                   IF byPresence
                   THEN Mail({p}, LAMBDA q : KeyInfo("key-info", s, m.session, 0)) ELSE Nothing)
        /\ Hears(e, p, m.key, m.key # NoKey)

\* An acknowledgement nobody waits for any more: the other side keeps its session.
LateSessionAck(e, p) ==
    /\ Next1(e, p, {"session-ack"})
    /\ ep[e].session[p] # NoSession \/ Head(net[p][e]).n # ep[e].pending[p]
    /\ Deliver(e, p, ep[e], Nothing)
    /\ orphan' = orphan \cup {{e, p}}
    /\ UNCHANGED <<heard, deaf>>

\* Messages of a session the receiver does not have are answered by an error,
\* which is only logged.
Foreign(e, p) == Head(net[p][e]).session # ep[e].session[p]

KeyInfoReceived(e, p) ==
    LET s == ep[e]
        m == Head(net[p][e])
    IN  /\ Next1(e, p, {"key-info"})
        /\ IF Foreign(e, p) \/ m.index < 0
           THEN Deliver(e, p, s, Nothing) /\ UNCHANGED <<heard, orphan, deaf>>
           ELSE /\ Deliver(e, p, Learn(s, p, m),
                           Mail({p}, LAMBDA q : KeyInfo("key-info-ack", s, m.session, m.n)))
                /\ Hears(e, p, m.key, m.key # s.lastKey[p])

KeyInfoAck(e, p) ==
    LET s == ep[e]
        m == Head(net[p][e])
        told == IF m.index < 0 THEN s ELSE Learn(s, p, m)
    IN  /\ Next1(e, p, {"key-info-ack"})
        /\ IF Foreign(e, p)
           THEN Deliver(e, p, s, Nothing) /\ UNCHANGED <<heard, orphan, deaf>>
           ELSE /\ Deliver(e, p, [told EXCEPT !.reqs =
                              {r \in @ : ~(r.kind = "key" /\ r.to = p /\ r.n = m.n)}], Nothing)
                /\ Hears(e, p, m.key, told.lastKey # s.lastKey)

\* bound: a key is ratcheted in vain only when it has not been ratcheted before.
Fresh(c) == Encode(c).key # NoKey => Encode(c).key.step = 0

\* A frame of p reaches e; a late one was encrypted before p's last change, or
\* meets a context that has a newer key already.
Frame(e, p) ==
    /\ {e, p} \subseteq room /\ e # p
    /\ ep[e].enabled /\ ep[p].enabled
    /\ \E f \in IF "frame" \in Late THEN {ep[p].old, Encode(ep[p].ctx[p])}
               ELSE {Encode(ep[p].ctx[p])} :
         /\ "frame" \in Late \/ f.at = ep[e].ctx[p].cur
         /\ CanOpen(ep[e].ctx[p], f) \/ Fresh(ep[e].ctx[p])
         /\ ep' = [ep EXCEPT ![e].ctx[p] = Decode(@, f)]
    /\ ep' # ep
    /\ Unmoved
    /\ UNCHANGED net

-----------------------------------------------------------------------------
Continue(e) ==
    \/ \E i \in DOMAIN ep[e].calls : TurnOn(e, i) \/ TurnOff(e, i) \/ Switched(e, i)
    \/ KeyMade(e)
    \/ \E n \in 0..MaxKeys : Rotated(e, n)
    \/ \E p \in Endpoint : InviteAsked(e, p)

Timer(e) ==
    \/ Rotate(e) \/ RatchetKey(e) \/ RatchetDone(e)
    \/ \E r \in ep[e].reqs : Timeout(e, r)

Receive(e, p) ==
    \/ ParticipantJoined(e, p) \/ ParticipantLeft(e, p) \/ PropertyChanged(e, p)
    \/ SessionInit(e, p) \/ SessionAck(e, p) \/ LateSessionAck(e, p)
    \/ KeyInfoReceived(e, p) \/ KeyInfoAck(e, p)

Next ==
    \E e \in Endpoint :
      \/ Continue(e) \/ Timer(e)
      \/ Join(e) \/ Leave(e)
      \/ \E want \in BOOLEAN : SetEnabled(e, want)
      \/ \E p \in Endpoint : Receive(e, p) \/ Frame(e, p)

Spec == Init /\ [][Next]_vars

-----------------------------------------------------------------------------
\* Properties.

State ==
    [known : SUBSET Endpoint, enabled : BOOLEAN, calls : Seq(Call), enabling : Nat,
     starting : Nat, key : Key \cup {NoKey}, index : Nat \cup {-1}, reqs : SUBSET Request,
     rotations : SUBSET Nat, session : [Endpoint -> Session \cup {NoSession}],
     pending : [Endpoint -> Nat], inits : [Endpoint -> Nat],
     lastKey : [Endpoint -> Key \cup {NoKey, Unset}], asked : SUBSET Endpoint,
     rotate : BOOLEAN, ratchet : BOOLEAN, material : Key \cup {NoKey}, raced : BOOLEAN,
     gone : SUBSET Endpoint, ctx : [Endpoint -> Context], old : [key : Key \cup {NoKey}, at : Position]]

\* The state of every endpoint, the messages and the histories are well formed.
TypeOK ==
    /\ room \subseteq Endpoint /\ left \subseteq Endpoint
    /\ ep \in [Endpoint -> State]
    /\ net \in [Endpoint -> [Endpoint -> Seq(Message)]]
    /\ heard \in [Endpoint -> SUBSET Key]
    /\ orphan \subseteq SUBSET Endpoint /\ deaf \subseteq Endpoint \X Endpoint

\* Nothing of e's is under way but, perhaps, a debounced change of its key.
Settled(e) ==
    LET s == ep[e] IN
    /\ Idle(s) /\ s.reqs = {} /\ s.rotations = {} /\ s.asked = {} /\ s.material = NoKey
    /\ \A i \in DOMAIN s.calls : s.calls[i].phase = "done"

Quiet(e, p) == Settled(e) /\ Settled(p) /\ net[e][p] = <<>> /\ net[p][e] = <<>>

\* Two participants who both encrypt, with nothing under way between them, can
\* open each other's media: whatever the order in which they joined, switched
\* encryption on or off, rotated and ratcheted, and whichever of session-init,
\* presence and key-info came first (OlmAdapter, ManagedKeyHandler).  Not so
\* when one of them kept a session the other had freed (orphan), or ignores a
\* key because it had it before it switched encryption off (deaf), or its own
\* ratchet overwrote a new key (raced).
KeysAgree ==
    \A e, p \in room :
      (/\ e # p /\ {e, p} \notin orphan /\ <<e, p>> \notin deaf
       /\ ep[e].enabled /\ ep[p].enabled /\ ~ep[p].raced
       /\ Quiet(e, p))
      => CanOpen(ep[e].ctx[p], Encode(ep[p].ctx[p]))

\* Once the change of key that a departure asks for is through, whoever has left
\* was never told the key in use, nor one it could be ratcheted from
\* (_onParticipantLeft, _rotateKeyImpl).  When a ratchet that waited for its key
\* material overwrites the new key (raced), this is so only of those who left
\* before the key was made that it had taken: the code does not lock out the
\* others (gone) until it rotates again.
LeaverLockedOut ==
    \A e \in room, l \in left :
      (/\ ep[e].enabled /\ Settled(e) /\ ~ep[e].rotate /\ net[l][e] = <<>>
       /\ ~(ep[e].raced /\ l \in ep[e].gone))
      => LET key == Encode(ep[e].ctx[e]).key
         IN  \A k \in heard[l] : ~(k.owner = e /\ k.n = key.n)

\* Two participants who both encrypt, with nothing under way between them, hold
\* the same session, so that the next key reaches the other: whether initSessions
\* or presence asked for it, and from whichever side it was freed
\* (_sendSessionInit, clearParticipantSession).
SessionsAgree ==
    \A e, p \in room :
      (/\ e # p /\ {e, p} \notin orphan
       /\ ep[e].enabled /\ ep[p].enabled
       /\ Quiet(e, p))
      => ep[e].session[p] # NoSession /\ ep[e].session[p] = ep[p].session[e]
=============================================================================
