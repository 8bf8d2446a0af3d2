--------------------------- MODULE KeyExchangeProofs ---------------------------
(***************************************************************************)
(* Proofs about KeyExchange, for any endpoints, any rings, any number of   *)
(* calls and keys and whatever may be late.                                *)
(*                                                                         *)
(* Whoever has left hears of no key any more, and the keys it was told are *)
(* numbered up to the index its owner had (HeardOK).  The owner hears of   *)
(* the departure last of all things from there (NetOK); it then            *)
(* either has a rotation before it, or a key with a number beyond those,   *)
(* or is about to make one (LockedOut).                                    *)
(*                                                                         *)
(* The second part is about the sessions of two endpoints.                 *)
(***************************************************************************)
EXTENDS KeyExchange, SequenceTheorems, TLAPS

(* The state of an endpoint, but for the contexts.                         *)
StateWith(c, o) ==
    [known : SUBSET Endpoint, enabled : BOOLEAN, calls : Seq(Call), enabling : Nat,
     starting : Nat, key : Key \cup {NoKey}, index : Nat \cup {-1}, reqs : SUBSET Request,
     rotations : SUBSET Nat, session : [Endpoint -> Session \cup {NoSession}],
     pending : [Endpoint -> Nat], inits : [Endpoint -> Nat],
     lastKey : [Endpoint -> Key \cup {NoKey, Unset}], asked : SUBSET Endpoint,
     rotate : BOOLEAN, ratchet : BOOLEAN, material : Key \cup {NoKey}, raced : BOOLEAN,
     gone : SUBSET Endpoint, ctx : {c}, old : {o}]

(* The state s of e, which has a context for everybody and uses its own    *)
(* keys only in its own.                                                   *)
Typed(s, e) ==
  /\ s \in StateWith(s.ctx, s.old)
  /\ s.ctx = [p \in Endpoint |-> s.ctx[p]] /\ s.ctx[e] \in Context

(* The key is a key of e made so far.                                      *)
Made(key, e, index) == key # NoKey => key.owner = e /\ key.n <= index

(* With no change of key under way the key is the one in use.              *)
Current(s, e) ==
  s.rotations = {} /\ (\A i \in DOMAIN s.calls : s.calls[i].phase # "key") =>
    Encode(s.ctx[e]).key = s.key

(* A call of setEnabled has begun, and is not through or never will be.    *)
Opening(s) == s.starting # 0 \/ \E i \in DOMAIN s.calls : s.calls[i].phase = "hung"

EpOK(s, e) ==
  /\ Typed(s, e)
  /\ e \notin s.known /\ e \notin s.asked
  /\ Made(s.key, e, s.index) /\ Made(s.material, e, s.index)
  /\ Current(s, e)
  /\ s.starting # 0 => /\ s.starting \in DOMAIN s.calls
                       /\ s.calls[s.starting].phase = "init"
  /\ s.enabled => Opening(s) \/ s.key # NoKey

KeyTypes == {"session-ack", "key-info", "key-info-ack"}

MessageFrom(m, e) == m \in Message /\ (m.type \in KeyTypes /\ m.key # NoKey => m.key.owner = e)

MessageOK(m, e, index) == m \in Message /\ (m.type \in KeyTypes => Made(m.key, e, index))

Nets == [Endpoint -> [Endpoint -> Seq(Message)]]

(* What is under way in n: nothing to those who are not in R, keys of the  *)
(* sender only, and from those in L nothing after their departure.         *)
NetGood(n, R, L, x) ==
  /\ n \in Nets
  /\ \A e \in Endpoint : n[e][e] = <<>>
  /\ \A e, p \in Endpoint : p \notin R => n[e][p] = <<>>
  /\ \A e, p \in Endpoint : \A i \in DOMAIN n[e][p] :
       /\ MessageFrom(n[e][p][i], e)
       /\ e \notin L => MessageOK(n[e][p][i], e, x[e].index)
  /\ \A l, e \in Endpoint :
       l \in L /\ n[l][e] # <<>> => n[l][e][Len(n[l][e])].type = "left"

NetOK == NetGood(net, room \cap Encrypting, left, ep)

RoomOK ==
  /\ room \subseteq Endpoint /\ left \subseteq Endpoint /\ room \cap left = {}
  /\ ep = [e \in Endpoint |-> ep[e]]
  /\ \A e \in Endpoint : EpOK(ep[e], e)
  /\ \A e \in Endpoint : e \notin room \cap Encrypting => ep[e] = New

HeardOK ==
  /\ heard \in [Endpoint -> SUBSET Key]
  /\ \A e \in Endpoint, q \in Endpoint : e \notin left =>
       \A k \in heard[q] : k.owner = e => k.n <= ep[e].index

(* None of the keys H is of the number of the key of e, or of a later one. *)
Unknown(key, e, H) == key # NoKey => \A k \in H : k.owner = e => k.n < key.n

(* Of the keys H, which l was told before it left, none is of the number   *)
(* that e uses: l left before that key was made, or the one that a ratchet *)
(* has taken, or else e is about to rotate, or has rotated since.          *)
LockedOut(s, e, l, H) ==
  /\ l \notin s.gone => Unknown(s.key, e, H) /\ Unknown(s.material, e, H)
  /\ s.enabled /\ ~s.rotate =>
       Opening(s) \/ s.raced \/ (s.key # NoKey /\ Unknown(s.key, e, H))

LockedOutOK ==
  \A l \in left, e \in room : net[l][e] = <<>> => LockedOut(ep[e], e, l, heard[l])

IInv == RoomOK /\ NetOK /\ HeardOK /\ LockedOutOK

(* The keys of t are new, or those of s when nobody is forgotten that left *)
(* since those were made.                                                  *)
Inherits(s, t) ==
  LET new(k) == k = NoKey \/ s.index < k.n
      old(k) == \E j \in {s.key, s.material} : j # NoKey /\ k.n = j.n
  IN  \/ new(t.key) /\ new(t.material)
      \/ s.gone \subseteq t.gone /\ \A k \in {t.key, t.material} : new(k) \/ old(k)

(* Those who left do not know the key of t, unless a ratchet has           *)
(* overwritten it, or it is to be replaced.                                *)
Shuts(s, t) ==
  t.enabled /\ ~t.rotate =>
    \/ Opening(t) \/ t.raced
    \/ t.key # NoKey /\ s.index < t.key.n
    \/ /\ s.enabled /\ ~s.rotate /\ ~Opening(s) /\ ~s.raced
       /\ t.key # NoKey /\ (s.key # NoKey => t.key.n = s.key.n)

(* A step of e from the state s to t leaves nobody who left with its key.  *)
Keeps(s, t) == Inherits(s, t) /\ Shuts(s, t)

-----------------------------------------------------------------------------
(***************************************************************************)
(* Rings and calls.                                                        *)
(***************************************************************************)

LEMMA OwnContext ==
  ASSUME NEW c \in Context, NEW key \in Key \cup {NoKey}, NEW index \in Nat \cup {-1}
  PROVE  SetKeys(c, key, index) \in Context /\ Encode(SetKeys(c, key, index)).key = key
<1> DEFINE cur == IF index >= 0 THEN index % RingSize ELSE c.cur
<1>1. cur \in Position /\ c.ring \in [Position -> Key \cup {NoKey}]
  BY RingAssumption DEF Position, Context
<1> HIDE DEF cur
<1>2. SetKeys(c, key, index) = [ring |-> [c.ring EXCEPT ![cur] = key], cur |-> cur]
  BY DEF SetKeys, cur
<1>3. /\ [c.ring EXCEPT ![cur] = key] \in [Position -> Key \cup {NoKey}]
      /\ [c.ring EXCEPT ![cur] = key][cur] = key
  BY <1>1
<1> QED BY <1>1, <1>2, <1>3 DEF Context, Encode

LEMMA NewContextOK == NewContext \in Context /\ Encode(NewContext).key = NoKey
BY RingAssumption DEF NewContext, Context, Position, Encode

LEMMA FreshKeyOK ==
  ASSUME NEW s, NEW e \in Endpoint, s.index \in Nat \cup {-1}
  PROVE  /\ FreshKey(s, e) \in Key /\ FreshKey(s, e) # NoKey
         /\ FreshKey(s, e).owner = e /\ FreshKey(s, e).n = s.index + 1
BY ExchangeAssumption, RingAssumption DEF FreshKey, Key

LEMMA RatchetOK ==
  ASSUME NEW key \in Key
  PROVE  /\ Ratchet(key) \in Key /\ Ratchet(key) # NoKey
         /\ Ratchet(key).owner = key.owner /\ Ratchet(key).n = key.n
BY RingAssumption DEF Ratchet, Key

LEMMA OneCall ==
  ASSUME NEW c \in Seq(Call), NEW i \in DOMAIN c, NEW x \in Call
  PROVE  /\ [c EXCEPT ![i] = x] \in Seq(Call) /\ DOMAIN [c EXCEPT ![i] = x] = DOMAIN c
         /\ \A j \in DOMAIN c : [c EXCEPT ![i] = x][j] = IF j = i THEN x ELSE c[j]
BY ExceptSeq

LEMMA OnePhase ==
  ASSUME NEW c \in Seq(Call), NEW i \in DOMAIN c,
         NEW ph \in {"wait", "init", "key", "done", "hung"}
  PROVE  /\ [c EXCEPT ![i].phase = ph] \in Seq(Call)
         /\ DOMAIN [c EXCEPT ![i].phase = ph] = DOMAIN c
         /\ \A j \in DOMAIN c : [c EXCEPT ![i].phase = ph][j].phase =
                                  IF j = i THEN ph ELSE c[j].phase
<1> DEFINE x == [c[i] EXCEPT !.phase = ph]
<1>1. c[i] \in Call
  BY ElementOfSeq
<1>2. x \in Call /\ x.phase = ph
  BY <1>1 DEF Call
<1>3. [c EXCEPT ![i].phase = ph] = [c EXCEPT ![i] = x]
  OBVIOUS
<1> HIDE DEF x
<1> QED BY <1>2, <1>3, OneCall

LEMMA NewCall ==
  ASSUME NEW c \in Seq(Call), NEW x \in Call
  PROVE  /\ Append(c, x) \in Seq(Call) /\ DOMAIN c \subseteq DOMAIN Append(c, x)
         /\ \A j \in DOMAIN Append(c, x) : Append(c, x)[j] = IF j \in DOMAIN c THEN c[j] ELSE x
BY AppendProperties

-----------------------------------------------------------------------------
(***************************************************************************)
(* The state of an endpoint.                                               *)
(***************************************************************************)

LEMMA NewOK ==
  ASSUME NEW e \in Endpoint
  PROVE  /\ EpOK(New, e) /\ New.index = -1 /\ New.enabled = FALSE
         /\ New.key = NoKey /\ New.material = NoKey
<1>1. New \in StateWith(New.ctx, New.old)
  <2>1. <<>> \in Seq(Call)
    OBVIOUS
  <2> QED BY <2>1 DEF New, StateWith
<1>2. /\ New.ctx = [p \in Endpoint |-> NewContext] /\ New.calls = <<>> /\ New.starting = 0
      /\ New.known = {} /\ New.asked = {} /\ New.key = NoKey /\ New.material = NoKey
      /\ New.enabled = FALSE /\ New.index = -1
  BY DEF New
<1>3. Typed(New, e)
  BY <1>1, <1>2, NewContextOK DEF Typed
<1> QED BY <1>2, <1>3, NewContextOK DEF EpOK, Made, Current

(* The types of the state of an endpoint.                                  *)
LEMMA TypedFields ==
  ASSUME NEW s, NEW e \in Endpoint, Typed(s, e)
  PROVE  /\ s.known \in SUBSET Endpoint /\ s.enabled \in BOOLEAN /\ s.calls \in Seq(Call)
         /\ s.enabling \in Nat /\ s.starting \in Nat /\ s.key \in Key \cup {NoKey}
         /\ s.index \in Nat \cup {-1} /\ s.reqs \in SUBSET Request /\ s.rotations \in SUBSET Nat
         /\ s.session \in [Endpoint -> Session \cup {NoSession}]
         /\ s.pending \in [Endpoint -> Nat] /\ s.inits \in [Endpoint -> Nat]
         /\ s.lastKey \in [Endpoint -> Key \cup {NoKey, Unset}] /\ s.asked \in SUBSET Endpoint
         /\ s.rotate \in BOOLEAN /\ s.ratchet \in BOOLEAN /\ s.material \in Key \cup {NoKey}
         /\ s.raced \in BOOLEAN /\ s.gone \in SUBSET Endpoint
         /\ s.ctx = [p \in Endpoint |-> s.ctx[p]] /\ s.ctx[e] \in Context
BY DEF Typed, StateWith

(* A step that leaves the key, the calls and the own context alone.        *)
LEMMA Alike ==
  ASSUME NEW s, NEW t, NEW e \in Endpoint, EpOK(s, e), Typed(t, e),
         e \notin t.known, e \notin t.asked, t.calls = s.calls, t.starting = s.starting,
         t.key = s.key, t.index = s.index, t.material \in {s.material, s.key},
         t.rotations = s.rotations, t.raced = s.raced, t.enabled = s.enabled,
         s.rotate => t.rotate, t.ctx[e] = s.ctx[e], s.gone \subseteq t.gone
  PROVE  EpOK(t, e) /\ Keeps(s, t) /\ s.index <= t.index
<1>1. s.index \in Nat \cup {-1} /\ s.rotate \in BOOLEAN /\ t.rotate \in BOOLEAN
  BY TypedFields DEF EpOK
<1>2. Made(t.key, e, t.index) /\ Made(t.material, e, t.index) /\ Current(t, e)
  BY DEF EpOK, Made, Current
<1>3. Opening(t) <=> Opening(s)
  BY DEF Opening
<1>4. EpOK(t, e)
  BY <1>2, <1>3 DEF EpOK
<1>5. Shuts(s, t)
  BY <1>1, <1>3, <1>4 DEF EpOK, Shuts
<1>6. Inherits(s, t)
  BY DEF Inherits
<1> QED BY <1>1, <1>4, <1>5, <1>6 DEF Keeps

-----------------------------------------------------------------------------
(***************************************************************************)
(* The messages under way.                                                 *)
(***************************************************************************)

LEMMA MessageGrows ==
  ASSUME NEW e \in Endpoint, NEW m, NEW i \in Nat \cup {-1}, NEW j \in Nat \cup {-1},
         MessageOK(m, e, i), i <= j
  PROVE  MessageOK(m, e, j) /\ MessageFrom(m, e)
<1>1. CASE m.type \in KeyTypes /\ m.key # NoKey
  <2>1. m.key \in Key /\ m.key.n \in Nat
    BY <1>1 DEF MessageOK, Message, Key, KeyTypes
  <2> QED BY <1>1, <2>1 DEF MessageOK, MessageFrom, Made
<1>2. CASE ~(m.type \in KeyTypes /\ m.key # NoKey)
  BY <1>2 DEF MessageOK, MessageFrom, Made
<1> QED BY <1>1, <1>2

(* Endpoints make more keys.                                               *)
LEMMA NetGrows ==
  ASSUME NEW n, NEW R, NEW L, NEW x, NEW y, NetGood(n, R, L, x),
         \A e \in Endpoint : /\ x[e].index \in Nat \cup {-1} /\ y[e].index \in Nat \cup {-1}
                             /\ x[e].index <= y[e].index
  PROVE  NetGood(n, R, L, y)
<1>1. ASSUME NEW e \in Endpoint, NEW p \in Endpoint, NEW i \in DOMAIN n[e][p], e \notin L
      PROVE  MessageOK(n[e][p][i], e, y[e].index)
  BY <1>1, MessageGrows DEF NetGood
<1> QED BY <1>1 DEF NetGood

(* Somebody joins; the others have mail for nobody new.                    *)
LEMMA NetJoins ==
  ASSUME NEW n, NEW R, NEW S, NEW L, NEW x, NetGood(n, R, L, x), R \subseteq S
  PROVE  NetGood(n, S, L, x)
BY DEF NetGood

(* Mail of e, which has made keys up to the index.                         *)
MailOK(mail, e, index) ==
  /\ mail \in [Endpoint -> Seq(Message)] /\ mail[e] = <<>>
  /\ \A p \in Endpoint : \A i \in DOMAIN mail[p] : MessageOK(mail[p][i], e, index)

(* One who has not left sends mail.                                        *)
LEMMA NetSends ==
  ASSUME NEW n, NEW L, NEW x, NetGood(n, room \cap Encrypting, L, x),
         NEW e \in Endpoint, e \notin L, x[e].index \in Nat \cup {-1},
         NEW mail, MailOK(mail, e, x[e].index)
  PROVE  /\ NetGood(Send(n, e, mail), room \cap Encrypting, L, x)
         /\ \A q \in Endpoint \ {e} : Send(n, e, mail)[q] = n[q]
<1> DEFINE R == room \cap Encrypting
           u == [p \in Endpoint |-> IF p \in R THEN n[e][p] \o mail[p] ELSE <<>>]
           r == Send(n, e, mail)
<1>0. /\ mail \in [Endpoint -> Seq(Message)] /\ mail[e] = <<>>
      /\ \A p \in Endpoint : \A i \in DOMAIN mail[p] : MessageOK(mail[p][i], e, x[e].index)
  BY DEF MailOK
<1>1. n \in Nets /\ n[e] \in [Endpoint -> Seq(Message)]
  BY DEF NetGood, Nets
<1>2. r = [n EXCEPT ![e] = u]
  BY <1>1 DEF Send
<1>3. \A p \in Endpoint : u[p] \in Seq(Message)
  <2>1. <<>> \in Seq(Message)
    OBVIOUS
  <2> QED BY <1>0, <1>1, <2>1, ConcatProperties
<1>4. ASSUME NEW p \in Endpoint, NEW i \in DOMAIN u[p]
      PROVE  MessageOK(u[p][i], e, x[e].index)
  <2>1. CASE p \in R
    <3>1. n[e][p] \in Seq(Message) /\ mail[p] \in Seq(Message) /\ u[p] = n[e][p] \o mail[p]
      BY <1>0, <1>1, <2>1
    <3>2. /\ i \in 1..(Len(n[e][p]) + Len(mail[p]))
          /\ u[p][i] = IF i <= Len(n[e][p]) THEN n[e][p][i] ELSE mail[p][i - Len(n[e][p])]
      BY <1>0, <1>1, <1>3, <3>1, ConcatProperties
    <3>3. CASE i <= Len(n[e][p])
      <4>1. i \in DOMAIN n[e][p]
        BY <3>1, <3>2, <3>3
      <4> QED BY <3>2, <3>3, <4>1 DEF NetGood
    <3>4. CASE ~(i <= Len(n[e][p]))
      <4>1. i - Len(n[e][p]) \in DOMAIN mail[p]
        BY <1>0, <3>1, <3>2, <3>4
      <4> QED BY <1>0, <3>2, <3>4, <4>1
    <3> QED BY <3>3, <3>4
  <2>2. CASE p \notin R
    <3>1. u[p] = <<>>
      BY <2>2
    <3> HIDE DEF u
    <3> QED BY <3>1
  <2> QED BY <2>1, <2>2
<1>5. u[e] = <<>>
  <2>1. n[e][e] = <<>>
    BY DEF NetGood
  <2>2. <<>> \o <<>> = <<>>
    OBVIOUS
  <2> QED BY <1>0, <2>1, <2>2
<1>6. \A p \in Endpoint : p \notin R => u[p] = <<>>
  OBVIOUS
<1>7. u \in [Endpoint -> Seq(Message)]
  BY <1>3
<1> HIDE DEF u, R
<1>8. r \in Nets /\ r[e] = u /\ \A q \in Endpoint \ {e} : r[q] = n[q]
  BY <1>1, <1>2, <1>7 DEF Nets
<1> HIDE DEF r
<1>9. ASSUME NEW q \in Endpoint
      PROVE  /\ r[q][q] = <<>>
             /\ \A p \in Endpoint : p \notin R => r[q][p] = <<>>
             /\ \A p \in Endpoint : \A i \in DOMAIN r[q][p] :
                  /\ MessageFrom(r[q][p][i], q)
                  /\ q \notin L => MessageOK(r[q][p][i], q, x[q].index)
             /\ q \in L => \A p \in Endpoint : r[q][p] # <<>> => r[q][p][Len(r[q][p])].type = "left"
  <2>1. CASE q = e
    BY <1>4, <1>5, <1>6, <1>8, <2>1, MessageGrows
  <2>2. CASE q # e
    BY <1>8, <2>2 DEF NetGood, R
  <2> QED BY <2>1, <2>2
<1>10. NetGood(r, R, L, x)
  BY <1>8, <1>9 DEF NetGood
<1> QED BY <1>8, <1>10 DEF r, R

(* e takes the next message from p.                                        *)
LEMMA NetTakes ==
  ASSUME NEW n, NEW R, NEW L, NEW x, NetGood(n, R, L, x),
         NEW e \in Endpoint, NEW p \in Endpoint, n[p][e] # <<>>
  PROVE  LET r == [n EXCEPT ![p][e] = Tail(@)] IN
         /\ NetGood(r, R, L, x)
         /\ r[p][e] = Tail(n[p][e])
         /\ \A q, w \in Endpoint : <<q, w>> # <<p, e>> => r[q][w] = n[q][w]
         /\ p \in L /\ Tail(n[p][e]) = <<>> => Head(n[p][e]).type = "left"
         /\ Head(n[p][e]) \in Message /\ MessageFrom(Head(n[p][e]), p)
         /\ p \notin L => MessageOK(Head(n[p][e]), p, x[p].index)
<1> DEFINE r == [n EXCEPT ![p][e] = Tail(@)]
           c == n[p][e]
<1>1. n \in Nets /\ c \in Seq(Message) /\ c # <<>>
  BY DEF NetGood, Nets
<1>2. /\ Tail(c) \in Seq(Message) /\ Head(c) \in Message /\ Head(c) = c[1] /\ 1 \in DOMAIN c
      /\ Len(Tail(c)) = Len(c) - 1 /\ \A i \in DOMAIN Tail(c) : Tail(c)[i] = c[i + 1]
      /\ Len(c) \in Nat \ {0}
  BY <1>1, HeadTailProperties, EmptySeq
<1>3. r \in Nets /\ r[p][e] = Tail(c)
      /\ \A q, w \in Endpoint : <<q, w>> # <<p, e>> => r[q][w] = n[q][w]
  BY <1>1, <1>2 DEF Nets
<1>4. /\ \A i \in DOMAIN c : /\ MessageFrom(c[i], p)
                             /\ p \notin L => MessageOK(c[i], p, x[p].index)
      /\ p \in L => c[Len(c)].type = "left"
  BY <1>1 DEF NetGood
<1> HIDE DEF r
<1>5. /\ \A i \in DOMAIN r[p][e] : /\ MessageFrom(r[p][e][i], p)
                                   /\ p \notin L => MessageOK(r[p][e][i], p, x[p].index)
      /\ p \in L /\ r[p][e] # <<>> => r[p][e][Len(r[p][e])].type = "left"
  <2>1. \A i \in DOMAIN Tail(c) : i + 1 \in DOMAIN c
    BY <1>1, <1>2
  <2>2. Tail(c) # <<>> => Len(Tail(c)) \in DOMAIN Tail(c) /\ Len(Tail(c)) + 1 = Len(c)
    BY <1>2, EmptySeq
  <2> QED BY <1>2, <1>3, <1>4, <2>1, <2>2
<1>6. NetGood(r, R, L, x)
  <2>1. \A q, w \in Endpoint :
          /\ q = w => r[q][w] = <<>>
          /\ w \notin R => r[q][w] = <<>>
          /\ \A i \in DOMAIN r[q][w] :
               /\ MessageFrom(r[q][w][i], q)
               /\ q \notin L => MessageOK(r[q][w][i], q, x[q].index)
          /\ q \in L /\ r[q][w] # <<>> => r[q][w][Len(r[q][w])].type = "left"
    <3> SUFFICES ASSUME NEW q \in Endpoint, NEW w \in Endpoint
                 PROVE  /\ q = w => r[q][w] = <<>>
                        /\ w \notin R => r[q][w] = <<>>
                        /\ \A i \in DOMAIN r[q][w] :
                             /\ MessageFrom(r[q][w][i], q)
                             /\ q \notin L => MessageOK(r[q][w][i], q, x[q].index)
                        /\ q \in L /\ r[q][w] # <<>> => r[q][w][Len(r[q][w])].type = "left"
      OBVIOUS
    <3>1. CASE q = p /\ w = e
      BY <1>1, <1>5, <3>1 DEF NetGood
    <3>2. CASE ~(q = p /\ w = e)
      BY <1>3, <3>2 DEF NetGood
    <3> QED BY <3>1, <3>2
  <2> QED BY <1>3, <2>1 DEF NetGood
<1>7. p \in L /\ Tail(c) = <<>> => Head(c).type = "left"
  <2>1. \A d : d = <<>> => Len(d) = 0
    OBVIOUS
  <2>2. Tail(c) = <<>> => Len(c) = 1
    <3> DEFINE d == Tail(c)
    <3>1. Len(d) = Len(c) - 1 /\ Len(c) \in Nat
      BY <1>2
    <3> HIDE DEF d
    <3>2. d = <<>> => Len(c) = 1
      BY <2>1, <3>1
    <3> QED BY <3>2 DEF d
  <2> QED BY <1>2, <1>4, <2>2
<1> QED BY <1>2, <1>3, <1>4, <1>6, <1>7 DEF r

-----------------------------------------------------------------------------
(***************************************************************************)
(* What a step of one endpoint may do.                                     *)
(***************************************************************************)

LEMMA Letters ==
  ASSUME NEW mail, NEW e \in Endpoint, NEW index, mail = [p \in Endpoint |-> mail[p]],
         mail[e] = <<>>,
         \A p \in Endpoint : mail[p] = <<>> \/ \E m : mail[p] = <<m>> /\ MessageOK(m, e, index)
  PROVE  MailOK(mail, e, index)
<1>1. ASSUME NEW p \in Endpoint
      PROVE  /\ mail[p] \in Seq(Message)
             /\ \A i \in DOMAIN mail[p] : MessageOK(mail[p][i], e, index)
  <2>1. CASE mail[p] = <<>>
    BY <2>1
  <2>2. CASE \E m : mail[p] = <<m>> /\ MessageOK(m, e, index)
    <3>1. PICK m : mail[p] = <<m>> /\ MessageOK(m, e, index)
      BY <2>2
    <3>2. m \in Message
      BY <3>1 DEF MessageOK
    <3>3. <<m>> \in Seq(Message) /\ DOMAIN <<m>> = {1} /\ <<m>>[1] = m
      BY <3>2
    <3> QED BY <3>1, <3>3
  <2> QED BY <2>1, <2>2
<1> QED BY <1>1 DEF MailOK

LEMMA NothingOK == ASSUME NEW e \in Endpoint, NEW index PROVE MailOK(Nothing, e, index)
BY DEF MailOK, Nothing

LEMMA PlainOK ==
  ASSUME NEW e, NEW index, NEW type \in {"joined", "left", "on", "off", "session-init"}, NEW n \in Nat
  PROVE  MessageOK([type |-> type, n |-> n], e, index)
BY DEF MessageOK, Message, KeyTypes

LEMMA KeyInfoOK ==
  ASSUME NEW e \in Endpoint, NEW s, Typed(s, e), Made(s.key, e, s.index),
         NEW type \in KeyTypes, NEW session \in Session, NEW n \in Nat
  PROVE  MessageOK(KeyInfo(type, s, session, n), e, s.index)
<1>1. s.key \in Key \cup {NoKey} /\ s.index \in Nat \cup {-1}
  BY TypedFields
<1> QED BY <1>1 DEF MessageOK, KeyInfo, Message, KeyTypes, Made

(* The state of one endpoint changes.                                      *)
LEMMA OneMoves ==
  ASSUME RoomOK, NEW e \in room \cap Encrypting, NEW t, EpOK(t, e), ep[e].index <= t.index,
         ep' = [ep EXCEPT ![e] = t], room' = room, left' = left
  PROVE  /\ RoomOK' /\ ep'[e] = t /\ \A q \in Endpoint \ {e} : ep'[q] = ep[q]
         /\ \A q \in Endpoint : /\ ep[q].index \in Nat \cup {-1} /\ ep'[q].index \in Nat \cup {-1}
                                /\ ep[q].index <= ep'[q].index
         /\ e \in Endpoint /\ e \notin left /\ EpOK(ep[e], e)
<1>1. e \in Endpoint /\ e \notin left /\ ep = [q \in Endpoint |-> ep[q]]
  BY DEF RoomOK
<1>2. ep'[e] = t /\ (\A q \in Endpoint \ {e} : ep'[q] = ep[q]) /\ ep' = [q \in Endpoint |-> ep'[q]]
  BY <1>1
<1>3. \A q \in Endpoint : EpOK(ep[q], q) /\ EpOK(ep'[q], q)
  BY <1>2 DEF RoomOK
<1>4. \A q \in Endpoint : ep[q].index \in Nat \cup {-1} /\ ep'[q].index \in Nat \cup {-1}
  BY <1>3, TypedFields DEF EpOK
<1>5. \A q \in Endpoint : ep[q].index <= ep'[q].index
  BY <1>2, <1>4
<1>6. RoomOK'
  BY <1>2, <1>3 DEF RoomOK
<1> QED BY <1>1, <1>2, <1>3, <1>4, <1>5, <1>6

(* What a step of e keeps, it keeps of those who have left.                *)
LEMMA KeepsOut ==
  ASSUME NEW s, NEW t, NEW e, NEW H, Keeps(s, t), s.index \in Nat \cup {-1},
         t.key # NoKey => t.key.n \in Nat, t.material # NoKey => t.material.n \in Nat,
         H \subseteq Key, \A k \in H : k.owner = e => k.n <= s.index,
         NEW l, LockedOut(s, e, l, H)
  PROVE  LockedOut(t, e, l, H)
<1>1. \A k \in H : k.n \in Nat
  BY DEF Key
<1>2. ASSUME t.enabled /\ ~t.rotate
      PROVE  Opening(t) \/ t.raced \/ (t.key # NoKey /\ Unknown(t.key, e, H))
  <2>1. CASE t.key # NoKey /\ s.index < t.key.n
    BY <1>1, <2>1 DEF Unknown
  <2>2. CASE /\ s.enabled /\ ~s.rotate /\ ~Opening(s) /\ ~s.raced
             /\ t.key # NoKey /\ (s.key # NoKey => t.key.n = s.key.n)
    <3>1. s.key # NoKey /\ Unknown(s.key, e, H)
      BY <2>2 DEF LockedOut
    <3> QED BY <2>2, <3>1 DEF Unknown
  <2> QED BY <1>2, <2>1, <2>2 DEF Keeps, Shuts
<1>3. ASSUME l \notin t.gone
      PROVE  Unknown(t.key, e, H) /\ Unknown(t.material, e, H)
  <2>1. ASSUME NEW k, k # NoKey => k.n \in Nat, k = NoKey \/ s.index < k.n
        PROVE  Unknown(k, e, H)
    BY <1>1, <2>1 DEF Unknown
  <2>2. CASE s.gone \subseteq t.gone
    <3>1. Unknown(s.key, e, H) /\ Unknown(s.material, e, H)
      BY <1>3, <2>2 DEF LockedOut
    <3>2. ASSUME NEW k, \E j \in {s.key, s.material} : j # NoKey /\ k.n = j.n
          PROVE  Unknown(k, e, H)
      BY <3>1, <3>2 DEF Unknown
    <3> QED BY <2>1, <3>2 DEF Keeps, Inherits
  <2>3. CASE ~(s.gone \subseteq t.gone)
    BY <2>1, <2>3 DEF Keeps, Inherits
  <2> QED BY <2>2, <2>3
<1> QED BY <1>2, <1>3 DEF LockedOut

(* A step of e that takes no message.                                      *)
LEMMA StepKeeps ==
  ASSUME IInv, NEW e \in room \cap Encrypting, NEW t, EpOK(t, e), ep[e].index <= t.index,
         Keeps(ep[e], t), ep' = [ep EXCEPT ![e] = t], room' = room, left' = left,
         heard' = heard,
         \/ net' = net
         \/ \E mail : MailOK(mail, e, t.index) /\ net' = Send(net, e, mail)
  PROVE  IInv'
<1>1. RoomOK /\ NetOK /\ HeardOK /\ LockedOutOK
  BY DEF IInv
<1>2. /\ RoomOK' /\ ep'[e] = t /\ \A q \in Endpoint \ {e} : ep'[q] = ep[q]
      /\ \A q \in Endpoint : /\ ep[q].index \in Nat \cup {-1} /\ ep'[q].index \in Nat \cup {-1}
                             /\ ep[q].index <= ep'[q].index
      /\ e \in Endpoint /\ e \notin left /\ EpOK(ep[e], e)
  BY <1>1, OneMoves
<1>3. NetGood(net, room \cap Encrypting, left, ep')
  BY <1>1, <1>2, NetGrows DEF NetOK
<1>4. NetGood(net', room \cap Encrypting, left, ep') /\ \A q \in Endpoint \ {e} : net'[q] = net[q]
  <2>1. CASE net' = net
    BY <1>3, <2>1
  <2>2. CASE \E mail : MailOK(mail, e, t.index) /\ net' = Send(net, e, mail)
    <3>1. PICK mail : MailOK(mail, e, t.index) /\ net' = Send(net, e, mail)
      BY <2>2
    <3> DEFINE x == ep'
    <3>2. NetGood(net, room \cap Encrypting, left, x) /\ x[e].index = t.index
          /\ x[e].index \in Nat \cup {-1}
      BY <1>2, <1>3
    <3>0. e \in Endpoint /\ e \notin left
      BY <1>2
    <3> HIDE DEF x
    <3>3. MailOK(mail, e, x[e].index)
      BY <3>1, <3>2
    <3>4. /\ NetGood(Send(net, e, mail), room \cap Encrypting, left, x)
          /\ \A q \in Endpoint \ {e} : Send(net, e, mail)[q] = net[q]
      BY ONLY <3>0, <3>2, <3>3, NetSends
    <3> QED BY <3>1, <3>4 DEF x
  <2> QED BY <2>1, <2>2
<1>5. NetOK'
  BY <1>4 DEF NetOK
<1>6. HeardOK'
  <2>1. ASSUME NEW q \in Endpoint, NEW w \in Endpoint, q \notin left, NEW k \in heard[w],
               k.owner = q
        PROVE  k.n <= ep'[q].index
    <3>1. k \in Key /\ k.n <= ep[q].index
      BY <1>1, <2>1 DEF HeardOK
    <3> QED BY <1>2, <3>1 DEF Key
  <2> QED BY <1>1, <2>1 DEF HeardOK
<1>7. LockedOutOK'
  <2>1. ASSUME NEW l \in left, NEW q \in room, net'[l][q] = <<>>
        PROVE  LockedOut(ep'[q], q, l, heard[l])
    <3>1. l \in Endpoint /\ l # e /\ q \in Endpoint
      BY <1>1, <1>2 DEF RoomOK
    <3>2. net[l][q] = <<>>
      BY <1>4, <2>1, <3>1
    <3>3. LockedOut(ep[q], q, l, heard[l])
      BY <1>1, <2>1, <3>2 DEF LockedOutOK
    <3>4. CASE q # e
      BY <1>2, <3>1, <3>3, <3>4
    <3>5. CASE q = e
      <4>1. heard[l] \subseteq Key /\ \A k \in heard[l] : k.owner = e => k.n <= ep[e].index
        BY <1>1, <1>2, <3>1 DEF HeardOK
      <4>2. /\ t.key # NoKey => t.key.n \in Nat
            /\ t.material # NoKey => t.material.n \in Nat
        BY <1>2, TypedFields DEF EpOK, Key
      <4>3. ep[e].index \in Nat \cup {-1} /\ LockedOut(ep[e], e, l, heard[l])
        BY <1>2, <3>3, <3>5
      <4>4. LockedOut(t, e, l, heard[l])
        BY <4>1, <4>2, <4>3, KeepsOut
      <4> QED BY <1>2, <3>5, <4>4
    <3> QED BY <3>4, <3>5
  <2> QED BY <1>1, <2>1 DEF LockedOutOK
<1> QED BY <1>2, <1>5, <1>6, <1>7 DEF IInv

(* The next message from p is one of p's, and there is one only for those  *)
(* who encrypt in the room.                                                *)
LEMMA PickedUp ==
  ASSUME IInv, NEW e \in Endpoint, NEW p \in Endpoint, net[p][e] # <<>>
  PROVE  /\ e \in room \cap Encrypting /\ e # p
         /\ EpOK(ep[e], e)
         /\ Head(net[p][e]).n \in Nat
         /\ MessageFrom(Head(net[p][e]), p)
         /\ p \notin left => MessageOK(Head(net[p][e]), p, ep[p].index)
         /\ Head(net[p][e]).type \in KeyTypes =>
              /\ Head(net[p][e]).key \in Key \cup {NoKey}
              /\ Head(net[p][e]).index \in Nat \cup {-1}
              /\ Head(net[p][e]).session \in Session
<1>1. /\ Head(net[p][e]) \in Message /\ MessageFrom(Head(net[p][e]), p)
      /\ p \notin left => MessageOK(Head(net[p][e]), p, ep[p].index)
  BY NetTakes DEF IInv, NetOK
<1>2. e \in room \cap Encrypting /\ e # p
  BY DEF IInv, NetOK, NetGood
<1>3. EpOK(ep[e], e)
  BY DEF IInv, RoomOK
<1> QED BY <1>1, <1>2, <1>3 DEF Message, KeyTypes

(* e takes the next message from p.                                        *)
LEMMA DeliverKeeps ==
  ASSUME IInv, NEW e \in Endpoint, NEW p \in Endpoint, net[p][e] # <<>>,
         NEW t, EpOK(t, e), ep[e].index <= t.index, Keeps(ep[e], t),
         Head(net[p][e]).type = "left" => p \in t.gone /\ (t.enabled => t.rotate),
         NEW mail, MailOK(mail, e, t.index), Deliver(e, p, t, mail),
         \/ heard' = heard
         \/ /\ Head(net[p][e]).type \in KeyTypes
            /\ Hears(e, p, Head(net[p][e]).key, TRUE) \/ Hears(e, p, Head(net[p][e]).key, FALSE)
  PROVE  IInv'
<1> DEFINE m == Head(net[p][e])
           n == [net EXCEPT ![p][e] = Tail(@)]
<1>1. RoomOK /\ NetOK /\ HeardOK /\ LockedOutOK
  BY DEF IInv
<1>2. /\ e \in room \cap Encrypting /\ e # p
      /\ MessageFrom(m, p)
      /\ p \notin left => MessageOK(m, p, ep[p].index)
      /\ m.type \in KeyTypes => m.key \in Key \cup {NoKey}
  BY PickedUp
<1>3. ep' = [ep EXCEPT ![e] = t] /\ net' = Send(n, e, mail) /\ room' = room /\ left' = left
  BY DEF Deliver
<1>4. /\ RoomOK' /\ ep'[e] = t /\ \A q \in Endpoint \ {e} : ep'[q] = ep[q]
      /\ \A q \in Endpoint : /\ ep[q].index \in Nat \cup {-1} /\ ep'[q].index \in Nat \cup {-1}
                             /\ ep[q].index <= ep'[q].index
      /\ e \in Endpoint /\ e \notin left /\ EpOK(ep[e], e)
  BY <1>1, <1>2, <1>3, OneMoves
<1>5. NetGood(net, room \cap Encrypting, left, ep')
  BY <1>1, <1>4, NetGrows DEF NetOK
<1>6. /\ NetGood(n, room \cap Encrypting, left, ep')
      /\ n[p][e] = Tail(net[p][e])
      /\ \A q, w \in Endpoint : <<q, w>> # <<p, e>> => n[q][w] = net[q][w]
      /\ p \in left /\ Tail(net[p][e]) = <<>> => m.type = "left"
  BY <1>5, NetTakes
<1> HIDE DEF n
<1>7. NetGood(net', room \cap Encrypting, left, ep') /\ \A q \in Endpoint \ {e} : net'[q] = n[q]
  <2> DEFINE x == ep'
  <2>1. NetGood(n, room \cap Encrypting, left, x) /\ x[e].index = t.index
        /\ x[e].index \in Nat \cup {-1}
    BY <1>4, <1>6
  <2>0. e \in Endpoint /\ e \notin left
    BY <1>4
  <2> HIDE DEF x
  <2>2. MailOK(mail, e, x[e].index)
    BY <2>1
  <2>3. /\ NetGood(Send(n, e, mail), room \cap Encrypting, left, x)
        /\ \A q \in Endpoint \ {e} : Send(n, e, mail)[q] = n[q]
    BY ONLY <2>0, <2>1, <2>2, NetSends
  <2> QED BY <1>3, <2>3 DEF x
<1>8. NetOK'
  BY <1>3, <1>7 DEF NetOK
<1>9. /\ heard' \in [Endpoint -> SUBSET Key] /\ \A q \in Endpoint \ {e} : heard'[q] = heard[q]
      /\ \A k \in heard'[e] : \/ k \in heard[e]
                              \/ m.type \in KeyTypes /\ k = m.key /\ m.key # NoKey /\ m.key \in Key
  <2>1. heard \in [Endpoint -> SUBSET Key]
    BY <1>1 DEF HeardOK
  <2>2. CASE heard' = heard
    BY <2>1, <2>2
  <2>3. CASE m.type \in KeyTypes /\ heard' = [heard EXCEPT ![e] = IF m.key = NoKey THEN @
                                                                 ELSE @ \cup {m.key}]
    BY <1>2, <2>1, <2>3
  <2> QED BY <2>2, <2>3 DEF Hears
<1>10. HeardOK'
  <2>1. ASSUME NEW q \in Endpoint, NEW w \in Endpoint, q \notin left, NEW k \in heard'[w],
               k.owner = q
        PROVE  k.n <= ep'[q].index
    <3>1. CASE k \in heard[w]
      <4>1. k \in Key /\ k.n <= ep[q].index
        BY <1>1, <2>1, <3>1 DEF HeardOK
      <4> QED BY <1>4, <4>1 DEF Key
    <3>2. CASE k \notin heard[w]
      <4>1. m.type \in KeyTypes /\ k = m.key /\ m.key # NoKey /\ m.key \in Key
        BY <1>9, <2>1, <3>2
      <4>2. q = p
        BY <1>2, <2>1, <4>1 DEF MessageFrom
      <4>3. k.n <= ep[p].index
        BY <1>2, <2>1, <4>1, <4>2 DEF MessageOK, Made
      <4> QED BY <1>4, <4>1, <4>2, <4>3 DEF Key
    <3> QED BY <3>1, <3>2
  <2> QED BY <1>3, <1>9, <2>1 DEF HeardOK
<1>11. LockedOutOK'
  <2>1. ASSUME NEW l \in left, NEW q \in room, net'[l][q] = <<>>
        PROVE  LockedOut(ep'[q], q, l, heard'[l])
    <3>1. l \in Endpoint /\ l # e /\ q \in Endpoint /\ heard'[l] = heard[l] /\ n[l][q] = <<>>
      BY <1>1, <1>4, <1>7, <1>9, <2>1 DEF RoomOK
    <3>2. CASE net[l][q] = <<>>
      <4>1. LockedOut(ep[q], q, l, heard[l])
        BY <1>1, <2>1, <3>2 DEF LockedOutOK
      <4>2. CASE q # e
        BY <1>4, <3>1, <4>1, <4>2
      <4>3. CASE q = e
        <5>1. heard[l] \subseteq Key /\ \A k \in heard[l] : k.owner = e => k.n <= ep[e].index
          BY <1>1, <1>4, <3>1 DEF HeardOK
        <5>2. /\ t.key # NoKey => t.key.n \in Nat
              /\ t.material # NoKey => t.material.n \in Nat
          BY <1>4, TypedFields DEF EpOK, Key
        <5>3. ep[e].index \in Nat \cup {-1} /\ LockedOut(ep[e], e, l, heard[l])
          BY <1>4, <4>1, <4>3
        <5>4. LockedOut(t, e, l, heard[l])
          BY <5>1, <5>2, <5>3, KeepsOut
        <5> QED BY <1>4, <3>1, <4>3, <5>4
      <4> QED BY <4>2, <4>3
    <3>3. CASE net[l][q] # <<>>
      <4>1. l = p /\ q = e
        BY <1>4, <1>6, <3>1, <3>3
      <4>2. l \in t.gone /\ (t.enabled => t.rotate)
        BY <1>6, <2>1, <3>1, <4>1
      <4> QED BY <1>4, <4>1, <4>2 DEF LockedOut
    <3> QED BY <3>2, <3>3
  <2> QED BY <1>3, <2>1 DEF LockedOutOK
<1> QED BY <1>4, <1>8, <1>10, <1>11 DEF IInv

-----------------------------------------------------------------------------
(***************************************************************************)
(* What the handlers have in common.                                       *)
(***************************************************************************)

Kept(s, t) ==
  /\ t.known = s.known /\ t.enabled = s.enabled /\ t.calls = s.calls
  /\ t.starting = s.starting /\ t.rotations = s.rotations /\ t.asked = s.asked
  /\ t.rotate = s.rotate /\ t.material = s.material /\ t.session = s.session

KeyAlike(s, t) ==
  t.key = s.key /\ t.index = s.index /\ t.raced = s.raced /\ t.gone = s.gone

LEMMA UpdateKeyFields ==
  ASSUME NEW s, NEW e \in Endpoint, Typed(s, e), NEW key \in Key \cup {NoKey}
  PROVE  /\ Typed(UpdateKey(s, key), e) /\ Kept(s, UpdateKey(s, key))
         /\ UpdateKey(s, key).ctx = s.ctx
         /\ UpdateKey(s, key).key = key /\ UpdateKey(s, key).index = s.index + 1
         /\ UpdateKey(s, key).raced = FALSE
         /\ UpdateKey(s, key).gone = IF s.material = NoKey THEN {} ELSE s.gone
<1> DEFINE gone == IF s.material = NoKey THEN {} ELSE s.gone
           reqs == s.reqs \cup {[to |-> p, kind |-> "key", n |-> s.index + 1, by |-> 0] :
                                p \in HasSession(s)}
           t == [s EXCEPT !.key = key, !.index = s.index + 1, !.raced = FALSE, !.gone = gone,
                          !.reqs = reqs]
<1>1. s \in StateWith(s.ctx, s.old) /\ s.index + 1 \in Nat /\ s.reqs \in SUBSET Request
      /\ s.known \in SUBSET Endpoint /\ gone \in SUBSET Endpoint
  BY TypedFields DEF Typed
<1>2. reqs \in SUBSET Request
  BY <1>1 DEF Request, HasSession
<1>3. UpdateKey(s, key) = t
  BY DEF UpdateKey
<1> HIDE DEF reqs, gone
<1>4. t \in StateWith(s.ctx, s.old) /\ t.old = s.old /\ t.ctx = s.ctx /\ t.gone = gone
      /\ t.key = key /\ t.index = s.index + 1 /\ t.raced = FALSE /\ Kept(s, t)
  BY <1>1, <1>2 DEF StateWith, Kept
<1> HIDE DEF t
<1> QED BY <1>3, <1>4 DEF Typed, gone

LEMMA SendSessionInitFields ==
  ASSUME NEW s, NEW e \in Endpoint, Typed(s, e), NEW P \in SUBSET Endpoint, NEW by \in Nat
  PROVE  /\ Typed(SendSessionInit(s, P, by), e) /\ Kept(s, SendSessionInit(s, P, by))
         /\ KeyAlike(s, SendSessionInit(s, P, by)) /\ SendSessionInit(s, P, by).ctx = s.ctx
<1> DEFINE reqs == s.reqs \cup {[to |-> p, kind |-> "init", n |-> s.inits[p] + 1, by |-> by] :
                                p \in P}
           inits == [p \in Endpoint |-> IF p \in P THEN s.inits[p] + 1 ELSE s.inits[p]]
           pending == [p \in Endpoint |-> IF p \in P THEN s.inits[p] + 1 ELSE s.pending[p]]
           t == [s EXCEPT !.inits = inits, !.pending = pending, !.reqs = reqs]
<1>1. /\ s \in StateWith(s.ctx, s.old) /\ s.reqs \in SUBSET Request
      /\ s.inits \in [Endpoint -> Nat] /\ s.pending \in [Endpoint -> Nat]
  BY TypedFields DEF Typed
<1>2. reqs \in SUBSET Request /\ inits \in [Endpoint -> Nat] /\ pending \in [Endpoint -> Nat]
  BY <1>1 DEF Request
<1>3. SendSessionInit(s, P, by) = t
  BY DEF SendSessionInit
<1> HIDE DEF reqs, inits, pending
<1>4. t \in StateWith(s.ctx, s.old) /\ t.old = s.old /\ t.ctx = s.ctx
      /\ KeyAlike(s, t) /\ Kept(s, t)
  BY <1>1, <1>2 DEF StateWith, Kept, KeyAlike
<1> HIDE DEF t
<1> QED BY <1>3, <1>4 DEF Typed

LEMMA UseKeyFields ==
  ASSUME NEW s, NEW e \in Endpoint, Typed(s, e)
  PROVE  /\ Typed(UseKey(s, e), e) /\ Kept(s, UseKey(s, e)) /\ KeyAlike(s, UseKey(s, e))
         /\ Encode(UseKey(s, e).ctx[e]).key = s.key
<1> DEFINE own == SetKeys(s.ctx[e], s.key, s.index)
           ctx == [s.ctx EXCEPT ![e] = own]
           old == Encode(s.ctx[e])
           t == [s EXCEPT !.ctx = ctx, !.old = old]
<1>1. /\ s \in StateWith(s.ctx, s.old) /\ s.ctx = [p \in Endpoint |-> s.ctx[p]]
      /\ own \in Context /\ Encode(own).key = s.key
  BY TypedFields, OwnContext, ZenonT(60) DEF Typed
<1>2. UseKey(s, e) = t
  BY DEF UseKey
<1> HIDE DEF own
<1>3. ctx = [p \in Endpoint |-> ctx[p]] /\ ctx[e] = own
  BY <1>1
<1> HIDE DEF ctx, old
<1>4. t \in StateWith(ctx, old) /\ t.old = old /\ t.ctx = ctx
      /\ KeyAlike(s, t) /\ Kept(s, t)
  BY <1>1 DEF StateWith, Kept, KeyAlike
<1> HIDE DEF t
<1> QED BY <1>1, <1>2, <1>3, <1>4 DEF Typed

LEMMA ClearSessionFields ==
  ASSUME NEW s, NEW e \in Endpoint, Typed(s, e), NEW P
  PROVE  LET t == ClearSession(s, P) IN
         /\ Typed(t, e) /\ KeyAlike(s, t) /\ t.ctx = s.ctx
         /\ t.known = s.known /\ t.enabled = s.enabled /\ t.calls = s.calls
         /\ t.starting = s.starting /\ t.rotations = s.rotations /\ t.asked = s.asked
         /\ t.rotate = s.rotate /\ t.material = s.material /\ t.reqs = s.reqs
<1> DEFINE session == [p \in Endpoint |-> IF p \in P THEN NoSession ELSE s.session[p]]
           t == [s EXCEPT !.session = session]
<1>1. s \in StateWith(s.ctx, s.old) /\ s.session \in [Endpoint -> Session \cup {NoSession}]
  BY TypedFields DEF Typed
<1>2. session \in [Endpoint -> Session \cup {NoSession}]
  BY <1>1
<1>3. ClearSession(s, P) = t
  BY DEF ClearSession
<1> HIDE DEF session
<1>4. /\ t \in StateWith(s.ctx, s.old) /\ t.old = s.old /\ t.ctx = s.ctx /\ KeyAlike(s, t)
      /\ t.known = s.known /\ t.enabled = s.enabled /\ t.calls = s.calls
      /\ t.starting = s.starting /\ t.rotations = s.rotations /\ t.asked = s.asked
      /\ t.rotate = s.rotate /\ t.material = s.material /\ t.reqs = s.reqs
  BY <1>1, <1>2 DEF StateWith, KeyAlike
<1> HIDE DEF t
<1> QED BY <1>3, <1>4 DEF Typed

(* Mail with the key, or with a session-init, is for others.               *)
LEMMA KeyMailOK ==
  ASSUME NEW s, NEW e \in Endpoint, Typed(s, e), Made(s.key, e, s.index), e \notin s.known,
         s.index \in Nat
  PROVE  MailOK(KeyMail(s), e, s.index)
<1> DEFINE m(p) == KeyInfo("key-info", s, s.session[p], s.index)
           P == HasSession(s)
<1>1. KeyMail(s) = [p \in Endpoint |-> IF p \in P THEN <<m(p)>> ELSE <<>>]
  BY DEF KeyMail, Mail
<1>2. ASSUME NEW p \in P
      PROVE  p \in Endpoint /\ p # e /\ s.session[p] \in Session
  <2>1. /\ s.known \in SUBSET Endpoint
        /\ s.session \in [Endpoint -> Session \cup {NoSession}]
    BY TypedFields
  <2>2. p \in s.known /\ s.session[p] # NoSession
    BY <1>2 DEF HasSession
  <2> QED BY <2>1, <2>2
<1>3. ASSUME NEW p \in P
      PROVE  MessageOK(m(p), e, s.index)
  BY <1>2, <1>3, KeyInfoOK DEF KeyTypes
<1> HIDE DEF m, P
<1>4. \A p \in Endpoint : KeyMail(s)[p] = IF p \in P THEN <<m(p)>> ELSE <<>>
  BY <1>1
<1>5. e \notin P
  BY <1>2
<1> QED BY <1>1, <1>3, <1>4, <1>5, Letters

-----------------------------------------------------------------------------
(***************************************************************************)
(* Calls, timers and continuations.                                        *)
(***************************************************************************)

(* Only those who encrypt in the room have a state.                        *)
LEMMA Present ==
  ASSUME IInv, NEW e \in Endpoint
  PROVE  /\ EpOK(ep[e], e) /\ ep = [q \in Endpoint |-> ep[q]]
         /\ e \in room \cap Encrypting \/ ep[e] = New
         /\ room \subseteq Endpoint
BY DEF IInv, RoomOK

LEMMA SetEnabledKeeps ==
  ASSUME IInv, NEW e \in Endpoint, NEW want \in BOOLEAN, SetEnabled(e, want)
  PROVE  IInv'
<1> DEFINE s == ep[e]
           c == [want |-> want, phase |-> "wait", on |-> s.enabling]
           t == [s EXCEPT !.calls = Append(s.calls, c)]
<1>1. EpOK(s, e) /\ e \in room \cap Encrypting /\ ep = [q \in Endpoint |-> ep[q]]
  BY Present DEF SetEnabled
<1>2. /\ s \in StateWith(s.ctx, s.old) /\ s.calls \in Seq(Call) /\ s.starting \in Nat
      /\ s.index \in Nat \cup {-1} /\ s.enabling \in Nat
  BY <1>1, TypedFields DEF EpOK, Typed
<1>3. c \in Call /\ c.phase = "wait"
  BY <1>2 DEF Call
<1>4. ep' = [ep EXCEPT ![e] = t] /\ room' = room /\ left' = left /\ heard' = heard /\ net' = net
  BY <1>1 DEF SetEnabled, Unmoved
<1> HIDE DEF c
<1>5. /\ Append(s.calls, c) \in Seq(Call) /\ DOMAIN s.calls \subseteq DOMAIN Append(s.calls, c)
      /\ \A j \in DOMAIN Append(s.calls, c) :
           Append(s.calls, c)[j] = IF j \in DOMAIN s.calls THEN s.calls[j] ELSE c
  BY <1>2, <1>3, NewCall
<1>6. /\ t \in StateWith(s.ctx, s.old) /\ t.ctx = s.ctx /\ t.old = s.old
      /\ t.calls = Append(s.calls, c) /\ t.known = s.known /\ t.asked = s.asked
      /\ t.starting = s.starting /\ t.rotations = s.rotations /\ t.enabled = s.enabled
      /\ t.rotate = s.rotate /\ t.material = s.material /\ KeyAlike(s, t)
  BY <1>2, <1>5 DEF StateWith, KeyAlike
<1> HIDE DEF t, s
<1>7. \A j \in DOMAIN s.calls : j \in DOMAIN t.calls /\ t.calls[j] = s.calls[j]
  BY <1>5, <1>6
<1>8. Current(t, e)
  BY <1>1, <1>6, <1>7 DEF EpOK, Current, KeyAlike
<1>9. Opening(s) => Opening(t)
  BY <1>6, <1>7 DEF Opening
<1>10. Opening(t) => Opening(s)
  BY <1>3, <1>5, <1>6 DEF Opening
<1>11. EpOK(t, e)
  BY <1>1, <1>6, <1>7, <1>8, <1>9 DEF EpOK, Typed, Made, KeyAlike
<1>12. Keeps(s, t) /\ s.index <= t.index
  <2>1. Shuts(s, t) /\ s.index <= t.index
    BY <1>1, <1>2, <1>6, <1>9, <1>10 DEF Shuts, EpOK, KeyAlike
  <2>2. Inherits(s, t)
    BY <1>6 DEF Inherits, KeyAlike
  <2> QED BY <2>1, <2>2 DEF Keeps
<1> QED BY <1>1, <1>4, <1>11, <1>12, StepKeeps DEF s

LEMMA TimeoutKeeps ==
  ASSUME IInv, NEW e \in Endpoint, NEW r \in ep[e].reqs, Timeout(e, r)
  PROVE  IInv'
<1> DEFINE s == ep[e]
           pending == [s.pending EXCEPT ![r.to] = IF r.kind = "init" THEN 0 ELSE s.pending[r.to]]
           t == [s EXCEPT !.reqs = s.reqs \ {r}, !.pending = pending]
<1>1. EpOK(s, e) /\ e \in room \cap Encrypting /\ ep = [q \in Endpoint |-> ep[q]]
  <2>1. s # New
    BY DEF Timeout, New
  <2> QED BY <2>1, Present
<1>2. /\ s \in StateWith(s.ctx, s.old) /\ s.reqs \in SUBSET Request
      /\ s.pending \in [Endpoint -> Nat]
  BY <1>1, TypedFields DEF EpOK, Typed
<1>3. pending \in [Endpoint -> Nat]
  BY <1>2 DEF Request
<1>4. ep' = [ep EXCEPT ![e] = t] /\ room' = room /\ left' = left /\ heard' = heard /\ net' = net
  BY <1>1, <1>2 DEF Timeout, Unmoved, StateWith
<1> HIDE DEF pending
<1>5. /\ t \in StateWith(s.ctx, s.old) /\ t.ctx = s.ctx /\ t.old = s.old
      /\ KeyAlike(s, t) /\ Kept(s, t)
  BY <1>2, <1>3 DEF StateWith, KeyAlike, Kept
<1> HIDE DEF t, s
<1>6. Typed(t, e)
  BY <1>1, <1>5 DEF EpOK, Typed
<1>7. EpOK(t, e) /\ Keeps(s, t) /\ s.index <= t.index
  BY <1>1, <1>5, <1>6, Alike DEF EpOK, KeyAlike, Kept
<1> QED BY <1>1, <1>4, <1>7, StepKeeps DEF s

LEMMA RatchetKeyKeeps ==
  ASSUME IInv, NEW e \in Endpoint, RatchetKey(e)
  PROVE  IInv'
<1> DEFINE s == ep[e]
           t == [s EXCEPT !.ratchet = FALSE, !.material = s.key]
<1>1. EpOK(s, e) /\ e \in room \cap Encrypting /\ ep = [q \in Endpoint |-> ep[q]]
  <2>1. s # New
    BY DEF RatchetKey, New
  <2> QED BY <2>1, Present
<1>2. s \in StateWith(s.ctx, s.old) /\ s.key \in Key \cup {NoKey}
  BY <1>1, TypedFields DEF EpOK, Typed
<1>3. ep' = [ep EXCEPT ![e] = t] /\ room' = room /\ left' = left /\ heard' = heard /\ net' = net
  BY <1>1, <1>2 DEF RatchetKey, Unmoved, StateWith
<1>4. /\ t \in StateWith(s.ctx, s.old) /\ t.ctx = s.ctx /\ t.old = s.old
      /\ KeyAlike(s, t) /\ t.material = s.key
      /\ t.known = s.known /\ t.asked = s.asked /\ t.calls = s.calls /\ t.enabled = s.enabled
      /\ t.starting = s.starting /\ t.rotations = s.rotations /\ t.rotate = s.rotate
  BY <1>2 DEF StateWith, KeyAlike
<1> HIDE DEF t, s
<1>5. Typed(t, e)
  BY <1>1, <1>4 DEF EpOK, Typed
<1>6. EpOK(t, e) /\ Keeps(s, t) /\ s.index <= t.index
  BY <1>1, <1>4, <1>5, Alike DEF EpOK, KeyAlike
<1> QED BY <1>1, <1>3, <1>6, StepKeeps DEF s

(* The key used next is the ratcheted one, of the same number unless it    *)
(* was replaced.                                                           *)
LEMMA RatchetDoneKeeps ==
  ASSUME IInv, NEW e \in Endpoint, RatchetDone(e)
  PROVE  IInv'
<1> DEFINE s == ep[e]
           raced == s.raced \/ s.key # s.material
           u == [s EXCEPT !.key = Ratchet(s.material), !.material = NoKey, !.raced = raced]
           t == UseKey(u, e)
<1>1. EpOK(s, e) /\ e \in room \cap Encrypting /\ ep = [q \in Endpoint |-> ep[q]]
  <2>1. s # New
    BY DEF RatchetDone, New
  <2> QED BY <2>1, Present
<1>2. /\ s \in StateWith(s.ctx, s.old) /\ s.material \in Key /\ s.index \in Nat \cup {-1}
      /\ s.raced \in BOOLEAN
  BY <1>1, TypedFields DEF EpOK, Typed, RatchetDone
<1>3. ep' = [ep EXCEPT ![e] = t] /\ room' = room /\ left' = left /\ heard' = heard /\ net' = net
  BY DEF RatchetDone, Unmoved
<1>4. /\ Ratchet(s.material) \in Key /\ Ratchet(s.material) # NoKey
      /\ Ratchet(s.material).owner = s.material.owner /\ Ratchet(s.material).n = s.material.n
  BY <1>2, RatchetOK
<1>5. raced \in BOOLEAN /\ (~raced => ~s.raced /\ s.key = s.material)
  BY <1>2
<1> HIDE DEF raced
<1>6. /\ u \in StateWith(s.ctx, s.old) /\ u.ctx = s.ctx /\ u.old = s.old
      /\ u.key = Ratchet(s.material) /\ u.material = NoKey /\ u.raced = raced
      /\ u.index = s.index /\ u.known = s.known /\ u.asked = s.asked /\ u.calls = s.calls
      /\ u.enabled = s.enabled /\ u.starting = s.starting /\ u.rotations = s.rotations
      /\ u.rotate = s.rotate /\ u.gone = s.gone
  BY <1>2, <1>4, <1>5 DEF StateWith
<1> HIDE DEF u, s
<1>7. Typed(u, e)
  BY <1>1, <1>6 DEF EpOK, Typed
<1>8. Typed(t, e) /\ Kept(u, t) /\ KeyAlike(u, t) /\ Encode(t.ctx[e]).key = u.key
  BY <1>7, UseKeyFields
<1> HIDE DEF t
<1>9. /\ t.key = Ratchet(s.material) /\ t.material = NoKey /\ t.raced = raced
      /\ t.index = s.index /\ t.known = s.known /\ t.asked = s.asked /\ t.calls = s.calls
      /\ t.enabled = s.enabled /\ t.starting = s.starting /\ t.rotations = s.rotations
      /\ t.rotate = s.rotate /\ Encode(t.ctx[e]).key = t.key /\ t.gone = s.gone
  BY <1>6, <1>8 DEF Kept, KeyAlike
<1>10. Made(t.key, e, t.index) /\ Made(t.material, e, t.index) /\ Current(t, e)
  BY <1>1, <1>2, <1>4, <1>9, RingAssumption DEF EpOK, Made, Current
<1>11. Opening(t) <=> Opening(s)
  BY <1>9 DEF Opening
<1>12. EpOK(t, e)
  BY <1>1, <1>4, <1>8, <1>9, <1>10 DEF EpOK
<1>13. s.index <= t.index
  BY <1>2, <1>9
<1>14. Keeps(s, t)
  <2>1. Shuts(s, t)
    BY <1>4, <1>5, <1>9, <1>11 DEF Shuts
  <2>2. Inherits(s, t)
    BY <1>2, <1>4, <1>9, RingAssumption DEF Inherits
  <2> QED BY <2>1, <2>2 DEF Keeps
<1> QED BY <1>1, <1>3, <1>12, <1>13, <1>14, StepKeeps DEF s

(* A new key has a number nobody was told.                                 *)
LEMMA RotateKeeps ==
  ASSUME IInv, NEW e \in Endpoint, Rotate(e)
  PROVE  IInv'
<1> DEFINE s == ep[e]
           u == UpdateKey(s, FreshKey(s, e))
           t == [u EXCEPT !.rotate = FALSE, !.rotations = {s.index + 1}]
<1>1. EpOK(s, e) /\ e \in room \cap Encrypting /\ ep = [q \in Endpoint |-> ep[q]]
  <2>1. s # New
    BY DEF Rotate, New
  <2> QED BY <2>1, Present
<1>2. Typed(s, e) /\ s.index \in Nat \cup {-1}
  BY <1>1, TypedFields DEF EpOK
<1>3. /\ FreshKey(s, e) \in Key /\ FreshKey(s, e) # NoKey
      /\ FreshKey(s, e).owner = e /\ FreshKey(s, e).n = s.index + 1
  BY <1>2, FreshKeyOK
<1>4. /\ Typed(u, e) /\ Kept(s, u) /\ u.ctx = s.ctx
      /\ u.key = FreshKey(s, e) /\ u.index = s.index + 1 /\ u.raced = FALSE
      /\ u.gone = IF s.material = NoKey THEN {} ELSE s.gone
  BY <1>2, <1>3, UpdateKeyFields
<1>5. /\ ep' = [ep EXCEPT ![e] = t] /\ room' = room /\ left' = left /\ heard' = heard
      /\ net' = Send(net, e, KeyMail(t))
  BY DEF Rotate, Unmoved
<1> HIDE DEF u
<1>6. /\ t \in StateWith(u.ctx, u.old) /\ t.ctx = u.ctx /\ t.old = u.old
      /\ t.rotate = FALSE /\ t.rotations = {s.index + 1} /\ KeyAlike(u, t)
      /\ t.known = u.known /\ t.asked = u.asked /\ t.calls = u.calls /\ t.enabled = u.enabled
      /\ t.starting = u.starting /\ t.material = u.material
  <2>1. u \in StateWith(u.ctx, u.old) /\ {s.index + 1} \in SUBSET Nat
    BY <1>2, <1>4 DEF Typed
  <2> HIDE DEF s
  <2> QED BY <2>1 DEF StateWith, KeyAlike
<1> HIDE DEF t, s
<1>7. /\ t.key = FreshKey(s, e) /\ t.index = s.index + 1 /\ t.raced = FALSE
      /\ t.known = s.known /\ t.asked = s.asked /\ t.calls = s.calls /\ t.enabled = s.enabled
      /\ t.starting = s.starting /\ t.material = s.material
      /\ t.gone = IF s.material = NoKey THEN {} ELSE s.gone
  BY <1>4, <1>6 DEF Kept, KeyAlike
<1>8. Typed(t, e)
  BY <1>4, <1>6 DEF Typed
<1>9. Made(t.key, e, t.index) /\ Made(t.material, e, t.index) /\ Current(t, e)
  <2>1. s.material # NoKey => s.material.n \in Nat
    BY <1>2, TypedFields DEF Key
  <2> QED BY <1>1, <1>2, <1>3, <1>6, <1>7, <2>1 DEF EpOK, Made, Current
<1>10. EpOK(t, e)
  BY <1>1, <1>3, <1>7, <1>8, <1>9 DEF EpOK
<1>11. s.index <= t.index /\ s.index < t.key.n /\ t.index \in Nat
  BY <1>2, <1>3, <1>7
<1>12. Keeps(s, t)
  <2>1. Shuts(s, t)
    BY <1>3, <1>7, <1>11 DEF Shuts
  <2>2. Inherits(s, t)
    BY <1>3, <1>7, <1>11 DEF Inherits
  <2> QED BY <2>1, <2>2 DEF Keeps
<1>13. MailOK(KeyMail(t), e, t.index)
  BY <1>8, <1>9, <1>10, <1>11, KeyMailOK DEF EpOK
<1> QED BY <1>1, <1>5, <1>10, <1>11, <1>12, <1>13, StepKeeps DEF s

(* A call that waits begins, and another may be beginning.                 *)
LEMMA Resumed ==
  ASSUME NEW s, NEW e \in Endpoint, EpOK(s, e), NEW i, CanResume(s, i)
  PROVE  /\ i \in DOMAIN s.calls /\ i \in Nat \ {0} /\ s.calls \in Seq(Call)
         /\ s.calls[i].phase = "wait" /\ s.starting # i
<1>1. s.calls \in Seq(Call) /\ i \in DOMAIN s.calls /\ s.calls[i].phase = "wait"
  BY TypedFields DEF EpOK, CanResume
<1>2. i \in Nat \ {0}
  BY <1>1
<1> QED BY <1>1, <1>2 DEF EpOK

LEMMA InitMailOK ==
  ASSUME NEW s, NEW e \in Endpoint, Typed(s, e), NEW P \in SUBSET Endpoint, e \notin P, NEW index
  PROVE  MailOK(InitMail(s, P), e, index)
<1> DEFINE m(p) == [type |-> "session-init", n |-> s.inits[p] + 1]
<1>1. InitMail(s, P) = [p \in Endpoint |-> IF p \in P THEN <<m(p)>> ELSE <<>>]
  BY DEF InitMail, Mail
<1>2. s.inits \in [Endpoint -> Nat]
  BY TypedFields
<1>3. ASSUME NEW p \in P
      PROVE  MessageOK(m(p), e, index)
  <2>1. s.inits[p] + 1 \in Nat
    BY <1>2
  <2> QED BY <2>1, PlainOK
<1> HIDE DEF m
<1>4. \A p \in Endpoint : InitMail(s, P)[p] = IF p \in P THEN <<m(p)>> ELSE <<>>
  BY <1>1
<1> QED BY <1>1, <1>3, <1>4, Letters

(* Encryption is switched on: the call opens, or hangs.                    *)
LEMMA TurnOnKeeps ==
  ASSUME IInv, NEW e \in Endpoint, NEW i, TurnOn(e, i)
  PROVE  IInv'
<1> DEFINE s0 == ep[e]
           s == [s0 EXCEPT !.enabling = i, !.enabled = TRUE]
           P == Invitable(s, {p \in s.known : e < p})
           v == SendSessionInit(s, P, i)
           t1 == [s EXCEPT !.calls[i].phase = "hung"]
           t2 == [v EXCEPT !.starting = i, !.calls[i].phase = "init"]
<1>1. EpOK(s0, e) /\ e \in room \cap Encrypting /\ ep = [q \in Endpoint |-> ep[q]]
  <2>1. s0 # New
    BY DEF TurnOn, CanResume, New
  <2> QED BY <2>1, Present
<1>2. /\ i \in DOMAIN s0.calls /\ i \in Nat \ {0} /\ s0.calls \in Seq(Call)
      /\ s0.calls[i].phase = "wait" /\ s0.starting # i
  BY <1>1, Resumed DEF TurnOn
<1>3. /\ s0 \in StateWith(s0.ctx, s0.old) /\ s0.index \in Nat \cup {-1}
      /\ s0.known \in SUBSET Endpoint
  BY <1>1, TypedFields DEF EpOK, Typed
<1>4. \/ /\ s.starting # 0 /\ ep' = [ep EXCEPT ![e] = t1] /\ net' = net
      \/ /\ s.starting = 0 /\ ep' = [ep EXCEPT ![e] = t2]
         /\ net' = Send(net, e, InitMail(s, P))
  BY DEF TurnOn
<1>5. room' = room /\ left' = left /\ heard' = heard
  BY DEF TurnOn, Unmoved
<1> HIDE DEF s0
<1>6. /\ s \in StateWith(s0.ctx, s0.old) /\ s.ctx = s0.ctx /\ s.old = s0.old
      /\ s.enabled = TRUE /\ s.calls = s0.calls /\ KeyAlike(s0, s)
      /\ s.known = s0.known /\ s.asked = s0.asked /\ s.starting = s0.starting
      /\ s.rotations = s0.rotations /\ s.rotate = s0.rotate /\ s.material = s0.material
  BY <1>2, <1>3 DEF StateWith, KeyAlike
<1> HIDE DEF s
<1>7. Typed(s, e)
  BY <1>1, <1>6 DEF EpOK, Typed
<1>8. P \in SUBSET Endpoint /\ e \notin P
  BY <1>3, <1>6, ExchangeAssumption DEF Invitable
<1> HIDE DEF P
<1>9. Typed(v, e) /\ Kept(s, v) /\ KeyAlike(s, v) /\ v.ctx = s.ctx
  BY <1>2, <1>7, <1>8, SendSessionInitFields
<1> HIDE DEF v
<1>10. ASSUME NEW t, NEW ph \in {"hung", "init"}, Typed(t, e), t.ctx = s0.ctx,
              t.calls = [s0.calls EXCEPT ![i].phase = ph],
              KeyAlike(s0, t), t.known = s0.known, t.asked = s0.asked,
              t.rotations = s0.rotations, t.material = s0.material, Opening(t),
              \/ ph = "hung" /\ t.starting = s0.starting
              \/ ph = "init" /\ t.starting = i
       PROVE  EpOK(t, e) /\ Keeps(s0, t) /\ s0.index <= t.index
  <2>1. /\ DOMAIN t.calls = DOMAIN s0.calls
        /\ \A j \in DOMAIN s0.calls : t.calls[j].phase = IF j = i THEN ph ELSE s0.calls[j].phase
    BY <1>2, <1>10, OnePhase
  <2>2. Current(t, e)
    BY <1>1, <1>2, <1>10, <2>1 DEF EpOK, Current, KeyAlike
  <2>3. t.starting # 0 => t.starting \in DOMAIN t.calls /\ t.calls[t.starting].phase = "init"
    BY <1>1, <1>2, <1>10, <2>1 DEF EpOK
  <2>4. EpOK(t, e)
    BY <1>1, <1>10, <2>2, <2>3 DEF EpOK, Made, KeyAlike
  <2>5. Shuts(s0, t) /\ s0.index <= t.index
    BY <1>3, <1>10 DEF Shuts, KeyAlike
  <2>6. Inherits(s0, t)
    BY <1>10 DEF Inherits, KeyAlike
  <2> QED BY <2>4, <2>5, <2>6 DEF Keeps
<1>11. CASE s.starting # 0 /\ ep' = [ep EXCEPT ![e] = t1] /\ net' = net
  <2> DEFINE c == [s.calls EXCEPT ![i].phase = "hung"]
  <2>0. s.calls \in Seq(Call) /\ i \in DOMAIN s.calls
    BY <1>2, <1>6
  <2>1. /\ c \in Seq(Call) /\ DOMAIN c = DOMAIN s.calls /\ c[i].phase = "hung"
    BY ONLY <2>0, OnePhase
  <2>2. t1 = [s EXCEPT !.calls = c]
    BY <1>6 DEF StateWith
  <2> HIDE DEF c
  <2>3. /\ t1 \in StateWith(s.ctx, s.old) /\ t1.ctx = s.ctx /\ t1.old = s.old
        /\ t1.calls = c /\ KeyAlike(s, t1) /\ t1.known = s.known /\ t1.asked = s.asked
        /\ t1.rotations = s.rotations /\ t1.material = s.material /\ t1.starting = s.starting
    BY <1>6, <2>1, <2>2, ZenonT(60) DEF StateWith, KeyAlike
  <2> HIDE DEF t1
  <2>4. Typed(t1, e)
    BY <1>7, <2>3 DEF Typed
  <2>5. Opening(t1)
    BY <1>2, <1>6, <2>1, <2>3 DEF Opening
  <2>6. /\ t1.ctx = s0.ctx /\ t1.calls = [s0.calls EXCEPT ![i].phase = "hung"]
        /\ KeyAlike(s0, t1) /\ t1.known = s0.known /\ t1.asked = s0.asked
        /\ t1.rotations = s0.rotations /\ t1.material = s0.material /\ t1.starting = s0.starting
    BY <1>6, <2>3 DEF KeyAlike, c
  <2>7. EpOK(t1, e) /\ Keeps(s0, t1) /\ s0.index <= t1.index
    BY <1>10, <2>4, <2>5, <2>6
  <2> QED BY <1>1, <1>5, <1>11, <2>7, StepKeeps DEF s0
<1>12. CASE s.starting = 0 /\ ep' = [ep EXCEPT ![e] = t2] /\ net' = Send(net, e, InitMail(s, P))
  <2> DEFINE c == [v.calls EXCEPT ![i].phase = "init"]
  <2>1. c \in Seq(Call) /\ v.calls = s0.calls
    BY <1>2, <1>6, <1>9, OnePhase, ZenonT(60) DEF Kept
  <2>2. v \in StateWith(v.ctx, v.old)
    BY <1>9 DEF Typed
  <2>3. t2 = [v EXCEPT !.starting = i, !.calls = c]
    BY <2>2 DEF StateWith
  <2> HIDE DEF c
  <2>4. /\ t2 \in StateWith(v.ctx, v.old) /\ t2.ctx = v.ctx /\ t2.old = v.old
        /\ t2.calls = c /\ KeyAlike(v, t2) /\ t2.known = v.known /\ t2.asked = v.asked
        /\ t2.rotations = v.rotations /\ t2.material = v.material /\ t2.starting = i
    BY <1>2, <2>1, <2>2, <2>3 DEF StateWith, KeyAlike
  <2> HIDE DEF t2
  <2>5. Typed(t2, e)
    BY <1>9, <2>4 DEF Typed
  <2>6. Opening(t2)
    BY <1>2, <2>4 DEF Opening
  <2>7. /\ t2.ctx = s0.ctx /\ t2.calls = [s0.calls EXCEPT ![i].phase = "init"]
        /\ KeyAlike(s0, t2) /\ t2.known = s0.known /\ t2.asked = s0.asked
        /\ t2.rotations = s0.rotations /\ t2.material = s0.material /\ t2.starting = i
    BY <1>6, <1>9, <2>1, <2>4 DEF KeyAlike, Kept, c
  <2>8. EpOK(t2, e) /\ Keeps(s0, t2) /\ s0.index <= t2.index
    BY <1>10, <2>5, <2>6, <2>7
  <2>9. MailOK(InitMail(s, P), e, t2.index)
    BY <1>7, <1>8, InitMailOK
  <2> QED BY <1>1, <1>5, <1>12, <2>8, <2>9, StepKeeps DEF s0
<1> QED BY <1>4, <1>11, <1>12

(* Everybody is invited: the new key is made.                              *)
LEMMA KeyMadeKeeps ==
  ASSUME IInv, NEW e \in Endpoint, KeyMade(e)
  PROVE  IInv'
<1> DEFINE s == ep[e]
           u == UpdateKey(s, FreshKey(s, e))
           x == [want |-> TRUE, phase |-> "key", on |-> s.index + 1]
           t == [u EXCEPT !.starting = 0, !.calls[s.starting] = x]
           c == [u.calls EXCEPT ![s.starting] = x]
<1>1. EpOK(s, e) /\ e \in room \cap Encrypting /\ ep = [q \in Endpoint |-> ep[q]]
  <2>1. s # New
    BY DEF KeyMade, InitsSettled, New
  <2> QED BY <2>1, Present
<1>2. /\ Typed(s, e) /\ s.index \in Nat \cup {-1} /\ s.calls \in Seq(Call)
      /\ s.starting # 0 /\ s.starting \in DOMAIN s.calls
  BY <1>1, TypedFields DEF EpOK, KeyMade, InitsSettled
<1>3. /\ FreshKey(s, e) \in Key /\ FreshKey(s, e) # NoKey
      /\ FreshKey(s, e).owner = e /\ FreshKey(s, e).n = s.index + 1
  BY <1>2, FreshKeyOK
<1>4. /\ Typed(u, e) /\ Kept(s, u) /\ u.ctx = s.ctx
      /\ u.key = FreshKey(s, e) /\ u.index = s.index + 1 /\ u.raced = FALSE
      /\ u.gone = IF s.material = NoKey THEN {} ELSE s.gone
  BY <1>2, <1>3, UpdateKeyFields, ZenonT(60)
<1>5. /\ ep' = [ep EXCEPT ![e] = t] /\ room' = room /\ left' = left /\ heard' = heard
      /\ net' = Send(net, e, KeyMail(t))
  BY DEF KeyMade, Unmoved
<1> HIDE DEF u
<1>6. x \in Call /\ x.phase = "key"
  BY <1>2 DEF Call
<1> HIDE DEF x, s
<1>7. /\ u.calls = s.calls /\ c \in Seq(Call) /\ s.starting \in DOMAIN c
      /\ c[s.starting] = x
  BY <1>2, <1>4, <1>6, OneCall DEF Kept
<1>8. u \in StateWith(u.ctx, u.old) /\ t = [u EXCEPT !.starting = 0, !.calls = c]
  BY <1>4 DEF Typed, StateWith
<1> HIDE DEF c
<1>9. /\ t \in StateWith(u.ctx, u.old) /\ t.ctx = u.ctx /\ t.old = u.old
      /\ t.starting = 0 /\ t.calls = c /\ KeyAlike(u, t)
      /\ t.known = u.known /\ t.asked = u.asked /\ t.enabled = u.enabled
      /\ t.rotations = u.rotations /\ t.rotate = u.rotate /\ t.material = u.material
  BY <1>7, <1>8 DEF StateWith, KeyAlike
<1> HIDE DEF t
<1>10. /\ t.key = FreshKey(s, e) /\ t.index = s.index + 1 /\ t.raced = FALSE
       /\ t.known = s.known /\ t.asked = s.asked /\ t.material = s.material
       /\ t.gone = IF s.material = NoKey THEN {} ELSE s.gone
  BY <1>4, <1>9 DEF Kept, KeyAlike
<1>11. Typed(t, e)
  BY <1>4, <1>9 DEF Typed
<1>12. Made(t.key, e, t.index) /\ Made(t.material, e, t.index) /\ Current(t, e)
  <2>1. s.material # NoKey => s.material.n \in Nat
    BY <1>2, TypedFields DEF Key
  <2> QED BY <1>1, <1>2, <1>3, <1>6, <1>7, <1>9, <1>10, <2>1 DEF EpOK, Made, Current
<1>13. EpOK(t, e)
  BY <1>1, <1>3, <1>9, <1>10, <1>11, <1>12 DEF EpOK
<1>14. s.index <= t.index /\ s.index < t.key.n /\ t.index \in Nat
  BY <1>2, <1>3, <1>10
<1>15. Keeps(s, t)
  <2>1. Shuts(s, t)
    BY <1>3, <1>10, <1>14 DEF Shuts
  <2>2. Inherits(s, t)
    BY <1>3, <1>10, <1>14 DEF Inherits
  <2> QED BY <2>1, <2>2 DEF Keeps
<1>16. MailOK(KeyMail(t), e, t.index)
  BY <1>11, <1>12, <1>13, <1>14, KeyMailOK DEF EpOK
<1> QED BY <1>1, <1>5, <1>13, <1>14, <1>15, <1>16, StepKeeps DEF s

(* Encryption is switched off: there is no key, and a call is under way.   *)
LEMMA TurnOffKeeps ==
  ASSUME IInv, NEW e \in Endpoint, NEW i, TurnOff(e, i)
  PROVE  IInv'
<1> DEFINE s == ep[e]
           w == ClearSession(s, s.known)
           ctx == [p \in Endpoint |-> NewContext]
           u == [w EXCEPT !.enabling = i, !.enabled = FALSE, !.ctx = ctx]
           y == UpdateKey(u, NoKey)
           x == [want |-> FALSE, phase |-> "key", on |-> u.index + 1]
           t == [y EXCEPT !.calls[i] = x]
           c == [y.calls EXCEPT ![i] = x]
<1>1. EpOK(s, e) /\ e \in room \cap Encrypting /\ ep = [q \in Endpoint |-> ep[q]]
  <2>1. s # New
    BY DEF TurnOff, CanResume, New
  <2> QED BY <2>1, Present
<1>2. /\ i \in DOMAIN s.calls /\ i \in Nat \ {0} /\ s.calls \in Seq(Call)
      /\ s.calls[i].phase = "wait" /\ s.starting # i
  BY <1>1, Resumed DEF TurnOff
<1>3. Typed(s, e) /\ s.index \in Nat \cup {-1}
  BY <1>1, TypedFields DEF EpOK
<1>4. ep' = [ep EXCEPT ![e] = t] /\ room' = room /\ left' = left /\ heard' = heard /\ net' = net
  BY DEF TurnOff
<1> HIDE DEF s
<1>5. /\ Typed(w, e) /\ KeyAlike(s, w) /\ w.ctx = s.ctx
      /\ w.known = s.known /\ w.enabled = s.enabled /\ w.calls = s.calls
      /\ w.starting = s.starting /\ w.rotations = s.rotations /\ w.asked = s.asked
      /\ w.rotate = s.rotate /\ w.material = s.material
  BY <1>3, ClearSessionFields
<1> HIDE DEF w
<1>6. ctx = [p \in Endpoint |-> ctx[p]] /\ ctx[e] \in Context
  BY NewContextOK
<1> HIDE DEF ctx
<1>7. /\ u \in StateWith(ctx, w.old) /\ u.ctx = ctx /\ u.old = w.old
      /\ u.enabled = FALSE /\ KeyAlike(w, u)
      /\ u.known = w.known /\ u.calls = w.calls
      /\ u.starting = w.starting /\ u.rotations = w.rotations /\ u.asked = w.asked
      /\ u.rotate = w.rotate /\ u.material = w.material
  <2>1. w \in StateWith(w.ctx, w.old)
    BY <1>5 DEF Typed
  <2> QED BY <1>2, <2>1 DEF StateWith, KeyAlike
<1> HIDE DEF u
<1>8. Typed(u, e)
  BY <1>6, <1>7 DEF Typed
<1>9. /\ Typed(y, e) /\ Kept(u, y) /\ y.ctx = u.ctx
      /\ y.key = NoKey /\ y.index = u.index + 1 /\ y.raced = FALSE
      /\ y.gone = IF u.material = NoKey THEN {} ELSE u.gone
  BY <1>8, UpdateKeyFields
<1> HIDE DEF y
<1>10. x \in Call /\ x.phase = "key" /\ u.index = s.index
  <2>1. u.index = s.index
    BY <1>5, <1>7 DEF KeyAlike
  <2> QED BY <1>3, <2>1 DEF Call
<1> HIDE DEF x
<1>11. /\ y.calls = s.calls /\ c \in Seq(Call) /\ DOMAIN c = DOMAIN s.calls
       /\ c[i] = x /\ \A j \in DOMAIN c : j # i => c[j] = s.calls[j]
  BY <1>2, <1>5, <1>7, <1>9, <1>10, OneCall DEF Kept
<1>12. y \in StateWith(y.ctx, y.old) /\ t = [y EXCEPT !.calls = c]
  BY <1>9 DEF Typed, StateWith
<1> HIDE DEF c
<1>13. /\ t \in StateWith(y.ctx, y.old) /\ t.ctx = y.ctx /\ t.old = y.old
       /\ t.calls = c /\ KeyAlike(y, t)
       /\ t.known = y.known /\ t.asked = y.asked /\ t.enabled = y.enabled
       /\ t.starting = y.starting /\ t.material = y.material
  BY <1>11, <1>12 DEF StateWith, KeyAlike
<1> HIDE DEF t
<1>14. /\ t.key = NoKey /\ t.index = s.index + 1 /\ t.enabled = FALSE
       /\ t.known = s.known /\ t.asked = s.asked /\ t.material = s.material
       /\ t.starting = s.starting /\ t.gone = IF s.material = NoKey THEN {} ELSE s.gone
  BY <1>5, <1>7, <1>9, <1>10, <1>13 DEF Kept, KeyAlike
<1>15. Typed(t, e)
  BY <1>9, <1>13 DEF Typed
<1>16. Made(t.key, e, t.index) /\ Made(t.material, e, t.index) /\ Current(t, e)
  <2>1. s.material # NoKey => s.material.n \in Nat
    BY <1>3, TypedFields DEF Key
  <2> QED BY <1>1, <1>2, <1>3, <1>10, <1>11, <1>13, <1>14, <2>1 DEF EpOK, Made, Current
<1>17. t.starting # 0 => t.starting \in DOMAIN t.calls /\ t.calls[t.starting].phase = "init"
  BY <1>1, <1>2, <1>11, <1>13, <1>14 DEF EpOK
<1>18. EpOK(t, e)
  BY <1>1, <1>14, <1>15, <1>16, <1>17 DEF EpOK
<1>19. s.index <= t.index /\ Keeps(s, t)
  BY <1>3, <1>14 DEF Keeps, Shuts, Inherits
<1> QED BY <1>1, <1>4, <1>18, <1>19, StepKeeps DEF s

(* A step that touches neither the keys nor what is under way.             *)
LEMMA KeepsAlike ==
  ASSUME NEW s, NEW t, NEW e \in Endpoint, EpOK(s, e), EpOK(t, e), KeyAlike(s, t),
         t.enabled = s.enabled, t.rotate = s.rotate, t.material = s.material,
         Opening(s) => Opening(t)
  PROVE  Keeps(s, t) /\ s.index <= t.index
<1>1. s.index \in Nat \cup {-1}
  BY TypedFields DEF EpOK
<1>2. Shuts(s, t) /\ s.index <= t.index
  BY <1>1 DEF Shuts, KeyAlike, EpOK
<1>3. Inherits(s, t)
  BY DEF Inherits, KeyAlike
<1> QED BY <1>2, <1>3 DEF Keeps

(* The key is used, and the room told.                                     *)
LEMMA SwitchedKeeps ==
  ASSUME IInv, NEW e \in Endpoint, NEW i, Switched(e, i)
  PROVE  IInv'
<1> DEFINE s == ep[e]
           type == IF s.calls[i].want THEN "on" ELSE "off"
           mail == Mail(room \ {e}, LAMBDA p : [type |-> type, n |-> 0])
           u == UseKey(s, e)
           c == [u.calls EXCEPT ![i].phase = "done"]
           t == [u EXCEPT !.calls[i].phase = "done"]
<1>1. EpOK(s, e) /\ e \in room \cap Encrypting /\ ep = [q \in Endpoint |-> ep[q]]
  <2>0. KeySettled(s, i)
    BY DEF Switched
  <2>1. s # New
    <3>1. i \in DOMAIN s.calls
      BY <2>0 DEF KeySettled
    <3>2. DOMAIN New.calls = {}
      BY DEF New
    <3> QED BY <3>1, <3>2
  <2> QED BY <2>1, Present
<1>2. /\ Typed(s, e) /\ s.calls \in Seq(Call) /\ i \in DOMAIN s.calls
      /\ s.calls[i].phase = "key" /\ (s.starting # 0 => s.starting # i)
  BY <1>1, TypedFields DEF EpOK, Switched, KeySettled
<1>3. /\ ep' = [ep EXCEPT ![e] = t] /\ room' = room /\ left' = left /\ heard' = heard
      /\ net' = Send(net, e, mail)
  BY DEF Switched, Unmoved
<1>4. ASSUME NEW index
      PROVE  MailOK(mail, e, index)
  <2> DEFINE m == [type |-> type, n |-> 0]
  <2>1. type \in {"joined", "left", "on", "off", "session-init"}
    OBVIOUS
  <2> HIDE DEF type
  <2>2. MessageOK(m, e, index)
    BY <2>1, PlainOK
  <2>3. mail = [p \in Endpoint |-> IF p \in room \ {e} THEN <<m>> ELSE <<>>]
    BY DEF Mail
  <2> HIDE DEF m, mail
  <2>4. \A p \in Endpoint : mail[p] = IF p \in room \ {e} THEN <<m>> ELSE <<>>
    BY <2>3
  <2> QED BY <2>2, <2>3, <2>4, Letters
<1> HIDE DEF mail, s
<1>5. /\ Typed(u, e) /\ Kept(s, u) /\ KeyAlike(s, u) /\ Encode(u.ctx[e]).key = s.key
  BY <1>2, UseKeyFields
<1> HIDE DEF u
<1>6. u.calls \in Seq(Call) /\ i \in DOMAIN u.calls /\ u.calls = s.calls
  BY <1>2, <1>5 DEF Kept
<1>7. /\ c \in Seq(Call) /\ DOMAIN c = DOMAIN s.calls
      /\ \A j \in DOMAIN s.calls : c[j].phase = IF j = i THEN "done" ELSE s.calls[j].phase
  <2>1. /\ c \in Seq(Call) /\ DOMAIN c = DOMAIN u.calls
        /\ \A j \in DOMAIN u.calls : c[j].phase = IF j = i THEN "done" ELSE u.calls[j].phase
    BY ONLY <1>6, OnePhase
  <2> HIDE DEF c
  <2> QED BY <1>6, <2>1
<1>8. u \in StateWith(u.ctx, u.old) /\ t = [u EXCEPT !.calls = c]
  BY <1>5 DEF Typed, StateWith
<1> HIDE DEF c
<1>9. /\ t \in StateWith(u.ctx, u.old) /\ t.ctx = u.ctx /\ t.old = u.old
      /\ t.calls = c /\ KeyAlike(u, t)
      /\ t.known = u.known /\ t.asked = u.asked /\ t.enabled = u.enabled /\ t.rotate = u.rotate
      /\ t.starting = u.starting /\ t.material = u.material /\ t.rotations = u.rotations
  BY <1>7, <1>8 DEF StateWith, KeyAlike
<1> HIDE DEF t
<1>10. /\ KeyAlike(s, t) /\ Encode(t.ctx[e]).key = t.key
       /\ t.known = s.known /\ t.asked = s.asked /\ t.enabled = s.enabled /\ t.rotate = s.rotate
       /\ t.starting = s.starting /\ t.material = s.material
  BY <1>5, <1>9 DEF Kept, KeyAlike
<1>11. Typed(t, e)
  BY <1>5, <1>9 DEF Typed
<1>12. Opening(s) <=> Opening(t)
  BY <1>2, <1>7, <1>9, <1>10 DEF Opening
<1>13. t.starting # 0 => t.starting \in DOMAIN t.calls /\ t.calls[t.starting].phase = "init"
  BY <1>1, <1>2, <1>7, <1>9, <1>10 DEF EpOK
<1>14. EpOK(t, e)
  BY <1>1, <1>10, <1>11, <1>12, <1>13 DEF EpOK, Current, Made, KeyAlike
<1>15. Keeps(s, t) /\ s.index <= t.index
  BY <1>1, <1>10, <1>12, <1>14, KeepsAlike
<1> QED BY <1>1, <1>3, <1>4, <1>14, <1>15, StepKeeps DEF s

LEMMA RotatedKeeps ==
  ASSUME IInv, NEW e \in Endpoint, NEW n, Rotated(e, n)
  PROVE  IInv'
<1> DEFINE s == ep[e]
           u == UseKey(s, e)
           t == [u EXCEPT !.rotations = u.rotations \ {n}]
<1>1. EpOK(s, e) /\ e \in room \cap Encrypting /\ ep = [q \in Endpoint |-> ep[q]]
  <2>1. s # New
    BY DEF Rotated, New
  <2> QED BY <2>1, Present
<1>2. Typed(s, e)
  BY <1>1 DEF EpOK
<1>3. ep' = [ep EXCEPT ![e] = t] /\ room' = room /\ left' = left /\ heard' = heard /\ net' = net
  BY DEF Rotated, Unmoved
<1> HIDE DEF s
<1>4. /\ Typed(u, e) /\ Kept(s, u) /\ KeyAlike(s, u) /\ Encode(u.ctx[e]).key = s.key
  BY <1>2, UseKeyFields
<1> HIDE DEF u
<1>5. u \in StateWith(u.ctx, u.old) /\ u.rotations \in SUBSET Nat
  BY <1>4, TypedFields DEF Typed
<1>6. /\ t \in StateWith(u.ctx, u.old) /\ t.ctx = u.ctx /\ t.old = u.old
      /\ t.calls = u.calls /\ KeyAlike(u, t)
      /\ t.known = u.known /\ t.asked = u.asked /\ t.enabled = u.enabled /\ t.rotate = u.rotate
      /\ t.starting = u.starting /\ t.material = u.material
  BY <1>5 DEF StateWith, KeyAlike
<1> HIDE DEF t
<1>7. /\ KeyAlike(s, t) /\ Encode(t.ctx[e]).key = t.key /\ t.calls = s.calls
      /\ t.known = s.known /\ t.asked = s.asked /\ t.enabled = s.enabled /\ t.rotate = s.rotate
      /\ t.starting = s.starting /\ t.material = s.material
  BY <1>4, <1>6 DEF Kept, KeyAlike
<1>8. Typed(t, e) /\ (Opening(s) <=> Opening(t))
  BY <1>4, <1>6, <1>7 DEF Typed, Opening
<1>9. EpOK(t, e)
  BY <1>1, <1>7, <1>8 DEF EpOK, Current, Made, KeyAlike
<1>10. Keeps(s, t) /\ s.index <= t.index
  BY <1>1, <1>7, <1>8, <1>9, KeepsAlike
<1> QED BY <1>1, <1>3, <1>9, <1>10, StepKeeps DEF s

LEMMA InviteAskedKeeps ==
  ASSUME IInv, NEW e \in Endpoint, NEW p \in Endpoint, InviteAsked(e, p)
  PROVE  IInv'
<1> DEFINE s0 == ep[e]
           s == [s0 EXCEPT !.asked = s0.asked \ {p}]
           P == Invitable(s, {p})
           t == SendSessionInit(s, P, 0)
<1>1. EpOK(s0, e) /\ e \in room \cap Encrypting /\ ep = [q \in Endpoint |-> ep[q]]
  <2>1. s0 # New
    BY DEF InviteAsked, New
  <2> QED BY <2>1, Present
<1>2. /\ s0 \in StateWith(s0.ctx, s0.old) /\ s0.asked \in SUBSET Endpoint /\ p \in s0.asked
  BY <1>1, TypedFields DEF EpOK, Typed, InviteAsked
<1>3. /\ ep' = [ep EXCEPT ![e] = t] /\ room' = room /\ left' = left /\ heard' = heard
      /\ net' = Send(net, e, InitMail(s, P))
  BY DEF InviteAsked, Unmoved
<1> HIDE DEF s0
<1>4. /\ s \in StateWith(s0.ctx, s0.old) /\ s.ctx = s0.ctx /\ s.old = s0.old
      /\ s.asked = s0.asked \ {p} /\ s.enabled = s0.enabled /\ s.calls = s0.calls
      /\ KeyAlike(s0, s) /\ s.known = s0.known /\ s.starting = s0.starting
      /\ s.rotations = s0.rotations /\ s.rotate = s0.rotate /\ s.material = s0.material
  BY <1>2 DEF StateWith, KeyAlike
<1> HIDE DEF s
<1>5. Typed(s, e)
  BY <1>1, <1>4 DEF EpOK, Typed
<1>6. P \in SUBSET Endpoint /\ e \notin P
  BY <1>1, <1>2 DEF Invitable, EpOK
<1> HIDE DEF P
<1>7. Typed(t, e) /\ Kept(s, t) /\ KeyAlike(s, t) /\ t.ctx = s.ctx
  BY <1>5, <1>6, SendSessionInitFields
<1> HIDE DEF t
<1>8. EpOK(t, e) /\ Keeps(s0, t) /\ s0.index <= t.index
  <2>1. /\ e \notin t.known /\ e \notin t.asked /\ t.calls = s0.calls /\ t.starting = s0.starting
        /\ t.key = s0.key /\ t.index = s0.index /\ t.material = s0.material
        /\ t.rotations = s0.rotations /\ t.raced = s0.raced /\ t.enabled = s0.enabled
        /\ t.rotate = s0.rotate /\ t.ctx[e] = s0.ctx[e] /\ t.gone = s0.gone
    BY <1>1, <1>4, <1>7 DEF Kept, KeyAlike, EpOK
  <2> QED BY <1>1, <1>7, <2>1, Alike
<1>9. MailOK(InitMail(s, P), e, t.index)
  BY <1>5, <1>6, InitMailOK
<1> QED BY <1>1, <1>3, <1>8, <1>9, StepKeeps DEF s0

(* A frame changes only what is held of the keys of another.               *)
LEMMA FrameKeeps ==
  ASSUME IInv, NEW e \in Endpoint, NEW p \in Endpoint, Frame(e, p)
  PROVE  IInv'
<1>1. PICK f : ep' = [ep EXCEPT ![e].ctx[p] = Decode(@, f)]
  BY DEF Frame
<1> DEFINE s == ep[e]
           ctx == [s.ctx EXCEPT ![p] = Decode(s.ctx[p], f)]
           t == [s EXCEPT !.ctx = ctx]
<1>2. EpOK(s, e) /\ e \in room \cap Encrypting /\ ep = [q \in Endpoint |-> ep[q]] /\ e # p
  <2>1. s # New /\ e # p
    BY DEF Frame, New
  <2> QED BY <2>1, Present
<1>3. s \in StateWith(s.ctx, s.old) /\ s.ctx = [q \in Endpoint |-> s.ctx[q]]
  BY <1>2, TypedFields DEF EpOK, Typed
<1>4. room' = room /\ left' = left /\ heard' = heard /\ net' = net
  BY DEF Frame, Unmoved
<1>5. ep' = [ep EXCEPT ![e] = t]
  BY <1>1, <1>2, <1>3 DEF StateWith
<1> HIDE DEF s
<1>6. ctx = [q \in Endpoint |-> ctx[q]] /\ ctx[e] = s.ctx[e]
  BY <1>2, <1>3
<1> HIDE DEF ctx
<1>7. /\ t \in StateWith(ctx, s.old) /\ t.ctx = ctx /\ t.old = s.old
      /\ KeyAlike(s, t) /\ Kept(s, t)
  BY <1>3 DEF StateWith, KeyAlike, Kept
<1> HIDE DEF t
<1>8. Typed(t, e)
  BY <1>2, <1>6, <1>7 DEF EpOK, Typed
<1>9. EpOK(t, e) /\ Keeps(s, t) /\ s.index <= t.index
  BY <1>2, <1>6, <1>7, <1>8, Alike DEF EpOK, KeyAlike, Kept
<1> QED BY <1>2, <1>4, <1>5, <1>9, StepKeeps DEF s

-----------------------------------------------------------------------------
(***************************************************************************)
(* Messages and presence.                                                  *)
(***************************************************************************)

LEMMA ParticipantJoinedKeeps ==
  ASSUME IInv, NEW e \in Endpoint, NEW p \in Endpoint, ParticipantJoined(e, p)
  PROVE  IInv'
<1> DEFINE s == ep[e]
           ratchet == s.ratchet \/ s.enabled
           t == [s EXCEPT !.known = s.known \cup {p}, !.ratchet = ratchet]
<1>1. net[p][e] # <<>> /\ Head(net[p][e]).type = "joined" /\ Deliver(e, p, t, Nothing)
      /\ heard' = heard
  BY DEF ParticipantJoined, Next1
<1>2. e # p /\ EpOK(s, e)
  BY <1>1, PickedUp
<1>3. s \in StateWith(s.ctx, s.old) /\ s.known \in SUBSET Endpoint /\ ratchet \in BOOLEAN
  BY <1>2, TypedFields DEF EpOK, Typed
<1> HIDE DEF ratchet, s
<1>4. /\ t \in StateWith(s.ctx, s.old) /\ t.ctx = s.ctx /\ t.old = s.old
      /\ t.known = s.known \cup {p} /\ t.asked = s.asked /\ t.calls = s.calls
      /\ t.starting = s.starting /\ t.material = s.material /\ t.rotations = s.rotations
      /\ KeyAlike(s, t) /\ t.enabled = s.enabled /\ t.rotate = s.rotate
  BY <1>3 DEF StateWith, KeyAlike
<1> HIDE DEF t
<1>5. Typed(t, e) /\ e \notin t.known /\ e \notin t.asked
  BY <1>2, <1>4 DEF EpOK, Typed
<1>6. EpOK(t, e) /\ Keeps(s, t) /\ s.index <= t.index
  BY <1>2, <1>4, <1>5, Alike DEF KeyAlike
<1> QED BY <1>1, <1>6, NothingOK, DeliverKeeps DEF s

(* A departure asks whoever encrypts for a new key.                        *)
LEMMA ParticipantLeftKeeps ==
  ASSUME IInv, NEW e \in Endpoint, NEW p \in Endpoint, ParticipantLeft(e, p)
  PROVE  IInv'
<1> DEFINE s == ep[e]
           u == ClearSession(s, {p})
           rotate == u.rotate \/ s.enabled
           ctx == [u.ctx EXCEPT ![p] = NewContext]
           gone == u.gone \cup {p}
           t == [u EXCEPT !.known = u.known \ {p}, !.ctx = ctx, !.gone = gone,
                          !.rotate = rotate]
<1>1. net[p][e] # <<>>
  BY DEF ParticipantLeft, Next1
<1>2. e # p /\ EpOK(s, e)
  BY <1>1, PickedUp
<1>3. /\ Typed(u, e) /\ KeyAlike(s, u) /\ u.ctx = s.ctx
      /\ u.known = s.known /\ u.enabled = s.enabled /\ u.calls = s.calls
      /\ u.starting = s.starting /\ u.rotations = s.rotations /\ u.asked = s.asked
      /\ u.rotate = s.rotate /\ u.material = s.material
  BY <1>2, ClearSessionFields DEF EpOK
<1>4. /\ u \in StateWith(u.ctx, u.old) /\ u.ctx = [q \in Endpoint |-> u.ctx[q]]
      /\ u.known \in SUBSET Endpoint /\ rotate \in BOOLEAN /\ gone \in SUBSET Endpoint
      /\ s.enabled \in BOOLEAN /\ s.rotate \in BOOLEAN
  BY <1>2, <1>3, TypedFields DEF Typed, EpOK
<1>5. Deliver(e, p, t, Nothing) /\ heard' = heard
  <2>1. [u EXCEPT !.known = u.known \ {p}, !.ctx[p] = NewContext, !.gone = gone,
                  !.rotate = rotate] = t
    BY <1>4 DEF StateWith
  <2> QED BY <2>1 DEF ParticipantLeft
<1>6. (s.rotate => rotate) /\ (s.enabled => rotate)
  BY <1>3
<1>7. ctx = [q \in Endpoint |-> ctx[q]] /\ ctx[e] = s.ctx[e]
  BY <1>2, <1>3, <1>4
<1>12. p \in gone /\ s.gone \subseteq gone
  BY <1>3 DEF KeyAlike
<1> HIDE DEF rotate, ctx, gone, u, s
<1>8. /\ t \in StateWith(ctx, u.old) /\ t.ctx = ctx /\ t.old = u.old
      /\ t.known = u.known \ {p} /\ t.asked = u.asked /\ t.calls = u.calls
      /\ t.starting = u.starting /\ t.material = u.material /\ t.rotations = u.rotations
      /\ t.key = u.key /\ t.index = u.index /\ t.raced = u.raced /\ t.gone = gone
      /\ t.enabled = u.enabled /\ t.rotate = rotate
  BY <1>4 DEF StateWith
<1> HIDE DEF t
<1>9. Typed(t, e) /\ e \notin t.known /\ e \notin t.asked
  <2>1. t.ctx[e] \in Context
    BY <1>2, <1>7, <1>8 DEF EpOK, Typed
  <2> QED BY <1>2, <1>3, <1>7, <1>8, <2>1 DEF EpOK, Typed
<1>10. EpOK(t, e) /\ Keeps(s, t) /\ s.index <= t.index
  <2>1. /\ t.calls = s.calls /\ t.starting = s.starting
        /\ t.key = s.key /\ t.index = s.index /\ t.material = s.material
        /\ t.rotations = s.rotations /\ t.raced = s.raced /\ t.enabled = s.enabled
        /\ (s.rotate => t.rotate) /\ t.ctx[e] = s.ctx[e] /\ s.gone \subseteq t.gone
    BY <1>3, <1>6, <1>7, <1>8, <1>12 DEF KeyAlike
  <2> QED BY <1>2, <1>9, <2>1, Alike
<1>11. p \in t.gone /\ (t.enabled => t.rotate)
  BY <1>3, <1>6, <1>8, <1>12
<1> QED BY <1>1, <1>5, <1>10, <1>11, NothingOK, DeliverKeeps DEF s

LEMMA PropertyChangedKeeps ==
  ASSUME IInv, NEW e \in Endpoint, NEW p \in Endpoint, PropertyChanged(e, p)
  PROVE  IInv'
<1> DEFINE s == ep[e]
           on == Head(net[p][e]).type = "on"
           t == Noted(s, e, p, on)
<1>1. /\ net[p][e] # <<>> /\ Head(net[p][e]).type # "left"
      /\ Deliver(e, p, t, Nothing) /\ heard' = heard
  BY DEF PropertyChanged, Next1
<1>2. e # p /\ EpOK(s, e)
  BY <1>1, PickedUp
<1>3. s \in StateWith(s.ctx, s.old) /\ s.asked \in SUBSET Endpoint
  BY <1>2, TypedFields DEF EpOK, Typed
<1> HIDE DEF s, on
<1>4. EpOK(t, e) /\ Keeps(s, t) /\ s.index <= t.index
  <2>1. CASE t = s
    BY <1>2, <2>1, Alike DEF EpOK
  <2>2. CASE t = ClearSession(s, {p})
    <3> DEFINE u == ClearSession(s, {p})
    <3>1. /\ Typed(u, e) /\ KeyAlike(s, u) /\ u.ctx = s.ctx
          /\ u.known = s.known /\ u.enabled = s.enabled /\ u.calls = s.calls
          /\ u.starting = s.starting /\ u.rotations = s.rotations /\ u.asked = s.asked
          /\ u.rotate = s.rotate /\ u.material = s.material
      BY <1>2, ClearSessionFields DEF EpOK
    <3> HIDE DEF u
    <3>2. EpOK(u, e) /\ Keeps(s, u) /\ s.index <= u.index
      BY <1>2, <3>1, Alike DEF KeyAlike, EpOK
    <3> QED BY <2>2, <3>2 DEF u
  <2>3. CASE t = [s EXCEPT !.asked = s.asked \cup {p}]
    <3> DEFINE u == [s EXCEPT !.asked = s.asked \cup {p}]
    <3>1. /\ u \in StateWith(s.ctx, s.old) /\ u.ctx = s.ctx /\ u.old = s.old
          /\ u.known = s.known /\ u.asked = s.asked \cup {p} /\ u.calls = s.calls
          /\ u.starting = s.starting /\ u.material = s.material /\ u.rotations = s.rotations
          /\ KeyAlike(s, u) /\ u.enabled = s.enabled /\ u.rotate = s.rotate
      BY <1>3 DEF StateWith, KeyAlike
    <3> HIDE DEF u
    <3>2. Typed(u, e) /\ e \notin u.known /\ e \notin u.asked
      BY <1>2, <3>1 DEF EpOK, Typed
    <3>3. EpOK(u, e) /\ Keeps(s, u) /\ s.index <= u.index
      BY <1>2, <3>1, <3>2, Alike DEF KeyAlike
    <3> QED BY <2>3, <3>3 DEF u
  <2> QED BY <2>1, <2>2, <2>3 DEF Noted
<1> QED BY <1>1, <1>4, NothingOK, DeliverKeeps DEF s

LEMMA SessionInitKeeps ==
  ASSUME IInv, NEW e \in Endpoint, NEW p \in Endpoint, SessionInit(e, p)
  PROVE  IInv'
<1> DEFINE s == ep[e]
           m == Head(net[p][e])
           sid == <<p, e, m.n>>
           session == [s.session EXCEPT ![p] = sid]
           t == [s EXCEPT !.session = session]
           k == KeyInfo("session-ack", s, sid, m.n)
           mail == Mail({p}, LAMBDA q : k)
<1>1. net[p][e] # <<>> /\ m.type # "left" /\ heard' = heard
  BY DEF SessionInit, Next1
<1>2. e # p /\ EpOK(s, e) /\ m.n \in Nat
  BY <1>1, PickedUp
<1>3. /\ s \in StateWith(s.ctx, s.old) /\ Typed(s, e) /\ Made(s.key, e, s.index)
      /\ s.session \in [Endpoint -> Session \cup {NoSession}]
  BY <1>2, TypedFields DEF EpOK, Typed
<1>4. CASE Deliver(e, p, s, Nothing)
  <2>1. EpOK(s, e) /\ Keeps(s, s) /\ s.index <= s.index
    BY <1>2, Alike DEF EpOK
  <2> QED BY <1>1, <1>4, <2>1, NothingOK, DeliverKeeps
<1>5. CASE Deliver(e, p, [s EXCEPT !.session[p] = sid], mail)
  <2>1. sid \in Session
    BY <1>2 DEF Session
  <2>2. Deliver(e, p, t, mail)
    BY <1>3, <1>5 DEF StateWith
  <2>3. session \in [Endpoint -> Session \cup {NoSession}]
    BY <1>3, <2>1
  <2>4. MessageOK(k, e, s.index)
    BY <1>2, <1>3, <2>1, KeyInfoOK DEF KeyTypes
  <2> HIDE DEF session, sid, k
  <2>5. mail = [q \in Endpoint |-> IF q \in {p} THEN <<k>> ELSE <<>>]
    BY DEF Mail
  <2> HIDE DEF mail, m, s
  <2>6. MailOK(mail, e, s.index)
    <3>1. \A q \in Endpoint : mail[q] = IF q \in {p} THEN <<k>> ELSE <<>>
      BY <2>5
    <3> QED BY <1>2, <2>4, <2>5, <3>1, Letters
  <2>7. /\ t \in StateWith(s.ctx, s.old) /\ t.ctx = s.ctx /\ t.old = s.old
        /\ t.known = s.known /\ t.asked = s.asked /\ t.calls = s.calls
        /\ t.starting = s.starting /\ t.material = s.material /\ t.rotations = s.rotations
        /\ KeyAlike(s, t) /\ t.enabled = s.enabled /\ t.rotate = s.rotate
    BY <1>3, <2>3 DEF StateWith, KeyAlike
  <2> HIDE DEF t
  <2>8. Typed(t, e) /\ e \notin t.known /\ e \notin t.asked
    BY <1>2, <2>7 DEF EpOK, Typed
  <2>9. EpOK(t, e) /\ Keeps(s, t) /\ s.index <= t.index /\ t.index = s.index
    BY <1>2, <2>7, <2>8, Alike DEF KeyAlike
  <2> QED BY <1>1, <2>2, <2>6, <2>9, DeliverKeeps DEF s, m
<1> QED BY <1>4, <1>5 DEF SessionInit

LEMMA LateSessionAckKeeps ==
  ASSUME IInv, NEW e \in Endpoint, NEW p \in Endpoint, LateSessionAck(e, p)
  PROVE  IInv'
<1> DEFINE s == ep[e]
<1>1. /\ net[p][e] # <<>> /\ Head(net[p][e]).type # "left" /\ heard' = heard
      /\ Deliver(e, p, s, Nothing)
  BY DEF LateSessionAck, Next1
<1>2. EpOK(s, e)
  BY <1>1, PickedUp
<1>3. EpOK(s, e) /\ Keeps(s, s) /\ s.index <= s.index
  BY <1>2, Alike DEF EpOK
<1> QED BY <1>1, <1>3, NothingOK, DeliverKeeps

(* A key of p is taken over.                                               *)
Holds(s, t, e) ==
  /\ t.known = s.known /\ t.enabled = s.enabled /\ t.calls = s.calls
  /\ t.starting = s.starting /\ t.rotations = s.rotations /\ t.asked = s.asked
  /\ t.rotate = s.rotate /\ t.material = s.material /\ KeyAlike(s, t)
  /\ t.ctx[e] = s.ctx[e]

LEMMA HoldsKeeps ==
  ASSUME NEW s, NEW t, NEW e \in Endpoint, EpOK(s, e), Typed(t, e), Holds(s, t, e)
  PROVE  EpOK(t, e) /\ Keeps(s, t) /\ s.index <= t.index /\ t.index = s.index
<1>1. /\ e \notin t.known /\ e \notin t.asked /\ t.calls = s.calls /\ t.starting = s.starting
      /\ t.key = s.key /\ t.index = s.index /\ t.material = s.material
      /\ t.rotations = s.rotations /\ t.raced = s.raced /\ t.enabled = s.enabled
      /\ t.rotate = s.rotate /\ t.ctx[e] = s.ctx[e] /\ t.gone = s.gone
  BY DEF EpOK, Holds, KeyAlike
<1> QED BY <1>1, Alike

LEMMA LearnFields ==
  ASSUME NEW s, NEW e \in Endpoint, Typed(s, e), NEW p \in Endpoint, e # p,
         NEW m, m.key \in Key \cup {NoKey}
  PROVE  LET t == [s EXCEPT !.lastKey[p] = m.key, !.ctx[p] = SetKeys(@, m.key, m.index)]
         IN  Typed(t, e) /\ Holds(s, t, e)
<1> DEFINE lastKey == [s.lastKey EXCEPT ![p] = m.key]
           ctx == [s.ctx EXCEPT ![p] = SetKeys(s.ctx[p], m.key, m.index)]
           t == [s EXCEPT !.lastKey = lastKey, !.ctx = ctx]
<1>1. /\ s \in StateWith(s.ctx, s.old) /\ s.ctx = [q \in Endpoint |-> s.ctx[q]]
      /\ s.ctx[e] \in Context /\ s.lastKey \in [Endpoint -> Key \cup {NoKey, Unset}]
  BY TypedFields DEF Typed
<1>2. [s EXCEPT !.lastKey[p] = m.key, !.ctx[p] = SetKeys(@, m.key, m.index)] = t
  BY <1>1 DEF StateWith
<1>3. lastKey \in [Endpoint -> Key \cup {NoKey, Unset}]
  BY <1>1
<1>4. ctx = [q \in Endpoint |-> ctx[q]] /\ ctx[e] = s.ctx[e]
  BY <1>1
<1> HIDE DEF lastKey, ctx
<1>5. t \in StateWith(ctx, s.old) /\ t.ctx = ctx /\ t.old = s.old /\ Holds(s, t, e)
  BY <1>1, <1>3, <1>4 DEF StateWith, Holds, KeyAlike
<1> HIDE DEF t
<1>6. Typed(t, e)
  BY <1>1, <1>4, <1>5 DEF Typed
<1> QED BY <1>2, <1>5, <1>6

LEMMA LearnOK ==
  ASSUME NEW s, NEW e \in Endpoint, Typed(s, e), NEW p \in Endpoint, e # p,
         NEW m, m.key \in Key \cup {NoKey}
  PROVE  Typed(Learn(s, p, m), e) /\ Holds(s, Learn(s, p, m), e)
<1>1. CASE s.lastKey[p] = m.key
  <2>1. Learn(s, p, m) = s
    BY <1>1 DEF Learn
  <2> QED BY <2>1 DEF Holds, KeyAlike
<1>2. CASE s.lastKey[p] # m.key
  BY <1>2, LearnFields DEF Learn
<1> QED BY <1>1, <1>2

(* A letter for p only.                                                    *)
LEMMA LetterOK ==
  ASSUME NEW e \in Endpoint, NEW p \in Endpoint, e # p, NEW k, NEW index, MessageOK(k, e, index),
         NEW mail, mail = [q \in Endpoint |-> IF q \in {p} THEN <<k>> ELSE <<>>]
  PROVE  MailOK(mail, e, index)
<1>1. \A q \in Endpoint : mail[q] = IF q \in {p} THEN <<k>> ELSE <<>>
  OBVIOUS
<1> QED BY <1>1, Letters

LEMMA SessionAckKeeps ==
  ASSUME IInv, NEW e \in Endpoint, NEW p \in Endpoint, SessionAck(e, p)
  PROVE  IInv'
<1> DEFINE s == ep[e]
           m == Head(net[p][e])
           mine == {r \in s.reqs : r.kind = "init" /\ r.to = p /\ r.n = m.n}
           session == [s.session EXCEPT ![p] = m.session]
           pending == [s.pending EXCEPT ![p] = 0]
           open == [s EXCEPT !.session = session, !.pending = pending, !.reqs = s.reqs \ mine]
           t == IF m.key = NoKey THEN open
                ELSE [open EXCEPT !.lastKey[p] = m.key, !.ctx[p] = SetKeys(@, m.key, m.index)]
           k == KeyInfo("key-info", s, m.session, 0)
           mail == IF \E r \in mine : r.by = 0 THEN Mail({p}, LAMBDA q : k) ELSE Nothing
<1>1. net[p][e] # <<>> /\ m.type = "session-ack"
  BY DEF SessionAck, Next1
<1>2. /\ e # p /\ EpOK(s, e) /\ m.key \in Key \cup {NoKey} /\ m.session \in Session
  BY <1>1, PickedUp DEF KeyTypes
<1>3. /\ s \in StateWith(s.ctx, s.old) /\ Typed(s, e) /\ Made(s.key, e, s.index)
      /\ s.session \in [Endpoint -> Session \cup {NoSession}]
      /\ s.pending \in [Endpoint -> Nat] /\ s.reqs \in SUBSET Request
  BY <1>2, TypedFields DEF EpOK, Typed
<1>4. open = [s EXCEPT !.session[p] = m.session, !.pending[p] = 0, !.reqs = @ \ mine]
  BY <1>3 DEF StateWith
<1>5. Deliver(e, p, t, mail) /\ Hears(e, p, m.key, m.key # NoKey)
  BY <1>4 DEF SessionAck
<1>6. /\ session \in [Endpoint -> Session \cup {NoSession}] /\ pending \in [Endpoint -> Nat]
      /\ s.reqs \ mine \in SUBSET Request
  BY <1>2, <1>3
<1>7. MailOK(mail, e, s.index)
  <2>1. MessageOK(k, e, s.index)
    BY <1>2, <1>3, KeyInfoOK DEF KeyTypes
  <2> DEFINE letter == [q \in Endpoint |-> IF q \in {p} THEN <<k>> ELSE <<>>]
  <2> HIDE DEF k, s
  <2>2. MailOK(letter, e, s.index)
    BY <1>2, <2>1, LetterOK
  <2>3. MailOK(Nothing, e, s.index)
    BY NothingOK
  <2>4. mail = IF \E r \in mine : r.by = 0 THEN letter ELSE Nothing
    BY DEF Mail
  <2> QED BY <2>2, <2>3, <2>4
<1> HIDE DEF session, pending, mine, mail, s
<1>8. /\ open \in StateWith(s.ctx, s.old) /\ open.ctx = s.ctx /\ open.old = s.old
      /\ Holds(s, open, e)
  BY <1>3, <1>6 DEF StateWith, Holds, KeyAlike
<1> HIDE DEF open
<1>9. Typed(open, e)
  BY <1>3, <1>8 DEF Typed
<1> HIDE DEF m
<1>10. Typed(t, e) /\ Holds(s, t, e)
  <2>1. CASE m.key = NoKey
    BY <1>8, <1>9, <2>1
  <2>2. CASE m.key # NoKey
    <3>1. Typed(t, e) /\ Holds(open, t, e)
      BY <1>2, <1>9, <2>2, LearnFields
    <3> QED BY <1>8, <3>1 DEF Holds, KeyAlike
  <2> QED BY <2>1, <2>2
<1> HIDE DEF t
<1>11. EpOK(t, e) /\ Keeps(s, t) /\ s.index <= t.index /\ t.index = s.index
  BY <1>2, <1>10, HoldsKeeps
<1>12. /\ m.type \in KeyTypes
       /\ Hears(e, p, m.key, TRUE) \/ Hears(e, p, m.key, FALSE)
  <2>1. CASE m.key = NoKey
    BY <1>1, <1>5, <2>1 DEF KeyTypes, Hears
  <2>2. CASE m.key # NoKey
    BY <1>1, <1>5, <2>2 DEF KeyTypes, Hears
  <2> QED BY <2>1, <2>2
<1> QED BY <1>1, <1>5, <1>7, <1>11, <1>12, DeliverKeeps DEF m, s

LEMMA KeyInfoReceivedKeeps ==
  ASSUME IInv, NEW e \in Endpoint, NEW p \in Endpoint, KeyInfoReceived(e, p)
  PROVE  IInv'
<1> DEFINE s == ep[e]
           m == Head(net[p][e])
           t == Learn(s, p, m)
           k == KeyInfo("key-info-ack", s, m.session, m.n)
           mail == Mail({p}, LAMBDA q : k)
<1>1. net[p][e] # <<>> /\ m.type = "key-info"
  BY DEF KeyInfoReceived, Next1
<1>2. /\ e # p /\ EpOK(s, e) /\ m.key \in Key \cup {NoKey} /\ m.session \in Session
      /\ m.n \in Nat
  BY <1>1, PickedUp DEF KeyTypes
<1>3. Typed(s, e) /\ Made(s.key, e, s.index)
  BY <1>2 DEF EpOK
<1>4. CASE Deliver(e, p, s, Nothing) /\ heard' = heard
  <2>1. EpOK(s, e) /\ Keeps(s, s) /\ s.index <= s.index
    BY <1>2, Alike DEF EpOK
  <2> QED BY <1>1, <1>4, <2>1, NothingOK, DeliverKeeps
<1>5. CASE Deliver(e, p, t, mail) /\ Hears(e, p, m.key, m.key # s.lastKey[p])
  <2>1. MailOK(mail, e, s.index)
    <3>1. MessageOK(k, e, s.index)
      BY <1>2, <1>3, KeyInfoOK DEF KeyTypes
    <3> HIDE DEF k, s
    <3>2. mail = [q \in Endpoint |-> IF q \in {p} THEN <<k>> ELSE <<>>]
      BY DEF Mail
    <3> HIDE DEF mail
    <3> QED BY <1>2, <3>1, <3>2, LetterOK
  <2> HIDE DEF mail, s, m
  <2>2. Typed(t, e) /\ Holds(s, t, e)
    BY <1>2, <1>3, LearnOK
  <2> HIDE DEF t
  <2>3. EpOK(t, e) /\ Keeps(s, t) /\ s.index <= t.index /\ t.index = s.index
    BY <1>2, <2>2, HoldsKeeps
  <2>4. /\ m.type \in KeyTypes
        /\ Hears(e, p, m.key, TRUE) \/ Hears(e, p, m.key, FALSE)
    <3>1. CASE m.key = s.lastKey[p]
      BY <1>1, <1>5, <3>1 DEF KeyTypes, Hears
    <3>2. CASE m.key # s.lastKey[p]
      BY <1>1, <1>5, <3>2 DEF KeyTypes, Hears
    <3> QED BY <3>1, <3>2
  <2> QED BY <1>1, <1>5, <2>1, <2>3, <2>4, DeliverKeeps DEF m, s
<1> QED BY <1>4, <1>5 DEF KeyInfoReceived

LEMMA KeyInfoAckKeeps ==
  ASSUME IInv, NEW e \in Endpoint, NEW p \in Endpoint, KeyInfoAck(e, p)
  PROVE  IInv'
<1> DEFINE s == ep[e]
           m == Head(net[p][e])
           told == IF m.index < 0 THEN s ELSE Learn(s, p, m)
           reqs == {r \in told.reqs : ~(r.kind = "key" /\ r.to = p /\ r.n = m.n)}
           t == [told EXCEPT !.reqs = reqs]
<1>1. net[p][e] # <<>> /\ m.type = "key-info-ack"
  BY DEF KeyInfoAck, Next1
<1>2. /\ e # p /\ EpOK(s, e) /\ m.key \in Key \cup {NoKey} /\ m.session \in Session
  BY <1>1, PickedUp DEF KeyTypes
<1>3. Typed(s, e)
  BY <1>2 DEF EpOK
<1>4. CASE Deliver(e, p, s, Nothing) /\ heard' = heard
  <2>1. EpOK(s, e) /\ Keeps(s, s) /\ s.index <= s.index
    BY <1>2, Alike DEF EpOK
  <2> QED BY <1>1, <1>4, <2>1, NothingOK, DeliverKeeps
<1>5. CASE Deliver(e, p, t, Nothing) /\ Hears(e, p, m.key, told.lastKey # s.lastKey)
  <2> HIDE DEF s, m
  <2>1. Typed(told, e) /\ Holds(s, told, e)
    <3>1. Typed(s, e) /\ Holds(s, s, e)
      BY <1>3 DEF Holds, KeyAlike
    <3>2. Typed(Learn(s, p, m), e) /\ Holds(s, Learn(s, p, m), e)
      BY <1>2, <1>3, LearnOK
    <3> QED BY <3>1, <3>2
  <2>2. Hears(e, p, m.key, TRUE) \/ Hears(e, p, m.key, FALSE)
    <3>1. CASE told.lastKey = s.lastKey
      BY <1>5, <3>1 DEF Hears
    <3>2. CASE told.lastKey # s.lastKey
      BY <1>5, <3>2 DEF Hears
    <3> QED BY <3>1, <3>2
  <2> HIDE DEF told
  <2>3. told \in StateWith(told.ctx, told.old) /\ reqs \in SUBSET Request
    BY <2>1, TypedFields DEF Typed
  <2> HIDE DEF reqs
  <2>4. /\ t \in StateWith(told.ctx, told.old) /\ t.ctx = told.ctx /\ t.old = told.old
        /\ Holds(told, t, e)
    BY <2>3 DEF StateWith, Holds, KeyAlike
  <2> HIDE DEF t
  <2>5. Typed(t, e) /\ Holds(s, t, e)
    BY <2>1, <2>4 DEF Typed, Holds, KeyAlike
  <2>6. EpOK(t, e) /\ Keeps(s, t) /\ s.index <= t.index
    BY <1>2, <2>5, HoldsKeeps
  <2>7. m.type \in KeyTypes
    BY <1>1 DEF KeyTypes
  <2> QED BY <1>1, <1>5, <2>2, <2>6, <2>7, NothingOK, DeliverKeeps DEF m, s
<1> QED BY <1>4, <1>5 DEF KeyInfoAck

-----------------------------------------------------------------------------
(***************************************************************************)
(* Who joins and who leaves.                                               *)
(***************************************************************************)

LEMMA JoinKeeps ==
  ASSUME IInv, NEW e \in Endpoint, Join(e)
  PROVE  IInv'
<1> DEFINE m == [type |-> "joined", n |-> 0]
           mail == Mail(room, LAMBDA p : m)
           t == [ep[e] EXCEPT !.known = room]
<1>1. RoomOK /\ NetOK /\ HeardOK /\ LockedOutOK /\ room \subseteq Endpoint
      /\ ep = [q \in Endpoint |-> ep[q]]
  BY DEF IInv, RoomOK
<1>2. /\ e \notin room /\ e \notin left /\ room' = room \cup {e} /\ left' = left /\ heard' = heard
      /\ net' = Send(net, e, mail)
      /\ ep' = IF e \in Encrypting THEN [ep EXCEPT ![e].known = room] ELSE ep
  BY DEF Join
<1>3. ep[e] = New
  BY <1>1, <1>2 DEF RoomOK
<1>4. /\ t.known = room /\ KeyAlike(New, t) /\ Typed(t, e) /\ t.ctx = New.ctx
      /\ t.asked = New.asked /\ t.calls = New.calls /\ t.enabled = New.enabled
      /\ t.starting = New.starting /\ t.rotations = New.rotations /\ t.rotate = New.rotate
      /\ t.material = New.material
  <2>1. New \in StateWith(New.ctx, New.old) /\ Typed(New, e)
    BY NewOK DEF EpOK, Typed
  <2> DEFINE w == New
  <2>2. t = [w EXCEPT !.known = room] /\ w \in StateWith(w.ctx, w.old) /\ Typed(w, e)
    BY <1>3, <2>1
  <2> HIDE DEF w
  <2>3. /\ t \in StateWith(w.ctx, w.old) /\ t.ctx = w.ctx /\ t.old = w.old
        /\ t.known = room /\ KeyAlike(w, t)
        /\ t.asked = w.asked /\ t.calls = w.calls /\ t.enabled = w.enabled
        /\ t.starting = w.starting /\ t.rotations = w.rotations /\ t.rotate = w.rotate
        /\ t.material = w.material
    BY <1>1, <2>2 DEF StateWith, KeyAlike
  <2> HIDE DEF t
  <2>4. Typed(t, e)
    BY <2>2, <2>3 DEF Typed
  <2> QED BY <2>3, <2>4 DEF w
<1>5. /\ EpOK(New, e) /\ New.index = -1 /\ New.enabled = FALSE
      /\ New.key = NoKey /\ New.material = NoKey
  BY NewOK
<1>6. e \notin t.known
  BY <1>2, <1>4
<1>7. ep' = ep \/ (e \in Encrypting /\ ep' = [ep EXCEPT ![e] = t])
  BY <1>1, <1>2
<1> HIDE DEF t
<1>8. EpOK(t, e) /\ t.index = -1 /\ t.enabled = FALSE /\ t.key = NoKey /\ t.material = NoKey
  <2>1. e \notin t.asked /\ Made(t.key, e, t.index) /\ Made(t.material, e, t.index)
    BY <1>4, <1>5 DEF EpOK, KeyAlike, Made
  <2>2. Current(t, e)
    BY <1>4, <1>5 DEF EpOK, KeyAlike, Current
  <2>3. t.starting # 0 => t.starting \in DOMAIN t.calls /\ t.calls[t.starting].phase = "init"
    BY <1>4, <1>5 DEF EpOK
  <2> QED BY <1>4, <1>5, <1>6, <2>1, <2>2, <2>3 DEF EpOK, KeyAlike
<1>9. /\ \A q \in Endpoint : q # e => ep'[q] = ep[q]
      /\ ep'[e] = New \/ (ep'[e] = t /\ e \in Encrypting)
      /\ ep' = [q \in Endpoint |-> ep'[q]]
  <2>1. CASE ep' = ep
    BY <1>1, <1>3, <2>1
  <2>2. CASE e \in Encrypting /\ ep' = [ep EXCEPT ![e] = t]
    BY <1>1, <2>2
  <2> QED BY <1>7, <2>1, <2>2
<1>10. /\ EpOK(ep'[e], e) /\ ep'[e].index = -1 /\ ep'[e].enabled = FALSE
       /\ ep'[e].key = NoKey /\ ep'[e].material = NoKey
  BY <1>5, <1>8, <1>9
<1>11. \A q \in Endpoint : EpOK(ep[q], q) /\ EpOK(ep'[q], q)
  BY <1>1, <1>9, <1>10 DEF RoomOK
<1>12. RoomOK'
  <2>1. \A q \in Endpoint : q \notin room' \cap Encrypting => ep'[q] = New
    BY <1>1, <1>2, <1>9 DEF RoomOK
  <2> QED BY <1>1, <1>2, <1>9, <1>11, <2>1 DEF RoomOK
<1>13. \A q \in Endpoint : /\ ep[q].index \in Nat \cup {-1} /\ ep'[q].index \in Nat \cup {-1}
                           /\ ep[q].index <= ep'[q].index
  <2>1. \A q \in Endpoint : ep[q].index \in Nat \cup {-1} /\ ep'[q].index \in Nat \cup {-1}
    BY <1>11, TypedFields DEF EpOK
  <2>2. \A q \in Endpoint : ep'[q].index = ep[q].index
    BY <1>3, <1>5, <1>9, <1>10
  <2> QED BY <2>1, <2>2
<1>14. NetGood(net, room \cap Encrypting, left, ep')
  BY <1>1, <1>13, NetGrows DEF NetOK
<1>15. MailOK(mail, e, -1)
  <2>1. MessageOK(m, e, -1)
    BY PlainOK
  <2> HIDE DEF m
  <2>2. mail = [p \in Endpoint |-> IF p \in room THEN <<m>> ELSE <<>>]
    BY DEF Mail
  <2> HIDE DEF mail
  <2>3. \A p \in Endpoint : mail[p] = IF p \in room THEN <<m>> ELSE <<>>
    BY <2>2
  <2> QED BY <1>2, <2>1, <2>2, <2>3, Letters
<1> HIDE DEF mail, m
<1>16. /\ NetGood(net', room \cap Encrypting, left, ep')
       /\ \A q \in Endpoint \ {e} : net'[q] = net[q]
  <2> DEFINE x == ep'
  <2>1. NetGood(net, room \cap Encrypting, left, x) /\ x[e].index = -1
        /\ x[e].index \in Nat \cup {-1} /\ e \in Endpoint /\ e \notin left
    BY <1>2, <1>10, <1>14
  <2> HIDE DEF x
  <2>2. MailOK(mail, e, x[e].index)
    BY <1>15, <2>1
  <2>3. /\ NetGood(Send(net, e, mail), room \cap Encrypting, left, x)
        /\ \A q \in Endpoint \ {e} : Send(net, e, mail)[q] = net[q]
    BY ONLY <2>1, <2>2, NetSends
  <2> QED BY <1>2, <2>3 DEF x
<1>17. NetOK'
  <2>1. room \cap Encrypting \subseteq room' \cap Encrypting
    BY <1>2
  <2>2. NetGood(net', room' \cap Encrypting, left, ep')
    BY <1>16, <2>1, NetJoins
  <2> QED BY <1>2, <2>2 DEF NetOK
<1>18. HeardOK'
  <2>1. ASSUME NEW q \in Endpoint, NEW w \in Endpoint, q \notin left, NEW k \in heard[w],
               k.owner = q
        PROVE  k.n <= ep'[q].index
    <3>1. k \in Key /\ k.n <= ep[q].index
      BY <1>1, <2>1 DEF HeardOK
    <3> QED BY <1>13, <3>1 DEF Key
  <2> QED BY <1>1, <1>2, <2>1 DEF HeardOK
<1>19. LockedOutOK'
  <2>1. ASSUME NEW l \in left, NEW q \in room \cup {e}, net'[l][q] = <<>>
        PROVE  LockedOut(ep'[q], q, l, heard[l])
    <3>1. CASE q = e
      BY <1>10, <3>1 DEF LockedOut, Unknown
    <3>2. CASE q # e
      <4>1. l \in Endpoint /\ l # e /\ q \in room /\ q \in Endpoint
        BY <1>1, <1>2, <2>1, <3>2 DEF RoomOK
      <4>2. net[l][q] = <<>>
        BY <1>16, <2>1, <4>1
      <4> QED BY <1>1, <1>9, <2>1, <3>2, <4>1, <4>2 DEF LockedOutOK
    <3> QED BY <3>1, <3>2
  <2> QED BY <1>2, <2>1 DEF LockedOutOK
<1> QED BY <1>12, <1>17, <1>18, <1>19 DEF IInv

(* The last thing the others who encrypt hear from e is that it has left.  *)
LEMMA LeaveKeeps ==
  ASSUME IInv, NEW e \in Endpoint, Leave(e)
  PROVE  IInv'
<1> DEFINE m == [type |-> "left", n |-> 0]
           R == room \cap Encrypting
           u(q) == IF q \in R \ {e} THEN Append(net[e][q], m) ELSE <<>>
<1>1. /\ RoomOK /\ NetOK /\ HeardOK /\ LockedOutOK /\ room \subseteq Endpoint
      /\ ep = [q \in Endpoint |-> ep[q]] /\ left \subseteq Endpoint
      /\ NetGood(net, R, left, ep)
  BY DEF IInv, RoomOK, NetOK
<1>2. /\ room' = room \ {e} /\ left' = left \cup {e} /\ heard' = heard /\ e \in room
      /\ ep' = [ep EXCEPT ![e] = New]
  BY DEF Leave
<1>3. /\ net' = [p \in Endpoint |-> IF p = e THEN [q \in Endpoint |-> u(q)]
                                    ELSE [net[p] EXCEPT ![e] = <<>>]]
  BY DEF Leave
<1>4. net \in Nets /\ \A p \in Endpoint : net[p] \in [Endpoint -> Seq(Message)]
  BY <1>1 DEF NetGood, Nets
<1>5. /\ \A q \in Endpoint : net'[e][q] = u(q)
      /\ \A p, q \in Endpoint : p # e => net'[p][q] = IF q = e THEN <<>> ELSE net[p][q]
      /\ net' = [p \in Endpoint |-> [q \in Endpoint |-> net'[p][q]]]
  BY <1>3, <1>4
<1>6. m \in Message /\ m.type = "left" /\ MessageFrom(m, e)
  BY DEF Message, MessageFrom, KeyTypes
<1> HIDE DEF m
<1>7. ASSUME NEW q \in Endpoint
      PROVE  /\ u(q) \in Seq(Message)
             /\ \A i \in DOMAIN u(q) : MessageFrom(u(q)[i], e)
             /\ u(q) # <<>> => u(q)[Len(u(q))].type = "left"
             /\ q \in R \ {e} => u(q) # <<>>
  <2>1. CASE q \in R \ {e}
    <3>1. net[e][q] \in Seq(Message) /\ \A i \in DOMAIN net[e][q] : MessageFrom(net[e][q][i], e)
      BY <1>1, <1>4 DEF NetGood
    <3> DEFINE c == net[e][q]
               d == Append(c, m)
    <3>2. u(q) = d
      BY <2>1
    <3>3. c \in Seq(Message)
      BY <3>1
    <3> HIDE DEF c
    <3>4. /\ d \in Seq(Message) /\ Len(d) = Len(c) + 1 /\ d # <<>>
          /\ d[Len(d)] = m
          /\ \A i \in DOMAIN d : d[i] = IF i \in DOMAIN c THEN c[i] ELSE m
      <4>1. /\ d \in Seq(Message) /\ Len(d) = Len(c) + 1
            /\ \A i \in 1..Len(c) : d[i] = c[i]
            /\ d[Len(c) + 1] = m
        BY ONLY <1>6, <3>3, AppendProperties
      <4>2. Len(c) \in Nat /\ DOMAIN c = 1..Len(c) /\ DOMAIN d = 1..(Len(c) + 1)
        BY <3>3, <4>1
      <4> HIDE DEF d
      <4>3. \A i \in DOMAIN d : i \in DOMAIN c \/ i = Len(c) + 1
        BY <4>2
      <4>4. d # <<>>
        <5>1. \A x : x = <<>> => Len(x) = 0
          OBVIOUS
        <5> QED BY <4>1, <4>2, <5>1
      <4>5. Len(c) + 1 \notin DOMAIN c
        BY <4>2
      <4> QED BY <4>1, <4>2, <4>3, <4>4, <4>5
    <3> HIDE DEF d
    <3>5. \A i \in DOMAIN d : MessageFrom(d[i], e)
      BY <1>6, <3>1, <3>4 DEF c
    <3> QED BY <1>6, <3>2, <3>4, <3>5
  <2>2. CASE q \notin R \ {e}
    <3>1. u(q) = <<>>
      BY <2>2
    <3> HIDE DEF u
    <3> QED BY <2>2, <3>1
  <2> QED BY <2>1, <2>2
<1>8. u(e) = <<>> /\ \A q \in Endpoint : q \notin R => u(q) = <<>>
  OBVIOUS
<1> HIDE DEF u
<1>9. \A q \in Endpoint : ep'[q] = IF q = e THEN New ELSE ep[q]
  BY <1>1, <1>2
<1>10. ep' = [q \in Endpoint |-> ep'[q]]
  BY <1>1, <1>2
<1>11. RoomOK'
  <2>1. \A q \in Endpoint : EpOK(ep'[q], q)
    BY <1>1, <1>9, NewOK DEF RoomOK
  <2>2. \A q \in Endpoint : q \notin room' \cap Encrypting => ep'[q] = New
    BY <1>1, <1>2, <1>9 DEF RoomOK
  <2>3. room' \cap left' = {}
    BY <1>1, <1>2 DEF RoomOK
  <2> QED BY <1>1, <1>2, <1>10, <2>1, <2>2, <2>3 DEF RoomOK
<1>12. NetOK'
  <2>1. net' \in Nets
    <3>1. \A p, q \in Endpoint : net'[p][q] \in Seq(Message)
      <4>1. <<>> \in Seq(Message)
        OBVIOUS
      <4> QED BY <1>4, <1>5, <1>7, <4>1, ZenonT(60)
    <3> QED BY <1>5, <3>1 DEF Nets
  <2>2. \A p \in Endpoint : net'[p][p] = <<>>
    BY <1>1, <1>5, <1>8 DEF NetGood
  <2>3. \A p, q \in Endpoint : q \notin room' \cap Encrypting => net'[p][q] = <<>>
    BY <1>1, <1>2, <1>5, <1>8 DEF NetGood
  <2>4. ASSUME NEW p \in Endpoint, NEW q \in Endpoint, NEW i \in DOMAIN net'[p][q]
        PROVE  /\ MessageFrom(net'[p][q][i], p)
               /\ p \notin left' => MessageOK(net'[p][q][i], p, ep'[p].index)
    <3>1. CASE p = e
      BY <1>2, <1>5, <1>7, <2>4, <3>1
    <3>2. CASE p # e /\ q # e
      <4>1. net'[p][q] = net[p][q] /\ ep'[p] = ep[p]
        BY <1>5, <1>9, <3>2
      <4> QED BY <1>1, <1>2, <2>4, <4>1 DEF NetGood
    <3>3. CASE p # e /\ q = e
      <4>1. net'[p][q] = <<>>
        BY <1>5, <3>3
      <4>2. DOMAIN <<>> = {}
        OBVIOUS
      <4> QED BY <2>4, <4>1, <4>2
    <3> QED BY <3>1, <3>2, <3>3
  <2>5. ASSUME NEW l \in left', NEW q \in Endpoint, l \in Endpoint, net'[l][q] # <<>>
        PROVE  net'[l][q][Len(net'[l][q])].type = "left"
    <3>1. CASE l = e
      BY <1>5, <1>7, <2>5, <3>1
    <3>2. CASE l # e
      <4>1. net'[l][q] = net[l][q] /\ l \in left
        BY <1>2, <1>5, <2>5, <3>2
      <4> QED BY <1>1, <2>5, <4>1 DEF NetGood
    <3> QED BY <3>1, <3>2
  <2>6. NetGood(net', room' \cap Encrypting, left', ep')
    BY <2>1, <2>2, <2>3, <2>4, <2>5 DEF NetGood
  <2> QED BY <2>6 DEF NetOK
<1>13. HeardOK'
  BY <1>1, <1>2, <1>9 DEF HeardOK
<1>14. LockedOutOK'
  <2>1. ASSUME NEW l \in left \cup {e}, NEW q \in room \ {e}, net'[l][q] = <<>>
        PROVE  LockedOut(ep'[q], q, l, heard[l])
    <3>1. q \in Endpoint /\ l \in Endpoint /\ q # e /\ ep'[q] = ep[q]
      BY <1>1, <1>9, <2>1
    <3>2. CASE l = e
      <4>1. q \notin Encrypting
        BY <1>5, <1>7, <2>1, <3>1, <3>2
      <4>2. ep[q] = New
        BY <1>1, <3>1, <4>1 DEF RoomOK
      <4>3. New.key = NoKey /\ New.material = NoKey
        BY DEF New
      <4> QED BY <3>1, <4>2, <4>3, NewOK DEF LockedOut, Unknown
    <3>3. CASE l # e
      BY <1>1, <1>5, <2>1, <3>1, <3>3 DEF LockedOutOK
    <3> QED BY <3>2, <3>3
  <2> QED BY <1>2, <2>1 DEF LockedOutOK
<1> QED BY <1>11, <1>12, <1>13, <1>14 DEF IInv

-----------------------------------------------------------------------------
(***************************************************************************)
(* The inductive invariant.                                                *)
(***************************************************************************)

LEMMA InitIInv == Init => IInv
<1> SUFFICES ASSUME Init PROVE IInv
  OBVIOUS
<1>1. \A e \in Endpoint : ep[e] = New /\ heard[e] = {} /\ \A p \in Endpoint : net[e][p] = <<>>
  BY DEF Init
<1>2. RoomOK
  BY <1>1, NewOK DEF Init, RoomOK
<1>3. NetOK
  <2>1. net \in Nets
    <3>1. <<>> \in Seq(Message)
      OBVIOUS
    <3> QED BY <3>1 DEF Init, Nets
  <2>2. DOMAIN <<>> = {} /\ left = {}
    BY DEF Init
  <2> QED BY <1>1, <2>1, <2>2 DEF NetOK, NetGood
<1>4. HeardOK
  BY <1>1 DEF Init, HeardOK
<1>5. LockedOutOK
  BY DEF Init, LockedOutOK
<1> QED BY <1>2, <1>3, <1>4, <1>5 DEF IInv

LEMMA ContinueKeeps ==
  ASSUME IInv, NEW e \in Endpoint, Continue(e)
  PROVE  IInv'
BY TurnOnKeeps, TurnOffKeeps, SwitchedKeeps, KeyMadeKeeps, RotatedKeeps, InviteAskedKeeps
   DEF Continue

LEMMA TimerKeeps ==
  ASSUME IInv, NEW e \in Endpoint, Timer(e)
  PROVE  IInv'
BY RotateKeeps, RatchetKeyKeeps, RatchetDoneKeeps, TimeoutKeeps DEF Timer

LEMMA ReceiveKeeps ==
  ASSUME IInv, NEW e \in Endpoint, NEW p \in Endpoint, Receive(e, p)
  PROVE  IInv'
BY ParticipantJoinedKeeps, ParticipantLeftKeeps, PropertyChangedKeeps, SessionInitKeeps,
   SessionAckKeeps, LateSessionAckKeeps, KeyInfoReceivedKeeps, KeyInfoAckKeeps DEF Receive

LEMMA NextIInv == IInv /\ [Next]_vars => IInv'
<1> SUFFICES ASSUME IInv, [Next]_vars PROVE IInv'
  OBVIOUS
<1>1. CASE Next
  <2>1. PICK e \in Endpoint :
          \/ Continue(e) \/ Timer(e) \/ Join(e) \/ Leave(e)
          \/ \E want \in BOOLEAN : SetEnabled(e, want)
          \/ \E p \in Endpoint : Receive(e, p) \/ Frame(e, p)
    BY <1>1 DEF Next
  <2>2. CASE Continue(e)
    BY <2>2, ContinueKeeps
  <2>3. CASE Timer(e)
    BY <2>3, TimerKeeps
  <2>4. CASE Join(e)
    BY <2>4, JoinKeeps
  <2>5. CASE Leave(e)
    BY <2>5, LeaveKeeps
  <2>6. ASSUME NEW want \in BOOLEAN, SetEnabled(e, want)
        PROVE  IInv'
    BY <2>6, SetEnabledKeeps
  <2>7. ASSUME NEW p \in Endpoint, Receive(e, p)
        PROVE  IInv'
    BY <2>7, ReceiveKeeps
  <2>8. ASSUME NEW p \in Endpoint, Frame(e, p)
        PROVE  IInv'
    BY <2>8, FrameKeeps
  <2> QED BY <2>1, <2>2, <2>3, <2>4, <2>5, <2>6, <2>7, <2>8
<1>2. CASE UNCHANGED vars
  BY <1>2 DEF vars, IInv, RoomOK, NetOK, HeardOK, LockedOutOK
<1> QED BY <1>1, <1>2

(* In every behaviour an endpoint that encrypts has a key of its own or is *)
(* about to make one, what is under way from somebody who has left ends    *)
(* with its departure, and nobody was told a key beyond its owner's index  *)
(* (updateKey, _onParticipantLeft, _rotateKeyImpl).                       *)
THEOREM Inductive == Spec => []IInv
BY InitIInv, NextIInv, PTL DEF Spec

(* Once the rotation that a departure asks for is through, whoever has     *)
(* left was never told the key in use, whatever was under way when it      *)
(* left: a call of setEnabled, another rotation, answers and timeouts of   *)
(* requests, or other departures (_onParticipantLeft, _rotateKeyImpl).     *)
(* When a ratchet under way overwrites the rotated key, this is shown of   *)
(* those who left before the key was made that the ratchet had taken, and  *)
(* not of those who left since (_ratchetKeyImpl).                          *)
THEOREM LeaversLockedOut == Spec => []LeaverLockedOut
<1>1. IInv => LeaverLockedOut
  <2> SUFFICES ASSUME IInv, NEW e \in room, NEW l \in left,
                      ep[e].enabled, Settled(e), ~ep[e].rotate, net[l][e] = <<>>,
                      ~(ep[e].raced /\ l \in ep[e].gone),
                      NEW k \in heard[l], k.owner = e,
                      k.n = Encode(ep[e].ctx[e]).key.n
               PROVE  FALSE
    BY DEF LeaverLockedOut
  <2> DEFINE s == ep[e]
  <2>1. EpOK(s, e) /\ e \in Endpoint
    BY DEF IInv, RoomOK
  <2>2. LockedOut(s, e, l, heard[l])
    BY DEF IInv, LockedOutOK
  <2>3. s.rotations = {} /\ \A i \in DOMAIN s.calls : s.calls[i].phase = "done"
    BY DEF Settled
  <2>4. ~Opening(s)
    BY <2>1, <2>3 DEF Opening, EpOK
  <2>5. Encode(s.ctx[e]).key = s.key
    BY <2>1, <2>3 DEF EpOK, Current
  <2>6. s.key # NoKey /\ k.n < s.key.n
    BY <2>1, <2>2, <2>4 DEF LockedOut, Unknown, EpOK
  <2>7. k.n \in Nat
    BY DEF IInv, RoomOK, HeardOK, Key
  <2> QED BY <2>5, <2>6, <2>7
<1> QED BY <1>1, Inductive, PTL

-----------------------------------------------------------------------------
(***************************************************************************)
(* That two who both encrypt hold the same session when nothing is under   *)
(* way between them, for any endpoints, any number of calls of setEnabled  *)
(* and keys and whatever may be late.                                      *)
(*                                                                         *)
(* Of two endpoints only the one with the smaller id, a below, invites;    *)
(* its state is s, that of the other, b, is t, q is under way from a to b  *)
(* and r from b to a.  The invariant is about each such pair: what the     *)
(* invitations and their answers look like (Ordered), who knows of whom    *)
(* (Knows), and, but for pairs of which one was found to hold a session    *)
(* that the other had freed, that the two agree or what will make them     *)
(* agree is still to happen (Agree).  It rests on the order in which the   *)
(* calls of setEnabled go on at each endpoint (CallsOK, AskedOK).          *)
(***************************************************************************)

-----------------------------------------------------------------------------
(***************************************************************************)
(* The calls of setEnabled.                                                *)
(***************************************************************************)

(* A call found initSessions running, and will never be through.           *)
Hung(s) == \E i \in DOMAIN s.calls : s.calls[i].phase = "hung"

(* The last call that began switches off, and the others are not told yet. *)
Undone(s) ==
  s.enabling # 0 /\ ~s.calls[s.enabling].want /\ s.calls[s.enabling].phase = "key"

(* A call that switches off, or on, has yet to tell the others.            *)
SwitchesOff(s) == \E i \in DOMAIN s.calls : ~s.calls[i].want /\ s.calls[i].phase = "key"
SwitchesOn(s) ==
  \E i \in DOMAIN s.calls : s.calls[i].want /\ s.calls[i].phase \in {"init", "key"}

(* The calls of setEnabled begin in their order.  Those that wait all ask  *)
(* for the other state than the last one that began, and wait for it; or   *)
(* all for the same state, and what they wait for is through.              *)
CallsOK(s) ==
  /\ s.enabling = 0 \/ s.enabling \in DOMAIN s.calls
  /\ \A i \in DOMAIN s.calls : s.calls[i].phase = "wait" <=> s.enabling < i
  /\ s.enabling = 0 => ~s.enabled
  /\ s.enabling # 0 => (s.calls[s.enabling].want <=> s.enabled)
  /\ s.starting # 0 => s.calls[s.starting].want /\ (Hung(s) \/ s.starting = s.enabling)
  /\ \A i \in DOMAIN s.calls : s.calls[i].phase = "key" =>
       s.calls[i].on <= s.index /\ (s.calls[i].want \/ NoKeyRequests(s, s.calls[i].on))
  /\ \A r \in s.reqs : r.kind = "key" => r.n <= s.index
  /\ \/ \A i \in DOMAIN s.calls : s.enabling < i =>
          s.calls[i].on = s.enabling /\ (s.calls[i].want <=> ~s.enabled)
     \/ \A i \in DOMAIN s.calls : s.enabling < i =>
          /\ s.calls[i].want <=> s.enabled
          /\ s.calls[i].on = 0 \/ \E j \in DOMAIN s.calls :
                                    j = s.calls[i].on /\ s.calls[j].phase = "done"

(* No call is about to free the sessions.                                  *)
Safe(s) ==
  /\ \A i \in DOMAIN s.calls : CanResume(s, i) => s.calls[i].want
  /\ ~KeySettled(s, s.enabling)

(* Whom presence will make s invite, without need, s goes on to encrypt.   *)
AskedOK(s) ==
  \A p \in s.asked \cap s.known :
    s.starting = 0 /\ s.session[p] # NoSession /\ ~Hung(s) => Safe(s)

-----------------------------------------------------------------------------
(***************************************************************************)
(* A pair of endpoints, and what is under way between them.                *)
(***************************************************************************)

(* q2 is q with m at its end.                                              *)
Grown(q, q2, m) ==
  \E n \in Nat \ {0} :
    /\ DOMAIN q2 = DOMAIN q \cup {n} /\ q2[n] = m
    /\ \A i \in DOMAIN q : i \in 1..(n - 1) /\ q2[i] = q[i]

(* q2 is q without its first message.                                      *)
Shrunk(q, q2) ==
  /\ 1 \in DOMAIN q
  /\ \A i \in DOMAIN q2 : i \in Nat \ {0} /\ i + 1 \in DOMAIN q /\ q2[i] = q[i + 1]
  /\ \A i \in DOMAIN q : i \in Nat \ {0} /\ (i = 1 \/ (i - 1 \in DOMAIN q2 /\ q[i] = q2[i - 1]))

(* What is at the place i of a queue.                                      *)
IsInit(q, i) == i \in DOMAIN q /\ q[i].type = "session-init"
IsAck(r, i) == i \in DOMAIN r /\ r[i].type = "session-ack"
IsOff(q, i) == i \in DOMAIN q /\ q[i].type = "off"
IsOn(q, i) == i \in DOMAIN q /\ q[i].type = "on"

(* Presence says first that it has joined.                                 *)
Greets(q) == 1 \in DOMAIN q /\ q[1].type = "joined"

(* The answer about the session k.                                         *)
AckOf(r, k, i) == IsAck(r, i) /\ r[i].session = k

(* Behind the place i there is "off" and, behind that, "on".               *)
OffOn(r, i) == \E j, k \in DOMAIN r : i < j /\ j < k /\ IsOff(r, j) /\ IsOn(r, k)

(* An invitation of a is under way, or its answer.                         *)
Going(q, r) == (\E i \in DOMAIN q : IsInit(q, i)) \/ \E i \in DOMAIN r : IsAck(r, i)

(* Invitations are numbered in their order, their answers come before      *)
(* those of later ones, and only the last invitation may be pending.  None *)
(* is under way once a has a session.                                      *)
Ordered(s, q, r, a, b) ==
  /\ s.inits[b] \in Nat /\ s.pending[b] \in {0, s.inits[b]}
  /\ \A i \in DOMAIN q : IsInit(q, i) => q[i].n \in 1..s.inits[b]
  /\ \A i, j \in DOMAIN q : i < j /\ IsInit(q, i) /\ IsInit(q, j) => q[i].n < q[j].n
  /\ \A i \in DOMAIN r : IsAck(r, i) =>
       r[i].n \in 1..s.inits[b] /\ r[i].session = <<a, b, r[i].n>> /\ r[i].session # NoSession
  /\ \A i, j \in DOMAIN r : i < j /\ IsAck(r, i) /\ IsAck(r, j) => r[i].n < r[j].n
  /\ \A i \in DOMAIN r, j \in DOMAIN q : IsAck(r, i) /\ IsInit(q, j) => r[i].n < q[j].n
  /\ s.session[b] # NoSession => ~Going(q, r)

(* Each knows of the other, or will hear first that it has joined.  Before *)
(* a knows of b, it will also hear that b encrypts.                        *)
Knows(s, t, q, r, a, b) ==
  /\ b \in s.known \/ (Greets(r) /\ s.session[b] = NoSession)
  /\ a \in t.known \/ (Greets(q) /\ t.session[a] = NoSession)
  /\ b \notin s.known /\ t.enabled => (\E i \in DOMAIN r : IsOn(r, i)) \/ SwitchesOn(t)

(* What a holds, b holds, or b has freed it and a is still to hear that.   *)
Holds1(s, t, r, a, b) ==
  s.session[b] # NoSession =>
    t.session[a] = s.session[b] \/ Undone(t) \/ \E i \in DOMAIN r : IsOff(r, i)

(* What only b holds, a has freed and b is still to hear that; or a is     *)
(* still to hear of it.                                                    *)
Holds2(s, t, q, r, a, b) ==
  s.session[b] = NoSession /\ t.session[a] # NoSession =>
    \/ \E i \in DOMAIN r : AckOf(r, t.session[a], i)
    \/ \E i \in DOMAIN q : IsOff(q, i)
    \/ Undone(s) /\ b \notin s.asked

(* b has freed what it is about to tell a that it has freed.               *)
Frees(t, r, a) ==
  /\ SwitchesOff(t) => t.session[a] = NoSession
  /\ \A i \in DOMAIN r : IsOff(r, i) /\ t.session[a] # NoSession =>
       \E j \in DOMAIN r : i < j /\ AckOf(r, t.session[a], j)

(* The answer a waits for is about what b holds, or has freed and says so. *)
Answers(s, t, r, a, b) ==
  \A i \in DOMAIN r : IsAck(r, i) /\ r[i].n = s.pending[b] =>
     t.session[a] = r[i].session \/ Undone(t) \/ \E j \in DOMAIN r : i < j /\ IsOff(r, j)

(* Before an invitation that b would ignore, b hears that a has freed what *)
(* b holds; or what b holds is its answer to an earlier invitation.        *)
Asks(t, q, r, a) ==
  \A i \in DOMAIN q : IsInit(q, i) /\ t.session[a] # NoSession =>
     \/ \E j \in DOMAIN q : j < i /\ IsOff(q, j)
     \/ \E j \in DOMAIN r : AckOf(r, t.session[a], j)

(* What a waits for is under way.                                          *)
Waits(s, q, r, b) == s.pending[b] # 0 => Going(q, r)

(* After "off" b says "on", if it encrypts again.                          *)
Tells(s, t, r, b) ==
  /\ s.session[b] # NoSession /\ t.enabled /\ (\E i \in DOMAIN r : IsOff(r, i)) =>
       SwitchesOn(t) \/ OffOn(r, 0)
  /\ \A i, j \in DOMAIN r :
       IsAck(r, i) /\ r[i].n = s.pending[b] /\ t.enabled /\ i < j /\ IsOff(r, j) =>
         SwitchesOn(t) \/ OffOn(r, i)

(* While both encrypt and a holds no session, it has invited b, or will.   *)
Invites(s, t, q, r, b) ==
  s.session[b] = NoSession /\ s.enabled /\ t.enabled =>
    Going(q, r) \/ (\E i \in DOMAIN r : IsOn(r, i)) \/ SwitchesOn(t) \/ b \in s.asked

(* The two agree, or what will make them agree is still to happen.         *)
Agree(s, t, q, r, a, b) ==
  /\ Holds1(s, t, r, a, b) /\ Holds2(s, t, q, r, a, b)
  /\ Frees(t, r, a) /\ Answers(s, t, r, a, b) /\ Asks(t, q, r, a)
  /\ Waits(s, q, r, b) /\ Tells(s, t, r, b) /\ Invites(s, t, q, r, b)

(* A message that is no concern of the sessions.                           *)
Neutral(m) == m.type \notin {"session-init", "session-ack", "off"}

(* To p, t is like s.                                                      *)
Steady(s, t, p) ==
  /\ t.session[p] = s.session[p] /\ t.inits[p] = s.inits[p]
  /\ t.pending[p] \in {s.pending[p], 0}
  /\ t.enabled = s.enabled /\ (p \in t.asked <=> p \in s.asked) /\ (p \in t.known <=> p \in s.known)
  /\ (Undone(t) <=> Undone(s)) /\ (SwitchesOn(t) <=> SwitchesOn(s))
  /\ (SwitchesOff(t) <=> SwitchesOff(s))

(* Their links: the messages to one another are theirs, and the rest.      *)
Link(s, t, q, r, a, b) == Ordered(s, q, r, a, b) /\ Knows(s, t, q, r, a, b)

-----------------------------------------------------------------------------
(***************************************************************************)
(* A message is sent or taken.                                             *)
(***************************************************************************)

LEMMA OffOnShrinks ==
  ASSUME NEW r, NEW r2, Shrunk(r, r2), NEW i \in Nat,
         OffOn(r, i + 1) \/ (OffOn(r, i) /\ i = 0 /\ r[1].type # "off")
  PROVE  OffOn(r2, i)
<1>1. PICK j, k \in DOMAIN r : i < j /\ j < k /\ IsOff(r, j) /\ IsOn(r, k) /\ j # 1
                              /\ (i + 1 < j \/ i = 0)
  BY DEF OffOn, IsOff, Shrunk
<1>2. /\ j - 1 \in DOMAIN r2 /\ r2[j - 1] = r[j] /\ k - 1 \in DOMAIN r2 /\ r2[k - 1] = r[k]
      /\ j \in Nat /\ k \in Nat /\ j - 1 \in Nat \ {0} /\ k - 1 \in Nat \ {0}
  BY <1>1 DEF Shrunk
<1>3. i < j - 1 /\ j - 1 < k - 1
  BY <1>1, <1>2
<1> QED BY <1>1, <1>2, <1>3 DEF OffOn, IsOff, IsOn

LEMMA FreesShrinks ==
  ASSUME NEW t, NEW a, NEW r, NEW r2, Shrunk(r, r2), Frees(t, r, a)
  PROVE  Frees(t, r2, a)
<1>1. ASSUME NEW i \in DOMAIN r2, IsOff(r2, i), t.session[a] # NoSession
      PROVE  \E j \in DOMAIN r2 : i < j /\ AckOf(r2, t.session[a], j)
  <2>1. i \in Nat \ {0} /\ i + 1 \in DOMAIN r /\ IsOff(r, i + 1)
    BY <1>1 DEF Shrunk, IsOff
  <2>2. PICK j \in DOMAIN r : i + 1 < j /\ AckOf(r, t.session[a], j)
    BY <1>1, <2>1 DEF Frees
  <2>3. j - 1 \in DOMAIN r2 /\ r2[j - 1] = r[j] /\ j \in Nat
    BY <2>1, <2>2 DEF Shrunk
  <2>4. i < j - 1
    BY <2>1, <2>2, <2>3
  <2> QED BY <2>2, <2>3, <2>4 DEF AckOf, IsAck
<1> QED BY <1>1 DEF Frees

LEMMA CarriesShrinks ==
  ASSUME NEW r, NEW r2, Shrunk(r, r2)
  PROVE  /\ \A i : IsAck(r2, i) => IsAck(r, i + 1) /\ r2[i] = r[i + 1] /\ i \in Nat \ {0}
         /\ \A i : IsOff(r2, i) => IsOff(r, i + 1) /\ r2[i] = r[i + 1] /\ i \in Nat \ {0}
         /\ \A i : IsInit(r2, i) => IsInit(r, i + 1) /\ r2[i] = r[i + 1] /\ i \in Nat \ {0}
         /\ \A k, i : AckOf(r, k, i) => i = 1 \/ AckOf(r2, k, i - 1)
BY DEF Shrunk, IsAck, IsOff, IsInit, AckOf

LEMMA TellsShrinks ==
  ASSUME NEW s, NEW t, NEW b, NEW r, NEW r2, Shrunk(r, r2), Tells(s, t, r, b),
         NEW u, u.pending[b] = s.pending[b],
         u.session[b] = NoSession \/ (u.session[b] = s.session[b] /\ r[1].type # "off")
  PROVE  Tells(u, t, r2, b)
<1>1. ASSUME u.session[b] # NoSession, t.enabled, NEW i \in DOMAIN r2, IsOff(r2, i)
      PROVE  SwitchesOn(t) \/ OffOn(r2, 0)
  BY <1>1, OffOnShrinks, CarriesShrinks DEF Tells, IsOff
<1>2. ASSUME NEW i \in DOMAIN r2, NEW j \in DOMAIN r2, IsAck(r2, i), r2[i].n = u.pending[b],
             t.enabled, i < j, IsOff(r2, j)
      PROVE  SwitchesOn(t) \/ OffOn(r2, i)
  <2>1. /\ IsAck(r, i + 1) /\ r[i + 1].n = s.pending[b] /\ IsOff(r, j + 1) /\ i + 1 < j + 1
        /\ i \in Nat
    BY <1>2, CarriesShrinks
  <2>2. SwitchesOn(t) \/ OffOn(r, i + 1)
    BY <1>2, <2>1 DEF Tells, IsAck, IsOff
  <2> QED BY <2>1, <2>2, OffOnShrinks
<1> QED BY <1>1, <1>2 DEF Tells

-----------------------------------------------------------------------------
(***************************************************************************)
(* What the steps of one of the two do to the pair.                        *)
(***************************************************************************)

(* Nothing changes towards the other.                                      *)
LEMMA InviterStays ==
  ASSUME NEW s, NEW t, NEW q, NEW r, NEW a, NEW b, NEW u,
         Link(s, t, q, r, a, b),
         Steady(s, u, b)
  PROVE  /\ Link(u, t, q, r, a, b)
         /\ Agree(s, t, q, r, a, b) => Agree(u, t, q, r, a, b)
<1>1. Ordered(u, q, r, a, b)
  BY DEF Link, Ordered, Going, IsInit, IsAck, Steady
<1>2. Knows(u, t, q, r, a, b)
  BY DEF Link, Knows, Greets, IsOn, Steady
<1>3. ASSUME Agree(s, t, q, r, a, b) PROVE Agree(u, t, q, r, a, b)
  <2>1. Holds1(u, t, r, a, b)
    BY <1>3 DEF Agree, Holds1, IsOff, Steady
  <2>2. Holds2(u, t, q, r, a, b)
    BY <1>3 DEF Agree, Holds2, IsOff, IsAck, AckOf, Steady
  <2>3. Answers(u, t, r, a, b)
    BY <1>3 DEF Agree, Answers, Link, Ordered, IsOff, IsAck, Steady
  <2>4. Waits(u, q, r, b)
    BY <1>3 DEF Agree, Waits, Going, IsInit, IsAck, Steady
  <2>5. Tells(u, t, r, b)
    BY <1>3 DEF Agree, Tells, Link, Ordered, IsOff, IsAck, IsOn, OffOn, Steady
  <2>6. Invites(u, t, q, r, b)
    BY <1>3 DEF Agree, Invites, Going, IsInit, IsAck, IsOn, Steady
  <2> QED BY <1>3, <2>1, <2>2, <2>3, <2>4, <2>5, <2>6 DEF Agree
<1> QED BY <1>1, <1>2, <1>3 DEF Link

LEMMA InvitedStays ==
  ASSUME NEW s, NEW t, NEW q, NEW r, NEW a, NEW b, NEW v,
         Link(s, t, q, r, a, b),
         Steady(t, v, a)
  PROVE  /\ Link(s, v, q, r, a, b)
         /\ Agree(s, t, q, r, a, b) => Agree(s, v, q, r, a, b)
<1>1. Ordered(s, q, r, a, b)
  BY DEF Link, Ordered, Going, IsInit, IsAck, Steady
<1>2. Knows(s, v, q, r, a, b)
  BY DEF Link, Knows, Greets, IsOn, Steady
<1>3. ASSUME Agree(s, t, q, r, a, b) PROVE Agree(s, v, q, r, a, b)
  <2>1. Holds1(s, v, r, a, b)
    BY <1>3 DEF Agree, Holds1, IsOff, Steady
  <2>2. Holds2(s, v, q, r, a, b)
    BY <1>3 DEF Agree, Holds2, IsOff, IsAck, AckOf, Steady
  <2>3. Frees(v, r, a)
    BY <1>3 DEF Agree, Frees, IsOff, AckOf, IsAck, Steady
  <2>4. Answers(s, v, r, a, b)
    BY <1>3 DEF Agree, Answers, IsOff, IsAck, Steady
  <2>5. Asks(v, q, r, a)
    BY <1>3 DEF Agree, Asks, IsInit, IsOff, AckOf, IsAck, Steady
  <2>6. Tells(s, v, r, b)
    BY <1>3 DEF Agree, Tells, IsOff, IsAck, IsOn, OffOn, Steady
  <2>7. Invites(s, v, q, r, b)
    BY <1>3 DEF Agree, Invites, Going, IsInit, IsAck, IsOn, Steady
  <2> QED BY <1>3, <2>1, <2>2, <2>3, <2>4, <2>5, <2>6, <2>7 DEF Agree
<1> QED BY <1>1, <1>2, <1>3 DEF Link

(* A message that is about no session.                                     *)
LEMMA InviterMurmurs ==
  ASSUME NEW s, NEW t, NEW q, NEW r, NEW a, NEW b, NEW q2, NEW m,
         Link(s, t, q, r, a, b),
         Grown(q, q2, m),
         Neutral(m)
  PROVE  /\ Link(s, t, q2, r, a, b)
         /\ Agree(s, t, q, r, a, b) => Agree(s, t, q2, r, a, b)
<1>1. Ordered(s, q2, r, a, b)
  BY DEF Link, Ordered, Going, IsInit, IsAck, Grown, Neutral
<1>2. Knows(s, t, q2, r, a, b)
  BY DEF Link, Knows, Greets, IsOn, Grown, Neutral
<1>3. ASSUME Agree(s, t, q, r, a, b) PROVE Agree(s, t, q2, r, a, b)
  <2>1. Holds2(s, t, q2, r, a, b)
    BY <1>3 DEF Agree, Holds2, IsOff, IsAck, AckOf, Grown, Neutral
  <2>2. Asks(t, q2, r, a)
    BY <1>3 DEF Agree, Asks, IsInit, IsOff, AckOf, IsAck, Grown, Neutral
  <2>3. Waits(s, q2, r, b)
    BY <1>3 DEF Agree, Waits, Going, IsInit, IsAck, Grown, Neutral
  <2>4. Invites(s, t, q2, r, b)
    BY <1>3 DEF Agree, Invites, Going, IsInit, IsAck, IsOn, Grown, Neutral
  <2> QED BY <1>3, <2>1, <2>2, <2>3, <2>4 DEF Agree
<1> QED BY <1>1, <1>2, <1>3 DEF Link

LEMMA InvitedMurmurs ==
  ASSUME NEW s, NEW t, NEW q, NEW r, NEW a, NEW b, NEW r2, NEW m,
         Link(s, t, q, r, a, b),
         Grown(r, r2, m),
         Neutral(m)
  PROVE  /\ Link(s, t, q, r2, a, b)
         /\ Agree(s, t, q, r, a, b) => Agree(s, t, q, r2, a, b)
<1>1. Ordered(s, q, r2, a, b)
  BY DEF Link, Ordered, Going, IsInit, IsAck, Grown, Neutral
<1>2. Knows(s, t, q, r2, a, b)
  BY DEF Link, Knows, Greets, IsOn, Grown, Neutral
<1>3. ASSUME Agree(s, t, q, r, a, b) PROVE Agree(s, t, q, r2, a, b)
  <2>1. Holds1(s, t, r2, a, b)
    BY <1>3 DEF Agree, Holds1, IsOff, Grown, Neutral
  <2>2. Holds2(s, t, q, r2, a, b)
    BY <1>3 DEF Agree, Holds2, IsOff, IsAck, AckOf, Grown, Neutral
  <2>3. Frees(t, r2, a)
    BY <1>3 DEF Agree, Frees, IsOff, AckOf, IsAck, Grown, Neutral
  <2>4. Answers(s, t, r2, a, b)
    BY <1>3 DEF Agree, Answers, IsOff, IsAck, Grown, Neutral
  <2>5. Asks(t, q, r2, a)
    BY <1>3 DEF Agree, Asks, IsInit, IsOff, AckOf, IsAck, Grown, Neutral
  <2>6. Waits(s, q, r2, b)
    BY <1>3 DEF Agree, Waits, Going, IsInit, IsAck, Grown, Neutral
  <2>7. Tells(s, t, r2, b)
    BY <1>3 DEF Agree, Tells, IsOff, IsAck, IsOn, OffOn, Grown, Neutral
  <2>8. Invites(s, t, q, r2, b)
    BY <1>3 DEF Agree, Invites, Going, IsInit, IsAck, IsOn, Grown, Neutral
  <2> QED BY <1>3, <2>1, <2>2, <2>3, <2>4, <2>5, <2>6, <2>7, <2>8 DEF Agree
<1> QED BY <1>1, <1>2, <1>3 DEF Link

(* Such a message arrives.                                                 *)
LEMMA InviterHears ==
  ASSUME NEW s, NEW t, NEW q, NEW r, NEW a, NEW b, NEW u, NEW r2,
         Link(s, t, q, r, a, b),
         Shrunk(r, r2),
         Neutral(r[1]),
         u.session[b] = s.session[b],
         u.inits[b] = s.inits[b],
         u.pending[b] = s.pending[b],
         u.enabled = s.enabled,
         Undone(u) <=> Undone(s),
         Undone(s) => ~s.enabled,
         b \in s.known => b \in u.known,
         r[1].type = "joined" => b \in u.known,
         b \in s.asked => b \in u.asked,
         b \in u.asked => b \in s.asked \/ s.enabled,
         r[1].type = "on" /\ s.enabled => b \in u.asked
  PROVE  /\ Link(u, t, q, r2, a, b)
         /\ Agree(s, t, q, r, a, b) => Agree(u, t, q, r2, a, b)
<1>1. Ordered(u, q, r2, a, b)
  BY DEF Link, Ordered, Going, IsInit, IsAck, Shrunk, Neutral
<1>2. Knows(u, t, q, r2, a, b)
  BY DEF Link, Knows, Greets, IsOn, Shrunk, Neutral
<1>3. ASSUME Agree(s, t, q, r, a, b) PROVE Agree(u, t, q, r2, a, b)
  <2>1. Holds1(u, t, r2, a, b)
    BY <1>3 DEF Agree, Holds1, IsOff, Shrunk, Neutral
  <2>2. Holds2(u, t, q, r2, a, b)
    BY <1>3, CarriesShrinks DEF Agree, Holds2, AckOf, IsAck, Neutral
  <2>3. Frees(t, r2, a)
    BY <1>3, FreesShrinks DEF Agree
  <2>4. Answers(u, t, r2, a, b)
    BY <1>3 DEF Agree, Answers, IsOff, IsAck, Shrunk, Neutral
  <2>5. Asks(t, q, r2, a)
    BY <1>3 DEF Agree, Asks, IsInit, IsOff, AckOf, IsAck, Shrunk, Neutral
  <2>6. Waits(u, q, r2, b)
    BY <1>3 DEF Agree, Waits, Going, IsInit, IsAck, Shrunk, Neutral
  <2>7. Tells(u, t, r2, b)
    BY <1>3, TellsShrinks DEF Agree, Neutral
  <2>8. Invites(u, t, q, r2, b)
    BY <1>3 DEF Agree, Invites, Going, IsInit, IsAck, IsOn, Shrunk, Neutral
  <2> QED BY <1>3, <2>1, <2>2, <2>3, <2>4, <2>5, <2>6, <2>7, <2>8 DEF Agree
<1> QED BY <1>1, <1>2, <1>3 DEF Link

LEMMA InvitedHears ==
  ASSUME NEW s, NEW t, NEW q, NEW r, NEW a, NEW b, NEW v, NEW q2,
         Link(s, t, q, r, a, b),
         Shrunk(q, q2),
         Neutral(q[1]),
         v.session[a] = t.session[a],
         v.enabled = t.enabled,
         Undone(v) <=> Undone(t),
         SwitchesOn(v) <=> SwitchesOn(t),
         SwitchesOff(v) <=> SwitchesOff(t),
         a \in t.known => a \in v.known,
         q[1].type = "joined" => a \in v.known
  PROVE  /\ Link(s, v, q2, r, a, b)
         /\ Agree(s, t, q, r, a, b) => Agree(s, v, q2, r, a, b)
<1>1. Ordered(s, q2, r, a, b)
  BY DEF Link, Ordered, Going, IsInit, IsAck, Shrunk, Neutral
<1>2. Knows(s, v, q2, r, a, b)
  BY DEF Link, Knows, Greets, IsOn, Shrunk, Neutral
<1>3. ASSUME Agree(s, t, q, r, a, b) PROVE Agree(s, v, q2, r, a, b)
  <2>1. Holds1(s, v, r, a, b)
    BY <1>3 DEF Agree, Holds1, IsOff, Shrunk, Neutral
  <2>2. Holds2(s, v, q2, r, a, b)
    BY <1>3 DEF Agree, Holds2, IsOff, IsAck, AckOf, Shrunk, Neutral
  <2>3. Frees(v, r, a)
    BY <1>3 DEF Agree, Frees, IsOff, AckOf, IsAck, Shrunk, Neutral
  <2>4. Answers(s, v, r, a, b)
    BY <1>3 DEF Agree, Answers
  <2>5. Asks(v, q2, r, a)
    BY <1>3 DEF Agree, Asks, IsInit, IsOff, AckOf, IsAck, Shrunk, Neutral
  <2>6. Waits(s, q2, r, b)
    BY <1>3 DEF Agree, Waits, Going, IsInit, IsAck, Shrunk, Neutral
  <2>7. Tells(s, v, r, b)
    BY <1>3 DEF Agree, Tells, IsOff, IsAck, IsOn, OffOn, Shrunk, Neutral
  <2>8. Invites(s, v, q2, r, b)
    BY <1>3 DEF Agree, Invites, Going, IsInit, IsAck, IsOn, Shrunk, Neutral
  <2> QED BY <1>3, <2>1, <2>2, <2>3, <2>4, <2>5, <2>6, <2>7, <2>8 DEF Agree
<1> QED BY <1>1, <1>2, <1>3 DEF Link

(* The other has switched off; whose sessions differ will not mind.        *)
LEMMA InviterHearsOff ==
  ASSUME NEW s, NEW t, NEW q, NEW r, NEW a, NEW b, NEW u, NEW r2,
         Link(s, t, q, r, a, b),
         Shrunk(r, r2),
         r[1].type = "off",
         u.session[b] = IF s.enabled THEN NoSession ELSE s.session[b],
         u.inits[b] = s.inits[b],
         u.pending[b] = s.pending[b],
         u.enabled = s.enabled,
         Undone(u) <=> Undone(s),
         b \in u.known <=> b \in s.known,
         b \in u.asked <=> b \in s.asked,
         s.session[b] # NoSession => s.enabled /\ t.session[a] # s.session[b]
  PROVE  /\ Link(u, t, q, r2, a, b)
         /\ Agree(s, t, q, r, a, b) => Agree(u, t, q, r2, a, b)
<1>1. Ordered(u, q, r2, a, b)
  BY DEF Link, Ordered, Going, IsInit, IsAck, Shrunk
<1>2. Knows(u, t, q, r2, a, b)
  BY DEF Link, Knows, Greets, IsOn, Shrunk
<1>3. ASSUME Agree(s, t, q, r, a, b) PROVE Agree(u, t, q, r2, a, b)
  <2>1. Holds1(u, t, r2, a, b)
    BY <1>3 DEF Agree, Holds1, IsOff, Shrunk
  <2>2. Holds2(u, t, q, r2, a, b)
    <3>1. ASSUME u.session[b] = NoSession, t.session[a] # NoSession
          PROVE  \/ \E i \in DOMAIN r2 : AckOf(r2, t.session[a], i)
                 \/ \E i \in DOMAIN q : IsOff(q, i)
                 \/ Undone(u) /\ b \notin u.asked
      <4>1. PICK j \in DOMAIN r : 1 < j /\ AckOf(r, t.session[a], j)
        BY <1>3, <3>1 DEF Agree, Frees, Shrunk, IsOff
      <4> QED BY <4>1, CarriesShrinks DEF AckOf, IsAck
    <3> QED BY <3>1 DEF Holds2
  <2>3. Frees(t, r2, a)
    BY <1>3, FreesShrinks DEF Agree
  <2>4. Answers(u, t, r2, a, b)
    BY <1>3 DEF Agree, Answers, Link, Ordered, IsOff, IsAck, Shrunk
  <2>5. Asks(t, q, r2, a)
    BY <1>3 DEF Agree, Asks, IsInit, IsOff, AckOf, IsAck, Shrunk
  <2>6. Waits(u, q, r2, b)
    BY <1>3 DEF Agree, Waits, Going, IsInit, IsAck, Shrunk
  <2>7. Tells(u, t, r2, b)
    BY <1>3, TellsShrinks DEF Agree
  <2>8. Invites(u, t, q, r2, b)
    BY <1>3 DEF Agree, Invites, Tells, OffOn, IsOff, Going, IsInit, IsAck, IsOn, Shrunk
  <2> QED BY <1>3, <2>1, <2>2, <2>3, <2>4, <2>5, <2>6, <2>7, <2>8 DEF Agree
<1> QED BY <1>1, <1>2, <1>3 DEF Link

LEMMA InvitedHearsOff ==
  ASSUME NEW s, NEW t, NEW q, NEW r, NEW a, NEW b, NEW v, NEW q2,
         Link(s, t, q, r, a, b),
         Shrunk(q, q2),
         q[1].type = "off",
         v.session[a] = IF t.enabled THEN NoSession ELSE t.session[a],
         v.enabled = t.enabled,
         Undone(v) <=> Undone(t),
         SwitchesOn(v) <=> SwitchesOn(t),
         SwitchesOff(v) <=> SwitchesOff(t),
         a \in v.known <=> a \in t.known,
         t.session[a] # NoSession => t.enabled /\ s.session[b] # t.session[a],
         \A n \in Nat : t.session[a] = <<a, b, n>> => s.pending[b] # n
  PROVE  /\ Link(s, v, q2, r, a, b)
         /\ Agree(s, t, q, r, a, b) => Agree(s, v, q2, r, a, b)
<1>1. Ordered(s, q2, r, a, b)
  BY DEF Link, Ordered, Going, IsInit, IsAck, Shrunk
<1>2. Knows(s, v, q2, r, a, b)
  BY DEF Link, Knows, Greets, IsOn, Shrunk
<1>3. ASSUME Agree(s, t, q, r, a, b) PROVE Agree(s, v, q2, r, a, b)
  <2>1. Holds1(s, v, r, a, b)
    BY <1>3 DEF Agree, Holds1, Link, Ordered, IsOff, Shrunk
  <2>2. Holds2(s, v, q2, r, a, b)
    BY <1>3 DEF Agree, Holds2, IsOff, IsAck, AckOf, Shrunk
  <2>3. Frees(v, r, a)
    BY <1>3 DEF Agree, Frees, IsOff, AckOf, IsAck, Shrunk
  <2>4. Answers(s, v, r, a, b)
    BY <1>3 DEF Agree, Answers, Link, Ordered, IsOff, IsAck, Shrunk
  <2>5. Asks(v, q2, r, a)
    BY <1>3 DEF Agree, Asks, IsInit, IsOff, AckOf, IsAck, Shrunk
  <2>6. Waits(s, q2, r, b)
    BY <1>3 DEF Agree, Waits, Going, IsInit, IsAck, Shrunk
  <2>7. Tells(s, v, r, b)
    BY <1>3 DEF Agree, Tells, IsOff, IsAck, IsOn, OffOn, Shrunk
  <2>8. Invites(s, v, q2, r, b)
    BY <1>3 DEF Agree, Invites, Going, IsInit, IsAck, IsOn, Shrunk
  <2> QED BY <1>3, <2>1, <2>2, <2>3, <2>4, <2>5, <2>6, <2>7, <2>8 DEF Agree
<1> QED BY <1>1, <1>2, <1>3 DEF Link

(* The answer to the invitation that is pending.                           *)
LEMMA InviterOpens ==
  ASSUME NEW s, NEW t, NEW q, NEW r, NEW a, NEW b, NEW u, NEW r2,
         Link(s, t, q, r, a, b),
         Shrunk(r, r2),
         r[1].type = "session-ack",
         s.session[b] = NoSession,
         r[1].n = s.pending[b],
         u.session[b] = r[1].session,
         u.inits[b] = s.inits[b],
         u.pending[b] = 0,
         u.enabled = s.enabled,
         Undone(u) <=> Undone(s),
         b \in u.known <=> b \in s.known,
         b \in u.asked <=> b \in s.asked
  PROVE  /\ Link(u, t, q, r2, a, b)
         /\ Agree(s, t, q, r, a, b) => Agree(u, t, q, r2, a, b)
<1>1. Ordered(u, q, r2, a, b)
  BY DEF Link, Ordered, Going, IsInit, IsAck, Shrunk
<1>2. Knows(u, t, q, r2, a, b)
  BY DEF Link, Knows, Greets, IsOn, Shrunk
<1>3. ASSUME Agree(s, t, q, r, a, b) PROVE Agree(u, t, q, r2, a, b)
  <2>1. Holds1(u, t, r2, a, b)
    <3>1. \/ t.session[a] = u.session[b] \/ Undone(t)
          \/ \E j \in DOMAIN r : 1 < j /\ IsOff(r, j)
      BY <1>3 DEF Agree, Answers, IsAck, Shrunk
    <3>2. \A j \in DOMAIN r : 1 < j /\ IsOff(r, j) => IsOff(r2, j - 1) /\ j - 1 \in DOMAIN r2
      BY DEF Shrunk, IsOff
    <3> QED BY <3>1, <3>2 DEF Holds1
  <2>2. Holds2(u, t, q, r2, a, b)
    BY <1>3 DEF Agree, Holds2, Link, Ordered, IsOff, IsAck, AckOf, Shrunk
  <2>3. Frees(t, r2, a)
    BY <1>3, FreesShrinks DEF Agree
  <2>4. Answers(u, t, r2, a, b)
    BY <1>3 DEF Agree, Answers, Link, Ordered, IsOff, IsAck, Shrunk
  <2>5. Asks(t, q, r2, a)
    BY <1>3 DEF Agree, Asks, Link, Ordered, IsInit, IsOff, AckOf, IsAck, Shrunk
  <2>6. Waits(u, q, r2, b)
    BY <1>3 DEF Agree, Waits, Going, IsInit, IsAck, Shrunk
  <2>7. Tells(u, t, r2, b)
    <3>1. ASSUME t.enabled, NEW i \in DOMAIN r2, IsOff(r2, i)
          PROVE  SwitchesOn(t) \/ OffOn(r2, 0)
      <4>1. IsOff(r, i + 1) /\ i + 1 \in DOMAIN r /\ 1 < i + 1 /\ IsAck(r, 1) /\ 1 \in DOMAIN r
        BY <3>1, CarriesShrinks DEF IsOff, IsAck, Shrunk
      <4>2. SwitchesOn(t) \/ OffOn(r, 0 + 1)
        BY <1>3, <3>1, <4>1 DEF Agree, Tells
      <4> QED BY <4>2, OffOnShrinks
    <3>2. \A i \in DOMAIN r2 : IsAck(r2, i) => r2[i].n # 0
      BY CarriesShrinks DEF Link, Ordered, IsAck
    <3> QED BY <3>1, <3>2 DEF Tells
  <2>8. Invites(u, t, q, r2, b)
    BY <1>3 DEF Agree, Invites, Link, Ordered, Going, IsInit, IsAck, IsOn, Shrunk
  <2> QED BY <1>3, <2>1, <2>2, <2>3, <2>4, <2>5, <2>6, <2>7, <2>8 DEF Agree
<1> QED BY <1>1, <1>2, <1>3 DEF Link

(* An answer nobody waits for.                                             *)
LEMMA InviterIsLate ==
  ASSUME NEW s, NEW t, NEW q, NEW r, NEW a, NEW b, NEW r2,
         Link(s, t, q, r, a, b),
         Shrunk(r, r2),
         r[1].type \in {"session-ack", "off"}
  PROVE  Link(s, t, q, r2, a, b)
<1>1. Ordered(s, q, r2, a, b)
  BY DEF Link, Ordered, Going, IsInit, IsAck, Shrunk
<1>2. Knows(s, t, q, r2, a, b)
  BY DEF Link, Knows, Greets, IsOn, Shrunk
<1> QED BY <1>1, <1>2 DEF Link

(* An invitation, by one who has not just freed its sessions.              *)
LEMMA InviterInvites ==
  ASSUME NEW s, NEW t, NEW q, NEW r, NEW a, NEW b, NEW u, NEW q2, NEW m,
         Link(s, t, q, r, a, b),
         Grown(q, q2, m),
         m.type = "session-init",
         m.n = s.inits[b] + 1,
         s.session[b] = NoSession,
         s.pending[b] = 0,
         u.session[b] = NoSession,
         u.inits[b] = s.inits[b] + 1,
         u.pending[b] = s.inits[b] + 1,
         b \in u.known <=> b \in s.known,
         ~Undone(s) \/ b \in s.asked
  PROVE  /\ Link(u, t, q2, r, a, b)
         /\ Agree(s, t, q, r, a, b) => Agree(u, t, q2, r, a, b)
<1>1. Ordered(u, q2, r, a, b)
  BY DEF Link, Ordered, Going, IsInit, IsAck, Grown
<1>2. Knows(u, t, q2, r, a, b)
  BY DEF Link, Knows, Greets, IsOn, Grown
<1>3. ASSUME Agree(s, t, q, r, a, b) PROVE Agree(u, t, q2, r, a, b)
  <2>1. Holds1(u, t, r, a, b)
    BY <1>3 DEF Agree, Holds1, IsOff, Grown
  <2>2. Holds2(u, t, q2, r, a, b)
    BY <1>3 DEF Agree, Holds2, IsOff, IsAck, AckOf, Grown
  <2>3. Answers(u, t, r, a, b)
    BY <1>3 DEF Agree, Answers, Link, Ordered, IsOff, IsAck, Grown
  <2>4. Asks(t, q2, r, a)
    BY <1>3 DEF Agree, Asks, Holds2, IsInit, IsOff, AckOf, IsAck, Grown
  <2>5. Waits(u, q2, r, b)
    BY <1>3 DEF Agree, Waits, Going, IsInit, IsAck, Grown
  <2>6. Tells(u, t, r, b)
    BY <1>3 DEF Agree, Tells, Link, Ordered, IsOff, IsAck, IsOn, OffOn, Grown
  <2>7. Invites(u, t, q2, r, b)
    BY <1>3 DEF Agree, Invites, Going, IsInit, IsAck, IsOn, Grown
  <2> QED BY <1>3, <2>1, <2>2, <2>3, <2>4, <2>5, <2>6, <2>7 DEF Agree
<1> QED BY <1>1, <1>2, <1>3 DEF Link

(* Nobody is to be invited: there is a session, or an invitation, or the   *)
(* other is not known yet.                                                 *)
LEMMA InviterNeedNot ==
  ASSUME NEW s, NEW t, NEW q, NEW r, NEW a, NEW b, NEW u,
         Link(s, t, q, r, a, b),
         s.session[b] # NoSession \/ s.pending[b] # 0 \/ b \notin s.known,
         u.session[b] = s.session[b],
         u.inits[b] = s.inits[b],
         u.pending[b] = s.pending[b],
         b \in u.known <=> b \in s.known,
         b \in u.asked => b \in s.asked,
         Undone(s) => Undone(u)
  PROVE  /\ Link(u, t, q, r, a, b)
         /\ Agree(s, t, q, r, a, b) => Agree(u, t, q, r, a, b)
<1>1. Ordered(u, q, r, a, b)
  BY DEF Link, Ordered, Going, IsInit, IsAck
<1>2. Knows(u, t, q, r, a, b)
  BY DEF Link, Knows, Greets, IsOn
<1>3. ASSUME Agree(s, t, q, r, a, b) PROVE Agree(u, t, q, r, a, b)
  <2>1. Holds1(u, t, r, a, b)
    BY <1>3 DEF Agree, Holds1, IsOff
  <2>2. Holds2(u, t, q, r, a, b)
    BY <1>3 DEF Agree, Holds2, IsOff, IsAck, AckOf
  <2>3. Answers(u, t, r, a, b)
    BY <1>3 DEF Agree, Answers, IsOff, IsAck
  <2>4. Waits(u, q, r, b)
    BY <1>3 DEF Agree, Waits, Going, IsInit, IsAck
  <2>5. Tells(u, t, r, b)
    BY <1>3 DEF Agree, Tells, IsOff, IsAck, IsOn, OffOn
  <2>6. Invites(u, t, q, r, b)
    BY <1>3 DEF Agree, Invites, Link, Knows, Greets, Waits, Going, IsInit, IsAck, IsOn
  <2> QED BY <1>3, <2>1, <2>2, <2>3, <2>4, <2>5, <2>6 DEF Agree
<1> QED BY <1>1, <1>2, <1>3 DEF Link

(* The inviter switches off.                                               *)
LEMMA InviterFrees ==
  ASSUME NEW s, NEW t, NEW q, NEW r, NEW a, NEW b, NEW u,
         Link(s, t, q, r, a, b),
         u.session[b] = NoSession,
         u.inits[b] = s.inits[b],
         u.pending[b] = s.pending[b],
         b \in u.known <=> b \in s.known,
         b \in u.asked <=> b \in s.asked,
         s.session[b] # NoSession => b \notin s.asked,
         Undone(u),
         ~u.enabled
  PROVE  /\ Link(u, t, q, r, a, b)
         /\ Agree(s, t, q, r, a, b) => Agree(u, t, q, r, a, b)
<1>1. Ordered(u, q, r, a, b)
  BY DEF Link, Ordered, Going, IsInit, IsAck
<1>2. Knows(u, t, q, r, a, b)
  BY DEF Link, Knows, Greets, IsOn
<1>3. ASSUME Agree(s, t, q, r, a, b) PROVE Agree(u, t, q, r, a, b)
  <2>1. Holds1(u, t, r, a, b)
    BY <1>3 DEF Agree, Holds1, IsOff
  <2>2. Holds2(u, t, q, r, a, b)
    BY <1>3 DEF Agree, Holds2, IsOff, IsAck, AckOf
  <2>3. Answers(u, t, r, a, b)
    BY <1>3 DEF Agree, Answers, IsOff, IsAck
  <2>4. Waits(u, q, r, b)
    BY <1>3 DEF Agree, Waits, Going, IsInit, IsAck
  <2>5. Tells(u, t, r, b)
    BY <1>3 DEF Agree, Tells, IsOff, IsAck, IsOn, OffOn
  <2>6. Invites(u, t, q, r, b)
    BY <1>3 DEF Agree, Invites, Going, IsInit, IsAck, IsOn
  <2> QED BY <1>3, <2>1, <2>2, <2>3, <2>4, <2>5, <2>6 DEF Agree
<1> QED BY <1>1, <1>2, <1>3 DEF Link

(* The inviter says so.                                                    *)
LEMMA InviterSaysOff ==
  ASSUME NEW s, NEW t, NEW q, NEW r, NEW a, NEW b, NEW u, NEW q2, NEW m,
         Link(s, t, q, r, a, b),
         Grown(q, q2, m),
         m.type = "off",
         u.session[b] = s.session[b],
         u.inits[b] = s.inits[b],
         u.pending[b] = s.pending[b],
         b \in u.known <=> b \in s.known,
         u.enabled = s.enabled,
         b \in u.asked <=> b \in s.asked
  PROVE  /\ Link(u, t, q2, r, a, b)
         /\ Agree(s, t, q, r, a, b) => Agree(u, t, q2, r, a, b)
<1>1. Ordered(u, q2, r, a, b)
  BY DEF Link, Ordered, Going, IsInit, IsAck, Grown
<1>2. Knows(u, t, q2, r, a, b)
  BY DEF Link, Knows, Greets, IsOn, Grown
<1>3. ASSUME Agree(s, t, q, r, a, b) PROVE Agree(u, t, q2, r, a, b)
  <2>1. Holds1(u, t, r, a, b)
    BY <1>3 DEF Agree, Holds1, IsOff, Grown
  <2>2. Holds2(u, t, q2, r, a, b)
    BY <1>3 DEF Agree, Holds2, IsOff, IsAck, AckOf, Grown
  <2>3. Answers(u, t, r, a, b)
    BY <1>3 DEF Agree, Answers, IsOff, IsAck, Grown
  <2>4. Asks(t, q2, r, a)
    BY <1>3 DEF Agree, Asks, IsInit, IsOff, AckOf, IsAck, Grown
  <2>5. Waits(u, q2, r, b)
    BY <1>3 DEF Agree, Waits, Going, IsInit, IsAck, Grown
  <2>6. Tells(u, t, r, b)
    BY <1>3 DEF Agree, Tells, IsOff, IsAck, IsOn, OffOn, Grown
  <2>7. Invites(u, t, q2, r, b)
    BY <1>3 DEF Agree, Invites, Going, IsInit, IsAck, IsOn, Grown
  <2> QED BY <1>3, <2>1, <2>2, <2>3, <2>4, <2>5, <2>6, <2>7 DEF Agree
<1> QED BY <1>1, <1>2, <1>3 DEF Link

LEMMA InviterSaysOn ==
  ASSUME NEW s, NEW t, NEW q, NEW r, NEW a, NEW b, NEW u, NEW q2, NEW m,
         Link(s, t, q, r, a, b),
         Grown(q, q2, m),
         m.type = "on",
         u.session[b] = s.session[b],
         u.inits[b] = s.inits[b],
         u.pending[b] = s.pending[b],
         b \in u.known <=> b \in s.known,
         u.enabled = s.enabled,
         b \in u.asked <=> b \in s.asked,
         Undone(u) <=> Undone(s)
  PROVE  /\ Link(u, t, q2, r, a, b)
         /\ Agree(s, t, q, r, a, b) => Agree(u, t, q2, r, a, b)
<1>1. Ordered(u, q2, r, a, b)
  BY DEF Link, Ordered, Going, IsInit, IsAck, Grown
<1>2. Knows(u, t, q2, r, a, b)
  BY DEF Link, Knows, Greets, IsOn, Grown
<1>3. ASSUME Agree(s, t, q, r, a, b) PROVE Agree(u, t, q2, r, a, b)
  <2>1. Holds1(u, t, r, a, b)
    BY <1>3 DEF Agree, Holds1, IsOff, Grown
  <2>2. Holds2(u, t, q2, r, a, b)
    BY <1>3 DEF Agree, Holds2, IsOff, IsAck, AckOf, Grown
  <2>3. Answers(u, t, r, a, b)
    BY <1>3 DEF Agree, Answers, IsOff, IsAck, Grown
  <2>4. Asks(t, q2, r, a)
    BY <1>3 DEF Agree, Asks, IsInit, IsOff, AckOf, IsAck, Grown
  <2>5. Waits(u, q2, r, b)
    BY <1>3 DEF Agree, Waits, Going, IsInit, IsAck, Grown
  <2>6. Tells(u, t, r, b)
    BY <1>3 DEF Agree, Tells, IsOff, IsAck, IsOn, OffOn, Grown
  <2>7. Invites(u, t, q2, r, b)
    BY <1>3 DEF Agree, Invites, Going, IsInit, IsAck, IsOn, Grown
  <2> QED BY <1>3, <2>1, <2>2, <2>3, <2>4, <2>5, <2>6, <2>7 DEF Agree
<1> QED BY <1>1, <1>2, <1>3 DEF Link

(* An invitation of one who has a session: its answer is under way.        *)
LEMMA InvitedIgnores ==
  ASSUME NEW s, NEW t, NEW q, NEW r, NEW a, NEW b, NEW q2,
         Link(s, t, q, r, a, b),
         Shrunk(q, q2),
         q[1].type = "session-init",
         t.session[a] # NoSession
  PROVE  /\ Link(s, t, q2, r, a, b)
         /\ Agree(s, t, q, r, a, b) => Agree(s, t, q2, r, a, b)
<1>1. Ordered(s, q2, r, a, b)
  BY DEF Link, Ordered, Going, IsInit, IsAck, Shrunk
<1>2. Knows(s, t, q2, r, a, b)
  BY DEF Link, Knows, Greets, IsOn, Shrunk
<1>3. ASSUME Agree(s, t, q, r, a, b) PROVE Agree(s, t, q2, r, a, b)
  <2>1. Holds2(s, t, q2, r, a, b)
    BY <1>3 DEF Agree, Holds2, IsOff, IsAck, AckOf, Shrunk
  <2>2. Asks(t, q2, r, a)
    BY <1>3 DEF Agree, Asks, IsInit, IsOff, AckOf, IsAck, Shrunk
  <2>3. Waits(s, q2, r, b)
    BY <1>3 DEF Agree, Waits, Asks, AckOf, Going, IsInit, IsAck, Shrunk
  <2>4. Invites(s, t, q2, r, b)
    BY <1>3 DEF Agree, Invites, Asks, AckOf, Going, IsInit, IsAck, IsOn, Shrunk
  <2> QED BY <1>3, <2>1, <2>2, <2>3, <2>4 DEF Agree
<1> QED BY <1>1, <1>2, <1>3 DEF Link

(* An invitation is accepted.                                              *)
LEMMA InvitedAccepts ==
  ASSUME NEW s, NEW t, NEW q, NEW r, NEW a, NEW b, NEW v, NEW q2, NEW r2, NEW m,
         Link(s, t, q, r, a, b),
         Shrunk(q, q2),
         q[1].type = "session-init",
         t.session[a] = NoSession,
         v.session[a] = <<a, b, q[1].n>>,
         v.session[a] # NoSession,
         Grown(r, r2, m),
         m.type = "session-ack",
         m.n = q[1].n,
         m.session = v.session[a],
         v.enabled = t.enabled,
         Undone(v) <=> Undone(t),
         SwitchesOn(v) <=> SwitchesOn(t),
         ~SwitchesOff(v),
         a \in v.known <=> a \in t.known
  PROVE  /\ Link(s, v, q2, r2, a, b)
         /\ Agree(s, t, q, r, a, b) => Agree(s, v, q2, r2, a, b)
<1>1. Ordered(s, q2, r2, a, b)
  <2>1. PICK n \in Nat \ {0} : /\ DOMAIN r2 = DOMAIN r \cup {n} /\ r2[n] = m
                              /\ \A i \in DOMAIN r : i \in 1..(n - 1) /\ r2[i] = r[i]
    BY DEF Grown
  <2>2. \A i : IsAck(r2, i) => i = n \/ (IsAck(r, i) /\ i < n /\ r2[i] = r[i])
    BY <2>1 DEF IsAck
  <2>3. \A i : IsInit(q2, i) => IsInit(q, i + 1) /\ q2[i] = q[i + 1] /\ 1 < i + 1 /\ i \in Nat
    BY CarriesShrinks
  <2>4. IsInit(q, 1) /\ 1 \in DOMAIN q
    BY DEF IsInit, Shrunk
  <2>5. \A i, j : i < j /\ IsInit(q2, i) /\ IsInit(q2, j) => q2[i].n < q2[j].n
    BY <2>3 DEF Link, Ordered, IsInit
  <2>6. \A i, j : i < j /\ IsAck(r2, i) /\ IsAck(r2, j) => r2[i].n < r2[j].n
    BY <2>1, <2>2, <2>4 DEF Link, Ordered, IsAck, IsInit
  <2>7. \A i, j : IsAck(r2, i) /\ IsInit(q2, j) => r2[i].n < q2[j].n
    BY <2>1, <2>2, <2>3, <2>4 DEF Link, Ordered, IsAck, IsInit
  <2>8. \A i : IsAck(r2, i) =>
          /\ r2[i].n \in 1..s.inits[b] /\ r2[i].session = <<a, b, r2[i].n>>
          /\ r2[i].session # NoSession
    BY <2>1, <2>2, <2>4 DEF Link, Ordered, IsAck, IsInit
  <2>9. s.session[b] # NoSession => ~Going(q2, r2)
    BY <2>4 DEF Link, Ordered, Going
  <2>10. \A i \in DOMAIN q2 : IsInit(q2, i) => q2[i].n \in 1..s.inits[b]
    BY <2>3 DEF Link, Ordered, IsInit
  <2>11. s.inits[b] \in Nat /\ s.pending[b] \in {0, s.inits[b]}
    BY DEF Link, Ordered
  <2> QED BY <2>5, <2>6, <2>7, <2>8, <2>9, <2>10, <2>11 DEF Ordered
<1>2. Knows(s, v, q2, r2, a, b)
  BY DEF Link, Knows, Greets, IsOn, Shrunk, Grown
<1>3. ASSUME Agree(s, t, q, r, a, b) PROVE Agree(s, v, q2, r2, a, b)
  <2>1. Holds1(s, v, r2, a, b)
    BY <1>3 DEF Agree, Holds1, Link, Ordered, IsOff, Shrunk, Grown
  <2>2. Holds2(s, v, q2, r2, a, b)
    BY <1>3 DEF Agree, Holds2, Link, Ordered, IsOff, IsAck, AckOf, Shrunk, Grown
  <2>3. Frees(v, r2, a)
    <3>1. PICK n \in DOMAIN r2 : AckOf(r2, v.session[a], n) /\ \A i \in DOMAIN r2 : i = n \/ i < n
      BY DEF Grown, AckOf, IsAck
    <3>2. \A i \in DOMAIN r2 : IsOff(r2, i) => i < n
      BY <3>1 DEF AckOf, IsAck, IsOff
    <3> QED BY <3>1, <3>2 DEF Frees
  <2>4. Answers(s, v, r2, a, b)
    BY <1>3 DEF Agree, Answers, Link, Ordered, IsOff, IsAck, Shrunk, Grown
  <2>5. Asks(v, q2, r2, a)
    BY <1>3 DEF Agree, Asks, IsInit, IsOff, AckOf, IsAck, Shrunk, Grown
  <2>6. Waits(s, q2, r2, b)
    BY <1>3 DEF Agree, Waits, Going, IsInit, IsAck, Shrunk, Grown
  <2>7. Tells(s, v, r2, b)
    BY <1>3 DEF Agree, Tells, Link, Ordered, IsOff, IsAck, IsOn, OffOn, Shrunk, Grown
  <2>8. Invites(s, v, q2, r2, b)
    BY <1>3 DEF Agree, Invites, Going, IsInit, IsAck, IsOn, Shrunk, Grown
  <2> QED BY <1>3, <2>1, <2>2, <2>3, <2>4, <2>5, <2>6, <2>7, <2>8 DEF Agree
<1> QED BY <1>1, <1>2, <1>3 DEF Link

(* The invited switches on.                                                *)
LEMMA InvitedTurnsOn ==
  ASSUME NEW s, NEW t, NEW q, NEW r, NEW a, NEW b, NEW v,
         Link(s, t, q, r, a, b),
         v.session[a] = t.session[a],
         a \in v.known <=> a \in t.known,
         ~Undone(t),
         SwitchesOn(v),
         SwitchesOff(v) <=> SwitchesOff(t)
  PROVE  /\ Link(s, v, q, r, a, b)
         /\ Agree(s, t, q, r, a, b) => Agree(s, v, q, r, a, b)
<1>1. Ordered(s, q, r, a, b)
  BY DEF Link, Ordered, Going, IsInit, IsAck
<1>2. Knows(s, v, q, r, a, b)
  BY DEF Link, Knows, Greets, IsOn
<1>3. ASSUME Agree(s, t, q, r, a, b) PROVE Agree(s, v, q, r, a, b)
  <2>1. Holds1(s, v, r, a, b)
    BY <1>3 DEF Agree, Holds1, IsOff
  <2>2. Holds2(s, v, q, r, a, b)
    BY <1>3 DEF Agree, Holds2, IsOff, IsAck, AckOf
  <2>3. Frees(v, r, a)
    BY <1>3 DEF Agree, Frees, IsOff, AckOf, IsAck
  <2>4. Answers(s, v, r, a, b)
    BY <1>3 DEF Agree, Answers, IsOff, IsAck
  <2>5. Asks(v, q, r, a)
    BY <1>3 DEF Agree, Asks, IsInit, IsOff, AckOf, IsAck
  <2>6. Tells(s, v, r, b)
    BY <1>3 DEF Agree, Tells, IsOff, IsAck, IsOn, OffOn
  <2>7. Invites(s, v, q, r, b)
    BY <1>3 DEF Agree, Invites, Going, IsInit, IsAck, IsOn
  <2> QED BY <1>3, <2>1, <2>2, <2>3, <2>4, <2>5, <2>6, <2>7 DEF Agree
<1> QED BY <1>1, <1>2, <1>3 DEF Link

(* The invited says so.                                                    *)
LEMMA InvitedSaysOn ==
  ASSUME NEW s, NEW t, NEW q, NEW r, NEW a, NEW b, NEW v, NEW r2, NEW m,
         Link(s, t, q, r, a, b),
         Grown(r, r2, m),
         m.type = "on",
         v.session[a] = t.session[a],
         a \in v.known <=> a \in t.known,
         v.enabled = t.enabled,
         Undone(v) <=> Undone(t),
         SwitchesOff(v) => SwitchesOff(t)
  PROVE  /\ Link(s, v, q, r2, a, b)
         /\ Agree(s, t, q, r, a, b) => Agree(s, v, q, r2, a, b)
<1>1. Ordered(s, q, r2, a, b)
  BY DEF Link, Ordered, Going, IsInit, IsAck, Grown
<1>2. Knows(s, v, q, r2, a, b)
  BY DEF Link, Knows, Greets, IsOn, Grown
<1>3. ASSUME Agree(s, t, q, r, a, b) PROVE Agree(s, v, q, r2, a, b)
  <2>1. Holds1(s, v, r2, a, b)
    BY <1>3 DEF Agree, Holds1, IsOff, Grown
  <2>2. Holds2(s, v, q, r2, a, b)
    BY <1>3 DEF Agree, Holds2, IsOff, IsAck, AckOf, Grown
  <2>3. Frees(v, r2, a)
    BY <1>3 DEF Agree, Frees, IsOff, AckOf, IsAck, Grown
  <2>4. Answers(s, v, r2, a, b)
    BY <1>3 DEF Agree, Answers, IsOff, IsAck, Grown
  <2>5. Asks(v, q, r2, a)
    BY <1>3 DEF Agree, Asks, IsInit, IsOff, AckOf, IsAck, Grown
  <2>6. Waits(s, q, r2, b)
    BY <1>3 DEF Agree, Waits, Going, IsInit, IsAck, Grown
  <2>7. Tells(s, v, r2, b)
    BY <1>3 DEF Agree, Tells, IsOff, IsAck, IsOn, OffOn, Grown
  <2>8. Invites(s, v, q, r2, b)
    BY <1>3 DEF Agree, Invites, Going, IsInit, IsAck, IsOn, Grown
  <2> QED BY <1>3, <2>1, <2>2, <2>3, <2>4, <2>5, <2>6, <2>7, <2>8 DEF Agree
<1> QED BY <1>1, <1>2, <1>3 DEF Link

(* The invited switches off.                                               *)
LEMMA InvitedFrees ==
  ASSUME NEW s, NEW t, NEW q, NEW r, NEW a, NEW b, NEW v,
         Link(s, t, q, r, a, b),
         v.session[a] = NoSession,
         a \in v.known <=> a \in t.known,
         ~v.enabled,
         Undone(v)
  PROVE  /\ Link(s, v, q, r, a, b)
         /\ Agree(s, t, q, r, a, b) => Agree(s, v, q, r, a, b)
<1>1. Ordered(s, q, r, a, b)
  BY DEF Link, Ordered, Going, IsInit, IsAck
<1>2. Knows(s, v, q, r, a, b)
  BY DEF Link, Knows, Greets, IsOn
<1>3. ASSUME Agree(s, t, q, r, a, b) PROVE Agree(s, v, q, r, a, b)
  <2>1. Holds1(s, v, r, a, b)
    BY <1>3 DEF Agree, Holds1, IsOff
  <2>2. Holds2(s, v, q, r, a, b)
    BY <1>3 DEF Agree, Holds2, IsOff, IsAck, AckOf
  <2>3. Frees(v, r, a)
    BY <1>3 DEF Agree, Frees, IsOff, AckOf, IsAck
  <2>4. Answers(s, v, r, a, b)
    BY <1>3 DEF Agree, Answers, IsOff, IsAck
  <2>5. Asks(v, q, r, a)
    BY <1>3 DEF Agree, Asks, IsInit, IsOff, AckOf, IsAck
  <2>6. Tells(s, v, r, b)
    BY <1>3 DEF Agree, Tells, IsOff, IsAck, IsOn, OffOn
  <2>7. Invites(s, v, q, r, b)
    BY <1>3 DEF Agree, Invites, Going, IsInit, IsAck, IsOn
  <2> QED BY <1>3, <2>1, <2>2, <2>3, <2>4, <2>5, <2>6, <2>7 DEF Agree
<1> QED BY <1>1, <1>2, <1>3 DEF Link

(* The invited says so.                                                    *)
LEMMA InvitedSaysOff ==
  ASSUME NEW s, NEW t, NEW q, NEW r, NEW a, NEW b, NEW v, NEW r2, NEW m,
         Link(s, t, q, r, a, b),
         Grown(r, r2, m),
         m.type = "off",
         v.session[a] = t.session[a],
         a \in v.known <=> a \in t.known,
         v.enabled = t.enabled,
         SwitchesOff(t),
         SwitchesOff(v) => SwitchesOff(t),
         SwitchesOn(v) <=> SwitchesOn(t),
         Undone(t) => ~t.enabled
  PROVE  /\ Link(s, v, q, r2, a, b)
         /\ Agree(s, t, q, r, a, b) => Agree(s, v, q, r2, a, b)
<1>1. Ordered(s, q, r2, a, b)
  BY DEF Link, Ordered, Going, IsInit, IsAck, Grown
<1>2. Knows(s, v, q, r2, a, b)
  BY DEF Link, Knows, Greets, IsOn, Grown
<1>3. ASSUME Agree(s, t, q, r, a, b) PROVE Agree(s, v, q, r2, a, b)
  <2>1. Holds1(s, v, r2, a, b)
    BY <1>3 DEF Agree, Holds1, IsOff, Grown
  <2>2. Holds2(s, v, q, r2, a, b)
    BY <1>3 DEF Agree, Holds2, IsOff, IsAck, AckOf, Grown
  <2>3. Frees(v, r2, a)
    BY <1>3 DEF Agree, Frees, IsOff, AckOf, IsAck, Grown
  <2>4. Answers(s, v, r2, a, b)
    BY <1>3 DEF Agree, Answers, IsOff, IsAck, Grown
  <2>5. Asks(v, q, r2, a)
    BY <1>3 DEF Agree, Asks, IsInit, IsOff, AckOf, IsAck, Grown
  <2>6. Waits(s, q, r2, b)
    BY <1>3 DEF Agree, Waits, Going, IsInit, IsAck, Grown
  <2>7. Tells(s, v, r2, b)
    <3>1. t.session[a] = NoSession
      BY <1>3 DEF Agree, Frees
    <3>2. \A i : OffOn(r, i) => OffOn(r2, i)
      BY DEF OffOn, IsOff, IsOn, Grown
    <3>3. s.session[b] # NoSession /\ t.enabled => \E i \in DOMAIN r : IsOff(r, i)
      BY <1>3, <3>1 DEF Agree, Holds1
    <3>4. ASSUME NEW i \in DOMAIN r2, IsAck(r2, i), r2[i].n = s.pending[b], t.enabled
          PROVE  /\ i \in DOMAIN r /\ IsAck(r, i) /\ r[i].n = s.pending[b]
                 /\ \E j \in DOMAIN r : i < j /\ IsOff(r, j)
      <4>1. i \in DOMAIN r /\ IsAck(r, i) /\ r[i].n = s.pending[b]
        BY <3>4 DEF Grown, IsAck
      <4> QED BY <1>3, <3>1, <3>4, <4>1 DEF Agree, Answers, Link, Ordered
    <3>5. s.session[b] # NoSession /\ v.enabled => SwitchesOn(v) \/ OffOn(r2, 0)
      BY <1>3, <3>2, <3>3 DEF Agree, Tells
    <3>6. ASSUME NEW i \in DOMAIN r2, IsAck(r2, i), r2[i].n = s.pending[b], v.enabled
          PROVE  SwitchesOn(v) \/ OffOn(r2, i)
      <4>1. /\ i \in DOMAIN r /\ IsAck(r, i) /\ r[i].n = s.pending[b] /\ t.enabled
            /\ \E j \in DOMAIN r : i < j /\ IsOff(r, j)
        BY <3>4, <3>6
      <4> QED BY <1>3, <3>2, <4>1 DEF Agree, Tells
    <3> QED BY <3>5, <3>6 DEF Tells
  <2>8. Invites(s, v, q, r2, b)
    BY <1>3 DEF Agree, Invites, Going, IsInit, IsAck, IsOn, Grown
  <2> QED BY <1>3, <2>1, <2>2, <2>3, <2>4, <2>5, <2>6, <2>7, <2>8 DEF Agree
<1> QED BY <1>1, <1>2, <1>3 DEF Link

-----------------------------------------------------------------------------
(***************************************************************************)
(* What the steps of an endpoint do to its calls.                          *)
(***************************************************************************)

(* What the calls are at, to the others.                                   *)
AlikeCalls(s, t) ==
  /\ Hung(t) <=> Hung(s)
  /\ Undone(t) <=> Undone(s)
  /\ SwitchesOn(t) <=> SwitchesOn(s)
  /\ SwitchesOff(t) <=> SwitchesOff(s)

LEMMA CallTypes ==
  ASSUME NEW c \in Seq(Call)
  PROVE  \A i \in DOMAIN c :
           c[i] \in Call /\ c[i].want \in BOOLEAN /\ c[i].on \in Nat /\ i \in Nat \ {0}
<1>1. ASSUME NEW i \in DOMAIN c PROVE c[i] \in Call /\ i \in Nat \ {0}
  BY <1>1, ElementOfSeq
<1> QED BY <1>1 DEF Call

LEMMA CallsStay ==
  ASSUME NEW s, NEW t, CallsOK(s), s.calls \in Seq(Call), s.index \in Nat \cup {-1},
         t.calls = s.calls, t.enabling = s.enabling, t.enabled = s.enabled,
         t.starting = s.starting, t.index \in Nat \cup {-1}, s.index <= t.index,
         t.reqs \in SUBSET Request,
         \A r \in t.reqs : r.kind = "key" => r \in s.reqs \/ (s.index < r.n /\ r.n <= t.index)
  PROVE  CallsOK(t) /\ AlikeCalls(s, t)
<1>1. AlikeCalls(s, t)
  BY DEF AlikeCalls, Hung, Undone, SwitchesOn, SwitchesOff
<1>2. \A i \in DOMAIN s.calls : s.calls[i] \in Call /\ s.calls[i].on \in Nat
  BY CallTypes
<1>3. \A r \in t.reqs : r.n \in Nat
  BY DEF Request
<1>4. \A i \in DOMAIN t.calls : t.calls[i].phase = "key" =>
        t.calls[i].on <= t.index /\ (t.calls[i].want \/ NoKeyRequests(t, t.calls[i].on))
  BY <1>2, <1>3 DEF CallsOK, NoKeyRequests
<1>5. \A r \in t.reqs : r.kind = "key" => r.n <= t.index
  BY <1>3 DEF CallsOK
<1> QED BY <1>1, <1>4, <1>5 DEF CallsOK, AlikeCalls

(* Who waits for an event is in the middle of nothing.                     *)
LEMMA IdleAsked ==
  ASSUME NEW s, NEW t, Idle(s), t.asked \subseteq s.asked, t.starting = s.starting
  PROVE  AskedOK(t)
BY DEF Idle, AskedOK

LEMMA IdleSafe ==
  ASSUME NEW s, NEW t, Idle(s), t.calls = s.calls, t.enabling = s.enabling, t.reqs = s.reqs
  PROVE  Safe(t)
BY DEF Idle, Safe, CanResume, KeySettled, NoKeyRequests

LEMMA IdleSwitched ==
  ASSUME NEW s, Idle(s), CallsOK(s)
  PROVE  ~SwitchesOff(s)
BY DEF Idle, SwitchesOff, CallsOK, KeySettled

(* Nothing changes about the calls and the keys.                           *)
LEMMA AskedStays ==
  ASSUME NEW s, NEW t, AskedOK(s), t.calls = s.calls, t.enabling = s.enabling,
         t.starting = s.starting, t.asked \subseteq s.asked, t.known = s.known,
         t.session = s.session, \A r \in s.reqs : r.kind = "key" => r \in t.reqs
  PROVE  AskedOK(t)
BY DEF AskedOK, Safe, CanResume, KeySettled, NoKeyRequests, Hung

(* A call that begins: the first that waits.                               *)
LEMMA Begins ==
  ASSUME NEW s, NEW e \in Endpoint, EpOK(s, e), CallsOK(s), NEW i, CanResume(s, i)
  PROVE  /\ i \in DOMAIN s.calls /\ s.enabling < i /\ s.calls[i].phase = "wait" /\ i \in Nat
         /\ \A j \in DOMAIN s.calls : s.enabling < j => i <= j
         /\ s.calls[i].want => ~Undone(s)
         /\ s.calls[i].want \/ s.starting = 0 \/ Hung(s)
         /\ \A j \in DOMAIN s.calls : i < j =>
              /\ s.calls[j].want <=> s.calls[i].want
              /\ s.calls[j].on = 0 \/ \E k \in DOMAIN s.calls :
                                        k = s.calls[j].on /\ s.calls[k].phase = "done"
<1>1. /\ s.calls \in Seq(Call) /\ s.enabling \in Nat /\ s.starting \in Nat /\ s.enabled \in BOOLEAN
      /\ \A j \in DOMAIN s.calls : s.calls[j] \in Call /\ s.calls[j].want \in BOOLEAN
  BY TypedFields, CallTypes DEF EpOK
<1>2. /\ i \in DOMAIN s.calls /\ s.calls[i].phase = "wait" /\ i \in Nat
      /\ \/ s.calls[i].on = 0
         \/ \E k \in DOMAIN s.calls : k = s.calls[i].on /\ s.calls[k].phase = "done"
      /\ \A j \in 1..(i - 1) : s.calls[j].phase # "wait"
  BY <1>1 DEF CanResume
<1>3. s.enabling < i /\ \A j \in DOMAIN s.calls : s.enabling < j => i <= j
  BY <1>1, <1>2 DEF CallsOK
<1>4. s.starting # 0 => s.calls[s.starting].phase = "init"
  BY DEF EpOK
<1>5. CASE \A j \in DOMAIN s.calls : s.enabling < j =>
             s.calls[j].on = s.enabling /\ (s.calls[j].want <=> ~s.enabled)
  <2>1. s.calls[i].on = s.enabling /\ (s.calls[i].want <=> ~s.enabled)
    BY <1>2, <1>3, <1>5
  <2>2. s.enabling # 0 => s.calls[s.enabling].phase = "done"
    BY <1>2, <2>1
  <2>3. ~Undone(s) /\ (s.starting = 0 \/ Hung(s))
    BY <1>4, <2>2 DEF Undone, CallsOK
  <2>4. \A j \in DOMAIN s.calls : i < j => s.enabling < j
    BY <1>1, <1>2, <1>3
  <2>5. \A j \in DOMAIN s.calls : i < j =>
              /\ s.calls[j].want <=> s.calls[i].want
              /\ s.calls[j].on = s.calls[i].on
    BY <1>5, <2>1, <2>4
  <2> QED BY <1>2, <1>3, <2>3, <2>5
<1>6. CASE \A j \in DOMAIN s.calls : s.enabling < j =>
             /\ s.calls[j].want <=> s.enabled
             /\ s.calls[j].on = 0 \/ \E k \in DOMAIN s.calls :
                                       k = s.calls[j].on /\ s.calls[k].phase = "done"
  <2>1. s.calls[i].want <=> s.enabled
    BY <1>2, <1>3, <1>6
  <2>2. s.enabled => ~Undone(s)
    BY DEF CallsOK, Undone
  <2>3. ~s.enabled => s.starting = 0 \/ Hung(s)
    BY <1>4 DEF CallsOK, EpOK
  <2>4. \A j \in DOMAIN s.calls : i < j => s.enabling < j
    BY <1>1, <1>2, <1>3
  <2>5. \A j \in DOMAIN s.calls : i < j =>
              /\ s.calls[j].want <=> s.calls[i].want
              /\ s.calls[j].on = 0 \/ \E k \in DOMAIN s.calls :
                                        k = s.calls[j].on /\ s.calls[k].phase = "done"
    BY <1>6, <2>1, <2>4
  <2> QED BY <1>2, <1>3, <2>1, <2>2, <2>3, <2>5
<1> QED BY <1>5, <1>6 DEF CallsOK

(* Only the call i is another one in d than in c.                          *)
OnlyCall(c, d, i) ==
  /\ c \in Seq(Call) /\ d \in Seq(Call) /\ DOMAIN d = DOMAIN c /\ i \in DOMAIN c
  /\ \A j \in DOMAIN c : j # i => d[j] = c[j]
  /\ d[i].want = c[i].want

LEMMA CallWaits ==
  ASSUME NEW s, NEW t, NEW e \in Endpoint, EpOK(s, e), CallsOK(s), Idle(s), NEW c \in Call,
         c.phase = "wait", c.on = s.enabling, c.want <=> ~s.enabled,
         t.calls = Append(s.calls, c), t.enabling = s.enabling, t.enabled = s.enabled,
         t.starting = s.starting, t.index = s.index, t.reqs = s.reqs
  PROVE  CallsOK(t) /\ AlikeCalls(s, t)
<1>1. /\ s.calls \in Seq(Call) /\ s.enabling \in Nat
      /\ \A j \in DOMAIN s.calls : s.calls[j].on \in Nat /\ j \in Nat \ {0}
  BY TypedFields, CallTypes DEF EpOK
<1> DEFINE n == Len(s.calls) + 1
<1>2. /\ n \in Nat \ {0} /\ n \notin DOMAIN s.calls /\ DOMAIN t.calls = DOMAIN s.calls \cup {n}
      /\ t.calls[n] = c /\ \A j \in DOMAIN s.calls : t.calls[j] = s.calls[j] /\ j < n
      /\ DOMAIN s.calls = 1..(n - 1)
  <2>1. Len(s.calls) \in Nat /\ DOMAIN s.calls = 1..Len(s.calls)
    BY <1>1
  <2> QED BY <1>1, <2>1, AppendProperties
<1> HIDE DEF n
<1>3. AlikeCalls(s, t)
  <2>1. s.enabling \in DOMAIN s.calls \/ s.enabling = 0
    BY DEF CallsOK
  <2> QED BY <1>2, <2>1 DEF AlikeCalls, Hung, Undone, SwitchesOn, SwitchesOff
<1>4. s.enabling < n
  BY <1>1, <1>2 DEF CallsOK
<1>5. \A i \in DOMAIN s.calls : s.enabling < i =>
        s.calls[i].on = s.enabling /\ (s.calls[i].want <=> ~s.enabled)
  <2>1. SUFFICES ASSUME \A i \in DOMAIN s.calls : s.enabling < i =>
                          /\ s.calls[i].want <=> s.enabled
                          /\ s.calls[i].on = 0 \/ \E j \in DOMAIN s.calls :
                                                    j = s.calls[i].on /\ s.calls[j].phase = "done",
                        NEW i \in DOMAIN s.calls, s.enabling < i
                 PROVE  FALSE
    BY DEF CallsOK
  <2> DEFINE k == s.enabling + 1
  <2>2. k \in DOMAIN s.calls /\ s.enabling < k
    BY <1>1, <1>2, <2>1
  <2>3. s.calls[k].phase = "wait" /\ \A j \in 1..(k - 1) : s.calls[j].phase # "wait"
    <3>1. \A j \in 1..(k - 1) : j \in DOMAIN s.calls /\ ~(s.enabling < j)
      BY <1>1, <1>2, <2>2
    <3> QED BY <2>2, <3>1 DEF CallsOK
  <2>4. CanResume(s, k)
    BY <2>1, <2>2, <2>3 DEF CanResume
  <2> QED BY <2>2, <2>4 DEF Idle
<1> QED
  <2>1. t.enabling = 0 \/ t.enabling \in DOMAIN t.calls
    BY <1>2 DEF CallsOK
  <2>2. \A i \in DOMAIN t.calls : t.calls[i].phase = "wait" <=> t.enabling < i
    BY <1>2, <1>4 DEF CallsOK
  <2>3. t.enabling # 0 => (t.calls[t.enabling].want <=> t.enabled)
    BY <1>2 DEF CallsOK
  <2>4. t.starting # 0 => t.calls[t.starting].want /\ (Hung(t) \/ t.starting = t.enabling)
    BY <1>2, <1>3 DEF CallsOK, AlikeCalls, EpOK
  <2>5. \A i \in DOMAIN t.calls : t.calls[i].phase = "key" =>
          t.calls[i].on <= t.index /\ (t.calls[i].want \/ NoKeyRequests(t, t.calls[i].on))
    BY <1>2 DEF CallsOK, NoKeyRequests
  <2>6. \A i \in DOMAIN t.calls : t.enabling < i =>
          t.calls[i].on = t.enabling /\ (t.calls[i].want <=> ~t.enabled)
    BY <1>2, <1>5
  <2> QED BY <1>3, <2>1, <2>2, <2>3, <2>4, <2>5, <2>6 DEF CallsOK

(* A call begins: it invites, or hangs; or it has freed the sessions.      *)
LEMMA CallBegins ==
  ASSUME NEW s, NEW t, NEW e \in Endpoint, EpOK(s, e), CallsOK(s), NEW i, CanResume(s, i),
         OnlyCall(s.calls, t.calls, i), t.enabling = i, t.enabled <=> s.calls[i].want,
         \A r \in t.reqs : r.kind = "key" => r \in s.reqs,
         t.index \in Nat \cup {-1}, s.index <= t.index,
         \/ t.calls[i].phase = "hung" /\ s.calls[i].want /\ t.starting = s.starting
         \/ t.calls[i].phase = "init" /\ s.calls[i].want /\ t.starting = i
         \/ /\ t.calls[i].phase = "key" /\ ~s.calls[i].want /\ t.starting = s.starting
            /\ t.calls[i].on = t.index /\ s.index < t.index
  PROVE  /\ CallsOK(t) /\ (Hung(s) => Hung(t)) /\ (t.calls[i].phase = "hung" => Hung(t))
         /\ s.calls[i].want => ~Undone(s) /\ ~Undone(t) /\ (SwitchesOff(t) <=> SwitchesOff(s))
         /\ t.calls[i].phase = "init" => SwitchesOn(t)
         /\ ~s.calls[i].want => Undone(t) /\ (s.starting = 0 \/ Hung(s))
<1>1. /\ s.calls \in Seq(Call) /\ s.enabling \in Nat /\ s.index \in Nat \cup {-1}
      /\ \A j \in DOMAIN s.calls : s.calls[j].on \in Nat /\ j \in Nat \ {0}
      /\ s.reqs \in SUBSET Request
  BY TypedFields, CallTypes DEF EpOK
<1>2. /\ i \in DOMAIN s.calls /\ s.enabling < i /\ s.calls[i].phase = "wait" /\ i \in Nat
      /\ \A j \in DOMAIN s.calls : s.enabling < j => i <= j
      /\ s.calls[i].want => ~Undone(s)
      /\ s.calls[i].want \/ s.starting = 0 \/ Hung(s)
      /\ \A j \in DOMAIN s.calls : i < j =>
           /\ s.calls[j].want <=> s.calls[i].want
           /\ s.calls[j].on = 0 \/ \E k \in DOMAIN s.calls :
                                     k = s.calls[j].on /\ s.calls[k].phase = "done"
  BY Begins
<1>3. /\ DOMAIN t.calls = DOMAIN s.calls /\ t.calls[i].want = s.calls[i].want
      /\ \A j \in DOMAIN s.calls : j # i => t.calls[j] = s.calls[j]
  BY DEF OnlyCall
<1>4. (Hung(s) => Hung(t)) /\ (t.calls[i].phase = "hung" => Hung(t))
  BY <1>2, <1>3 DEF Hung
<1>5. s.calls[i].want => ~Undone(t) /\ (SwitchesOff(t) <=> SwitchesOff(s))
  BY <1>2, <1>3 DEF Undone, SwitchesOff
<1>6. ~s.calls[i].want => Undone(t)
  BY <1>1, <1>2, <1>3 DEF Undone
<1>7. t.calls[i].phase = "init" => SwitchesOn(t)
  BY <1>2, <1>3 DEF SwitchesOn
<1>8. \A j \in DOMAIN t.calls : t.calls[j].phase = "wait" <=> t.enabling < j
  BY <1>1, <1>2, <1>3 DEF CallsOK
<1>9. t.starting # 0 => t.calls[t.starting].want /\ (Hung(t) \/ t.starting = t.enabling)
  BY <1>2, <1>3, <1>4 DEF CallsOK, EpOK
<1>10. \A r \in t.reqs : r.kind = "key" => r.n <= s.index /\ r.n <= t.index /\ r.n \in Nat
  BY <1>1 DEF CallsOK, Request
<1>11. ASSUME NEW j \in DOMAIN t.calls, t.calls[j].phase = "key"
       PROVE  t.calls[j].on <= t.index /\ (t.calls[j].want \/ NoKeyRequests(t, t.calls[j].on))
  <2>1. CASE j = i
    BY <1>1, <1>10, <1>11, <2>1 DEF NoKeyRequests
  <2>2. CASE j # i
    BY <1>1, <1>3, <1>11, <2>2 DEF CallsOK, NoKeyRequests
  <2> QED BY <2>1, <2>2
<1>12. \A j \in DOMAIN t.calls : t.enabling < j =>
         /\ t.calls[j].want <=> t.enabled
         /\ t.calls[j].on = 0 \/ \E k \in DOMAIN t.calls :
                                   k = t.calls[j].on /\ t.calls[k].phase = "done"
  <2> SUFFICES ASSUME NEW j \in DOMAIN s.calls, i < j
               PROVE  /\ t.calls[j].want <=> t.enabled
                      /\ t.calls[j].on = 0 \/ \E k \in DOMAIN s.calls :
                                                k = t.calls[j].on /\ t.calls[k].phase = "done"
    BY <1>3
  <2>1. t.calls[j] = s.calls[j]
    BY <1>1, <1>2, <1>3
  <2>2. \A k \in DOMAIN s.calls : s.calls[k].phase = "done" => t.calls[k].phase = "done"
    BY <1>2, <1>3
  <2> QED BY <1>2, <2>1, <2>2
<1> QED
  <2>1. t.enabling \in DOMAIN t.calls /\ t.enabling # 0 /\ (t.calls[t.enabling].want <=> t.enabled)
    BY <1>1, <1>2, <1>3
  <2>2. CallsOK(t)
    BY <1>8, <1>9, <1>10, <1>11, <1>12, <2>1 DEF CallsOK
  <2> QED BY <1>2, <1>4, <1>5, <1>6, <1>7, <2>2

(* Everybody is invited, and those with a session are asked to confirm the *)
(* new key.                                                                *)
LEMMA CallOpens ==
  ASSUME NEW s, NEW t, NEW e \in Endpoint, EpOK(s, e), CallsOK(s), s.starting # 0,
         OnlyCall(s.calls, t.calls, s.starting),
         t.calls[s.starting].phase = "key", t.calls[s.starting].on = t.index,
         t.enabling = s.enabling, t.enabled = s.enabled, t.starting = 0,
         t.index \in Nat, s.index < t.index, t.reqs \in SUBSET Request,
         \A r \in t.reqs : r.kind = "key" => r \in s.reqs \/ r.n = t.index,
         t.known = s.known, t.session = s.session,
         \A p \in HasSession(s) : \E r \in t.reqs : r.kind = "key" /\ r.n = t.index
  PROVE  CallsOK(t) /\ AlikeCalls(s, t) /\ AskedOK(t)
<1> DEFINE i == s.starting
<1>1. /\ s.calls \in Seq(Call) /\ s.enabling \in Nat /\ s.index \in Nat \cup {-1}
      /\ \A j \in DOMAIN s.calls : s.calls[j].on \in Nat /\ j \in Nat \ {0}
      /\ s.reqs \in SUBSET Request /\ s.enabled \in BOOLEAN
  BY TypedFields, CallTypes DEF EpOK
<1>2. /\ i \in DOMAIN s.calls /\ s.calls[i].phase = "init" /\ s.calls[i].want
      /\ Hung(s) \/ i = s.enabling
  BY DEF EpOK, CallsOK
<1>3. /\ DOMAIN t.calls = DOMAIN s.calls /\ t.calls[i].want = s.calls[i].want
      /\ \A j \in DOMAIN s.calls : j # i => t.calls[j] = s.calls[j]
      /\ t.calls[i].phase = "key" /\ t.calls[i].on = t.index
  BY DEF OnlyCall
<1> HIDE DEF i
<1>4. AlikeCalls(s, t)
  <2>1. s.enabling = 0 \/ s.enabling \in DOMAIN s.calls
    BY DEF CallsOK
  <2>2. Undone(t) <=> Undone(s)
    <3>1. CASE s.enabling = i
      BY <1>2, <1>3, <3>1 DEF Undone
    <3>2. CASE s.enabling # i
      <4>1. s.enabling # 0 => t.calls[s.enabling] = s.calls[s.enabling]
        BY <1>3, <2>1, <3>2
      <4> QED BY <4>1 DEF Undone
    <3> QED BY <3>1, <3>2
  <2>3. Hung(t) <=> Hung(s)
    BY <1>2, <1>3, ZenonT(60) DEF Hung
  <2>4. SwitchesOn(t) <=> SwitchesOn(s)
    BY <1>2, <1>3, ZenonT(60) DEF SwitchesOn
  <2>5. SwitchesOff(t) <=> SwitchesOff(s)
    BY <1>2, <1>3, ZenonT(60) DEF SwitchesOff
  <2> QED BY <2>2, <2>3, <2>4, <2>5 DEF AlikeCalls
<1>5. \A r \in s.reqs : r.kind = "key" => r.n <= s.index /\ r.n \in Nat
  BY <1>1 DEF CallsOK, Request
<1>6. \A r \in t.reqs : r.kind = "key" => r.n <= t.index
  BY <1>1, <1>5
<1>7. ASSUME NEW j \in DOMAIN t.calls, t.calls[j].phase = "key"
      PROVE  t.calls[j].on <= t.index /\ (t.calls[j].want \/ NoKeyRequests(t, t.calls[j].on))
  <2>1. CASE j = i
    <3>1. t.index <= t.index
      OBVIOUS
    <3> QED BY <1>2, <1>3, <2>1, <3>1, Zenon
  <2>2. CASE j # i
    <3>1. s.calls[j].on <= s.index /\ (s.calls[j].want \/ NoKeyRequests(s, s.calls[j].on))
      BY <1>3, <1>7, <2>2 DEF CallsOK
    <3> QED BY <1>1, <1>3, <2>2, <3>1 DEF NoKeyRequests
  <2> QED BY <2>1, <2>2
<1>8. \A j \in DOMAIN s.calls :
        /\ t.calls[j].want = s.calls[j].want
        /\ s.calls[j].phase = "wait" <=> t.calls[j].phase = "wait"
        /\ s.calls[j].phase = "done" <=> t.calls[j].phase = "done"
        /\ s.calls[j].phase = "wait" => t.calls[j].on = s.calls[j].on
  BY <1>2, <1>3
<1>9. CallsOK(t)
  <2>1. \A j \in DOMAIN t.calls : t.calls[j].phase = "wait" <=> t.enabling < j
    BY <1>3, <1>8 DEF CallsOK
  <2>2. t.enabling # 0 => (t.calls[t.enabling].want <=> t.enabled)
    BY <1>3, <1>8 DEF CallsOK
  <2>3. \/ \A j \in DOMAIN t.calls : t.enabling < j =>
             t.calls[j].on = t.enabling /\ (t.calls[j].want <=> ~t.enabled)
        \/ \A j \in DOMAIN t.calls : t.enabling < j =>
             /\ t.calls[j].want <=> t.enabled
             /\ t.calls[j].on = 0 \/ \E k \in DOMAIN t.calls :
                                       k = t.calls[j].on /\ t.calls[k].phase = "done"
    <3>1. \A j \in DOMAIN t.calls : t.enabling < j =>
            j \in DOMAIN s.calls /\ s.enabling < j /\ t.calls[j].on = s.calls[j].on
      BY <1>3, <1>8, <2>1
    <3> QED BY <1>3, <1>8, <3>1 DEF CallsOK
  <2> QED BY <1>3, <1>6, <1>7, <2>1, <2>2, <2>3 DEF CallsOK
<1>10. AskedOK(t)
  <2> SUFFICES ASSUME NEW p \in t.known, t.session[p] # NoSession, ~Hung(t)
               PROVE  Safe(t)
    BY DEF AskedOK
  <2>1. p \in HasSession(s) /\ i = s.enabling
    BY <1>2, <1>4 DEF HasSession, AlikeCalls
  <2>2. ~NoKeyRequests(t, t.index)
    BY <2>1 DEF NoKeyRequests
  <2>3. ~KeySettled(t, t.enabling)
    BY <1>3, <2>1, <2>2 DEF KeySettled
  <2>4. ASSUME NEW j, CanResume(t, j), ~t.calls[j].want
        PROVE  FALSE
    <3>1. /\ j \in DOMAIN t.calls /\ t.enabling < j /\ t.enabled
          /\ t.calls[j].on = 0 \/ (t.calls[j].on # t.enabling)
      BY <1>1, <1>2, <1>3, <1>9, <2>1, <2>4 DEF CanResume, CallsOK
    <3>2. t.enabling # 0
      BY <1>1, <1>2, <2>1
    <3> QED BY <1>9, <2>4, <3>1, <3>2 DEF CallsOK
  <2> QED BY <2>3, <2>4 DEF Safe
<1> QED BY <1>4, <1>9, <1>10

(* The others have been told.                                              *)
LEMMA CallEnds ==
  ASSUME NEW s, NEW t, NEW e \in Endpoint, EpOK(s, e), CallsOK(s), AskedOK(s), NEW i,
         KeySettled(s, i), \A j \in DOMAIN s.calls : ~CanResume(s, j),
         OnlyCall(s.calls, t.calls, i), t.calls[i].phase = "done",
         t.enabling = s.enabling, t.enabled = s.enabled, t.starting = s.starting,
         t.index = s.index, t.reqs = s.reqs, t.asked = s.asked, t.known = s.known,
         t.session = s.session
  PROVE  /\ CallsOK(t) /\ AskedOK(t) /\ (Hung(t) <=> Hung(s))
         /\ (SwitchesOff(t) => SwitchesOff(s))
         /\ s.calls[i].want => (SwitchesOff(t) <=> SwitchesOff(s)) /\ (Undone(t) <=> Undone(s))
         /\ ~s.calls[i].want => SwitchesOff(s) /\ (SwitchesOn(t) <=> SwitchesOn(s))
         /\ Undone(s) => ~s.enabled
<1>1. /\ s.calls \in Seq(Call) /\ s.enabling \in Nat
      /\ \A j \in DOMAIN s.calls : s.calls[j].on \in Nat /\ j \in Nat \ {0}
  BY TypedFields, CallTypes DEF EpOK
<1>2. i \in DOMAIN s.calls /\ s.calls[i].phase = "key"
  BY DEF KeySettled
<1>3. /\ DOMAIN t.calls = DOMAIN s.calls /\ t.calls[i].want = s.calls[i].want
      /\ \A j \in DOMAIN s.calls : j # i => t.calls[j] = s.calls[j]
  BY DEF OnlyCall
<1>4. Hung(t) <=> Hung(s)
  BY <1>2, <1>3 DEF Hung
<1>5. /\ SwitchesOff(t) => SwitchesOff(s)
      /\ s.calls[i].want => (SwitchesOff(t) <=> SwitchesOff(s)) /\ (Undone(t) <=> Undone(s))
      /\ ~s.calls[i].want => SwitchesOff(s) /\ (SwitchesOn(t) <=> SwitchesOn(s))
      /\ Undone(s) => ~s.enabled
  BY <1>2, <1>3 DEF SwitchesOff, SwitchesOn, Undone, CallsOK
<1>6. \A j \in DOMAIN s.calls :
        /\ t.calls[j].want = s.calls[j].want
        /\ s.calls[j].phase = "wait" <=> t.calls[j].phase = "wait"
        /\ s.calls[j].phase = "done" => t.calls[j].phase = "done"
        /\ s.calls[j].phase = "wait" => t.calls[j].on = s.calls[j].on
  BY <1>2, <1>3
<1>7. CallsOK(t)
  <2>1. \A j \in DOMAIN t.calls : t.calls[j].phase = "wait" <=> t.enabling < j
    BY <1>3, <1>6 DEF CallsOK
  <2>2. t.enabling # 0 => (t.calls[t.enabling].want <=> t.enabled)
    BY <1>3, <1>6 DEF CallsOK
  <2>3. \/ \A j \in DOMAIN t.calls : t.enabling < j =>
             t.calls[j].on = t.enabling /\ (t.calls[j].want <=> ~t.enabled)
        \/ \A j \in DOMAIN t.calls : t.enabling < j =>
             /\ t.calls[j].want <=> t.enabled
             /\ t.calls[j].on = 0 \/ \E k \in DOMAIN t.calls :
                                       k = t.calls[j].on /\ t.calls[k].phase = "done"
    <3>1. \A j \in DOMAIN t.calls : t.enabling < j =>
            j \in DOMAIN s.calls /\ s.enabling < j /\ t.calls[j].on = s.calls[j].on
      BY <1>3, <1>6, <2>1
    <3> QED BY <1>3, <1>6, <3>1 DEF CallsOK
  <2>4. t.starting # 0 => t.calls[t.starting].want /\ (Hung(t) \/ t.starting = t.enabling)
    BY <1>4, <1>6 DEF CallsOK, EpOK
  <2>5. ASSUME NEW j \in DOMAIN t.calls, t.calls[j].phase = "key"
        PROVE  t.calls[j].on <= t.index /\ (t.calls[j].want \/ NoKeyRequests(t, t.calls[j].on))
    BY <1>3, <2>5 DEF CallsOK, NoKeyRequests
  <2> QED BY <1>3, <2>1, <2>2, <2>3, <2>4, <2>5 DEF CallsOK
<1>8. AskedOK(t)
  <2> SUFFICES ASSUME NEW p \in t.asked \cap t.known, t.starting = 0,
                      t.session[p] # NoSession, ~Hung(t)
               PROVE  Safe(t)
    BY DEF AskedOK
  <2>1. ~KeySettled(s, s.enabling)
    BY <1>4 DEF AskedOK, Safe
  <2>2. i # s.enabling /\ ~KeySettled(t, t.enabling)
    BY <1>3, <2>1 DEF KeySettled, NoKeyRequests
  <2>3. ASSUME NEW j, CanResume(t, j)
        PROVE  FALSE
    <3>1. /\ j \in DOMAIN s.calls /\ s.enabling < j /\ s.calls[j].phase = "wait"
          /\ t.calls[j].on = s.calls[j].on
          /\ \A k \in 1..(j - 1) : s.calls[k].phase # "wait"
      <4>1. j \in DOMAIN t.calls /\ \A k \in 1..(j - 1) : k \in DOMAIN t.calls
        BY <1>1, <1>3, <2>3 DEF CanResume
      <4> QED BY <1>3, <1>6, <2>3, <4>1 DEF CanResume, CallsOK
    <3>2. /\ s.calls[j].on # 0
          /\ ~(\E k \in DOMAIN s.calls : k = s.calls[j].on /\ s.calls[k].phase = "done")
      BY <3>1 DEF CanResume
    <3>3. s.calls[j].on = s.enabling
      BY <3>1, <3>2 DEF CallsOK
    <3>4. t.calls[s.enabling].phase = "done"
      BY <2>3, <3>1, <3>2, <3>3 DEF CanResume
    <3> QED BY <1>3, <2>2, <3>2, <3>3, <3>4 DEF CallsOK
  <2> QED BY <2>2, <2>3 DEF Safe
<1> QED BY <1>4, <1>5, <1>7, <1>8

-----------------------------------------------------------------------------
(***************************************************************************)
(* Steps of one endpoint.                                                  *)
(***************************************************************************)

(* What s is to the others is no different in t.                           *)
Same(s, t) ==
  /\ t.session = s.session /\ t.inits = s.inits /\ t.enabled = s.enabled
  /\ t.asked = s.asked /\ t.known = s.known
  /\ \A p \in Endpoint : t.pending[p] \in {s.pending[p], 0}

(* A letter from e to p is what only e sends to p.                         *)
Proper(m, e, p) ==
  /\ m.type = "session-init" => e < p
  /\ m.type = "session-ack" => p < e
  /\ m.type = "left" => e \in left

(* e invites only those after it, and knows nothing of who has not come.   *)
Sees(s, e) ==
  /\ \A p \in s.asked : e < p
  /\ s.known \subseteq room \cup left /\ s.asked \subseteq room \cup left
  /\ \A p \in Endpoint : p \notin room \cup left =>
       s.session[p] = NoSession /\ s.pending[p] = 0 /\ s.inits[p] = 0

StatesOK == \A e \in Endpoint : CallsOK(ep[e]) /\ AskedOK(ep[e]) /\ Sees(ep[e], e)

LettersOK ==
  \A e, p \in Endpoint :
    /\ \A i \in DOMAIN net[e][p] : Proper(net[e][p][i], e, p)
    /\ e \notin room \cup left => net[e][p] = <<>>

Linked(a, b) == Link(ep[a], ep[b], net[a][b], net[b][a], a, b)

Agreed(a, b) ==
  \/ {a, b} \in orphan \/ Hung(ep[a]) \/ Hung(ep[b])
  \/ Agree(ep[a], ep[b], net[a][b], net[b][a], a, b)

PairsOK ==
  \A a, b \in room \cap Encrypting : a < b => Linked(a, b) /\ Agreed(a, b)

SInv == StatesOK /\ LettersOK /\ PairsOK

(* A step of e from s to t, after which q is under way to p and r from p,  *)
(* keeps the pair; odd says that it need not agree any more.               *)
Moves(s, t, x, q, r, q2, r2, e, p, odd) ==
  /\ e < p /\ Link(s, x, q, r, e, p) =>
       /\ Link(t, x, q2, r2, e, p)
       /\ Agree(s, x, q, r, e, p) /\ ~Hung(t) /\ ~odd => Agree(t, x, q2, r2, e, p)
  /\ p < e /\ Link(x, s, r, q, p, e) =>
       /\ Link(x, t, r2, q2, p, e)
       /\ Agree(x, s, r, q, p, e) /\ ~Hung(t) /\ ~odd => Agree(x, t, r2, q2, p, e)

(* e has put mail, one letter at most to each, into n.                     *)
Posted(n, n2, e, mail) ==
  /\ \A q \in Endpoint \ {e} : n2[q] = n[q]
  /\ \A p \in Endpoint : p \notin room \cap Encrypting => n2[e][p] = <<>>
  /\ \A p \in room \cap Encrypting :
       \/ mail[p] = <<>> /\ n2[e][p] = n[e][p]
       \/ \E m : mail[p] = <<m>> /\ Grown(n[e][p], n2[e][p], m)

(* n is what is under way, or a letter for e is not any more.              *)
Picked(n, e) ==
  \A q, w \in Endpoint :
    /\ n[q][w] = net[q][w] \/ Shrunk(net[q][w], n[q][w])
    /\ q \notin room \cup left \/ w # e => n[q][w] = net[q][w]

(* Each letter of the mail may be sent by e.                               *)
Suits(mail, e) == \A p \in Endpoint : \A m : mail[p] = <<m>> => Proper(m, e, p)

(* The pairs of e stay in order when it goes to t.                         *)
Follows(e, t) ==
  \A p \in room \cap Encrypting : p # e =>
    Moves(ep[e], t, ep[p], net[e][p], net[p][e], net'[e][p], net'[p][e], e, p,
          {e, p} \in orphan')

(* At most one letter to each.                                             *)
Single(mail) == \A p \in Endpoint : mail[p] = <<>> \/ \E m : mail[p] = <<m>>

(* What is sent in passing, and what may not.                              *)
Murmur(mail) ==
  \A p \in Endpoint : mail[p] = <<>> \/ \E m : mail[p] = <<m>> /\ Neutral(m) /\ m.type # "left"

LEMMA SameSteady ==
  ASSUME NEW s, NEW t, Same(s, t), AlikeCalls(s, t), NEW p \in Endpoint
  PROVE  Steady(s, t, p)
BY DEF Same, AlikeCalls, Steady

LEMMA GrowsOne ==
  ASSUME NEW q \in Seq(Message), NEW m \in Message
  PROVE  Grown(q, q \o <<m>>, m)
<1> DEFINE d == q \o <<m>>
           n == Len(q) + 1
<1>1. <<m>> \in Seq(Message) /\ Len(<<m>>) = 1 /\ <<m>>[1] = m
  OBVIOUS
<1>2. Len(q) \in Nat /\ DOMAIN q = 1..Len(q)
  OBVIOUS
<1>3. /\ d \in Seq(Message) /\ Len(d) = Len(q) + 1
      /\ \A i \in 1..Len(d) : d[i] = IF i <= Len(q) THEN q[i] ELSE <<m>>[i - Len(q)]
  BY <1>1, ConcatProperties
<1> HIDE DEF d
<1>4. DOMAIN d = 1..(Len(q) + 1)
  BY <1>3
<1>5. d[n] = m
  BY <1>1, <1>2, <1>3
<1>6. /\ n \in Nat \ {0} /\ DOMAIN d = DOMAIN q \cup {n}
      /\ \A i \in DOMAIN q : i \in 1..(n - 1) /\ d[i] = q[i]
  BY <1>2, <1>3, <1>4
<1>7. Grown(q, d, m)
  BY <1>5, <1>6 DEF Grown
<1> QED BY <1>7 DEF d

LEMMA GrowsNone == ASSUME NEW q \in Seq(Message) PROVE q \o <<>> = q
OBVIOUS

LEMMA TailShrinks ==
  ASSUME NEW q \in Seq(Message), q # <<>>
  PROVE  Shrunk(q, Tail(q)) /\ q[1] = Head(q)
<1> DEFINE d == Tail(q)
<1>1. /\ d \in Seq(Message) /\ Len(d) = Len(q) - 1 /\ \A i \in DOMAIN d : d[i] = q[i + 1]
      /\ Head(q) = q[1] /\ 1 \in DOMAIN q /\ Len(q) \in Nat \ {0}
  BY HeadTailProperties, EmptySeq
<1> HIDE DEF d
<1>2. DOMAIN q = 1..Len(q) /\ DOMAIN d = 1..(Len(q) - 1)
  BY <1>1
<1>3. /\ \A i \in DOMAIN d : i \in Nat \ {0} /\ i + 1 \in DOMAIN q
      /\ \A i \in DOMAIN q : i \in Nat \ {0} /\ (i = 1 \/ i - 1 \in DOMAIN d)
  BY <1>1, <1>2
<1>4. \A i \in DOMAIN q : i = 1 \/ q[i] = d[i - 1]
  <2> SUFFICES ASSUME NEW i \in DOMAIN q, i # 1 PROVE q[i] = d[i - 1]
    OBVIOUS
  <2>1. i - 1 \in DOMAIN d /\ (i - 1) + 1 = i
    BY <1>3
  <2> QED BY <1>1, <2>1
<1>5. Shrunk(q, d)
  BY <1>1, <1>3, <1>4 DEF Shrunk
<1> QED BY <1>1, <1>5 DEF d

LEMMA Posts ==
  ASSUME NEW n, n \in Nets, NEW e \in Endpoint, NEW mail \in [Endpoint -> Seq(Message)],
         Single(mail)
  PROVE  Posted(n, Send(n, e, mail), e, mail)
<1> DEFINE R == room \cap Encrypting
           u == [p \in Endpoint |-> IF p \in R THEN n[e][p] \o mail[p] ELSE <<>>]
           n2 == Send(n, e, mail)
<1>1. n[e] \in [Endpoint -> Seq(Message)]
  BY DEF Nets
<1>2. n2 = [n EXCEPT ![e] = u]
  BY DEF Send
<1>3. n2[e] = u /\ \A q \in Endpoint \ {e} : n2[q] = n[q]
  BY <1>2 DEF Nets
<1>4. ASSUME NEW p \in R, p \in Endpoint
      PROVE  \/ mail[p] = <<>> /\ u[p] = n[e][p]
             \/ \E m : mail[p] = <<m>> /\ Grown(n[e][p], u[p], m)
  <2>0. u[p] = n[e][p] \o mail[p] /\ n[e][p] \in Seq(Message) /\ mail[p] \in Seq(Message)
    BY <1>1, <1>4
  <2>1. CASE mail[p] = <<>>
    BY <2>0, <2>1, GrowsNone
  <2>2. CASE \E m : mail[p] = <<m>>
    <3>1. PICK m : mail[p] = <<m>>
      BY <2>2
    <3>2. m \in Message
      <4>1. mail[p][1] = m /\ 1 \in DOMAIN mail[p]
        BY <3>1
      <4> QED BY <2>0, <4>1, ElementOfSeq
    <3>3. Grown(n[e][p], n[e][p] \o <<m>>, m)
      BY <2>0, <3>2, GrowsOne
    <3> QED BY <2>0, <3>1, <3>3
  <2> QED BY <1>4, <2>1, <2>2 DEF Single
<1>5. \A p \in Endpoint : p \notin R => u[p] = <<>>
  OBVIOUS
<1>6. R \subseteq Endpoint
  BY ExchangeAssumption
<1> HIDE DEF u, n2
<1>7. Posted(n, n2, e, mail)
  BY <1>3, <1>4, <1>5, <1>6 DEF Posted
<1> QED BY <1>7 DEF n2

(* Without mail nothing is put.                                            *)
LEMMA PostsNothing ==
  ASSUME IInv, NEW e \in Endpoint
  PROVE  Posted(net, net, e, Nothing) /\ Single(Nothing) /\ Murmur(Nothing)
<1>1. \A p \in Endpoint : p \notin room \cap Encrypting => net[e][p] = <<>>
  BY DEF IInv, NetOK, NetGood
<1>2. \A p \in Endpoint : Nothing[p] = <<>>
  BY DEF Nothing
<1>3. room \cap Encrypting \subseteq Endpoint
  BY ExchangeAssumption
<1> QED BY <1>1, <1>2, <1>3 DEF Posted, Single, Murmur

(* A letter that is put is the last one, or nothing is put.                *)
LEMMA GrownProper ==
  ASSUME NEW q, NEW q2, NEW m, Grown(q, q2, m), NEW e, NEW p, Proper(m, e, p),
         \A i \in DOMAIN q : Proper(q[i], e, p)
  PROVE  \A i \in DOMAIN q2 : Proper(q2[i], e, p)
BY DEF Grown

(* e goes from one state to another, after it has taken a letter or not.   *)
LEMMA MoveHolds ==
  ASSUME IInv, SInv, NEW e \in room \cap Encrypting, NEW t, NEW mail, NEW n,
         ep' = [ep EXCEPT ![e] = t], room' = room, left' = left, orphan \subseteq orphan',
         CallsOK(t), AskedOK(t), Sees(t, e), Hung(ep[e]) => Hung(t),
         Picked(n, e), Posted(n, net', e, mail), Suits(mail, e), Follows(e, t)
  PROVE  SInv'
<1>1. /\ e \in Endpoint /\ Endpoint \subseteq Nat /\ room \cap Encrypting \subseteq Endpoint
      /\ ep = [q \in Endpoint |-> ep[q]]
  BY ExchangeAssumption DEF IInv, RoomOK
<1>2. ep'[e] = t /\ \A q \in Endpoint \ {e} : ep'[q] = ep[q]
  BY <1>1
<1>3. /\ \A q \in Endpoint \ {e} : net'[q] = n[q]
      /\ \A p \in Endpoint : p \notin room \cap Encrypting => net'[e][p] = <<>>
      /\ \A p \in room \cap Encrypting :
           \/ mail[p] = <<>> /\ net'[e][p] = n[e][p]
           \/ \E m : mail[p] = <<m>> /\ Grown(n[e][p], net'[e][p], m)
  BY DEF Posted
<1>4. StatesOK'
  <2>1. \A q \in Endpoint : CallsOK(ep[q]) /\ AskedOK(ep[q]) /\ Sees(ep[q], q)
    BY DEF SInv, StatesOK
  <2>2. ASSUME NEW q \in Endpoint
        PROVE  /\ CallsOK(ep'[q]) /\ AskedOK(ep'[q])
               /\ \A p \in ep'[q].asked : q < p
               /\ ep'[q].known \subseteq room \cup left /\ ep'[q].asked \subseteq room \cup left
               /\ \A p \in Endpoint : p \notin room \cup left =>
                    ep'[q].session[p] = NoSession /\ ep'[q].pending[p] = 0 /\ ep'[q].inits[p] = 0
    <3>1. CASE q = e
      BY <1>2, <3>1 DEF Sees
    <3>2. CASE q # e
      <4>1. ep'[q] = ep[q]
        BY <1>2, <3>2
      <4> QED BY <2>1, <4>1 DEF Sees
    <3> QED BY <3>1, <3>2
  <2> QED BY <2>2 DEF StatesOK, Sees
<1>5. LettersOK'
  <2>1. \A q, w \in Endpoint : \A i \in DOMAIN n[q][w] : Proper(n[q][w][i], q, w)
    BY DEF SInv, LettersOK, Shrunk, Picked
  <2>2. ASSUME NEW p \in Endpoint
        PROVE  \A i \in DOMAIN net'[e][p] : Proper(net'[e][p][i], e, p)
    <3>1. CASE p \notin room \cap Encrypting
      <4>1. net'[e][p] = <<>> /\ DOMAIN <<>> = {}
        BY <1>3, <3>1
      <4> QED BY <4>1
    <3>2. CASE p \in room \cap Encrypting
      <4>1. CASE net'[e][p] = n[e][p]
        BY <1>1, <2>1, <4>1
      <4>2. ASSUME NEW m, mail[p] = <<m>>, Grown(n[e][p], net'[e][p], m)
            PROVE  \A i \in DOMAIN net'[e][p] : Proper(net'[e][p][i], e, p)
        BY <1>1, <2>1, <4>2, GrownProper DEF Suits
      <4> QED BY <1>3, <3>2, <4>1, <4>2
    <3> QED BY <3>1, <3>2
  <2>3. \A q, w \in Endpoint : \A i \in DOMAIN net'[q][w] : Proper(net'[q][w][i], q, w)
    BY <1>3, <2>1, <2>2
  <2>4. \A q, w \in Endpoint : q \notin room \cup left => net'[q][w] = <<>>
    BY <1>1, <1>3 DEF SInv, LettersOK, Picked
  <2>5. \A m, q, w : Proper(m, q, w) => Proper(m, q, w)'
    BY DEF Proper
  <2> QED BY <2>3, <2>4, <2>5 DEF LettersOK, Proper
<1>6. ASSUME NEW p \in room \cap Encrypting, p # e
      PROVE  /\ e < p => (Linked(e, p) /\ Agreed(e, p))'
             /\ p < e => (Linked(p, e) /\ Agreed(p, e))'
  <2>1. /\ ep'[e] = t /\ ep'[p] = ep[p] /\ p \in Endpoint
        /\ {e, p} = {p, e}
        /\ Moves(ep[e], t, ep[p], net[e][p], net[p][e], net'[e][p], net'[p][e], e, p,
                 {e, p} \in orphan')
    BY <1>1, <1>2, <1>6 DEF Follows
  <2>2. CASE e < p
    <3>1. Linked(e, p) /\ Agreed(e, p)
      BY <1>6, <2>2 DEF SInv, PairsOK
    <3>2. Link(t, ep[p], net'[e][p], net'[p][e], e, p)
      BY <2>1, <2>2, <3>1 DEF Moves, Linked
    <3>3. \/ {e, p} \in orphan' \/ Hung(t) \/ Hung(ep[p])
          \/ Agree(t, ep[p], net'[e][p], net'[p][e], e, p)
      BY <2>1, <2>2, <3>1 DEF Moves, Linked, Agreed
    <3>4. ~(p < e)
      BY <1>1, <2>1, <2>2
    <3> QED BY <2>1, <3>2, <3>3, <3>4 DEF Linked, Agreed
  <2>3. CASE p < e
    <3>1. Linked(p, e) /\ Agreed(p, e)
      BY <1>6, <2>3 DEF SInv, PairsOK
    <3>2. Link(ep[p], t, net'[p][e], net'[e][p], p, e)
      BY <2>1, <2>3, <3>1 DEF Moves, Linked
    <3>3. \/ {p, e} \in orphan' \/ Hung(t) \/ Hung(ep[p])
          \/ Agree(ep[p], t, net'[p][e], net'[e][p], p, e)
      BY <2>1, <2>3, <3>1 DEF Moves, Linked, Agreed
    <3>4. ~(e < p)
      BY <1>1, <2>1, <2>3
    <3> QED BY <2>1, <3>2, <3>3, <3>4 DEF Linked, Agreed
  <2> QED BY <2>2, <2>3
<1>7. ASSUME NEW a \in room \cap Encrypting, NEW b \in room \cap Encrypting, a < b, a # e, b # e
      PROVE  (Linked(a, b) /\ Agreed(a, b))'
  <2>1. /\ ep'[a] = ep[a] /\ ep'[b] = ep[b] /\ net'[a][b] = net[a][b] /\ net'[b][a] = net[b][a]
        /\ a \in Endpoint /\ b \in Endpoint
    BY <1>1, <1>2, <1>3, <1>7 DEF Picked
  <2>2. Linked(a, b) /\ Agreed(a, b)
    BY <1>7 DEF SInv, PairsOK
  <2> QED BY <2>1, <2>2 DEF Linked, Agreed
<1>8. PairsOK'
  <2> SUFFICES ASSUME NEW a \in room \cap Encrypting, NEW b \in room \cap Encrypting, a < b
               PROVE  (Linked(a, b) /\ Agreed(a, b))'
    BY DEF PairsOK
  <2>1. a # b
    BY <1>1
  <2> QED BY <1>6, <1>7, <2>1
<1> QED BY <1>4, <1>5, <1>8 DEF SInv

(* To those nothing changes for, or who are sent something in passing.     *)
LEMMA MovesSteady ==
  ASSUME NEW s, NEW t, NEW x, NEW q, NEW r, NEW e, NEW p, NEW odd, Steady(s, t, p)
  PROVE  Moves(s, t, x, q, r, q, r, e, p, odd)
<1>1. Link(s, x, q, r, e, p) =>
        Link(t, x, q, r, e, p) /\ (Agree(s, x, q, r, e, p) => Agree(t, x, q, r, e, p))
  BY InviterStays
<1>2. Link(x, s, r, q, p, e) =>
        Link(x, t, r, q, p, e) /\ (Agree(x, s, r, q, p, e) => Agree(x, t, r, q, p, e))
  BY InvitedStays
<1> QED BY <1>1, <1>2 DEF Moves

LEMMA MovesMurmurs ==
  ASSUME NEW s, NEW t, NEW x, NEW q, NEW r, NEW q1, NEW q2, NEW r2, NEW e, NEW p, NEW odd, NEW m,
         Moves(s, t, x, q, r, q1, r2, e, p, odd), Grown(q1, q2, m), Neutral(m)
  PROVE  Moves(s, t, x, q, r, q2, r2, e, p, odd)
<1>1. Link(t, x, q1, r2, e, p) =>
        Link(t, x, q2, r2, e, p) /\ (Agree(t, x, q1, r2, e, p) => Agree(t, x, q2, r2, e, p))
  BY InviterMurmurs
<1>2. Link(x, t, r2, q1, p, e) =>
        Link(x, t, r2, q2, p, e) /\ (Agree(x, t, r2, q1, p, e) => Agree(x, t, r2, q2, p, e))
  BY InvitedMurmurs
<1> QED BY <1>1, <1>2 DEF Moves

LEMMA SameSees ==
  ASSUME NEW s, NEW t, NEW e, Sees(s, e), Same(s, t)
  PROVE  Sees(t, e)
BY DEF Sees, Same

LEMMA MurmurProper ==
  ASSUME NEW mail, Murmur(mail), NEW p \in Endpoint, NEW m, mail[p] = <<m>>
  PROVE  Neutral(m) /\ \A e : Proper(m, e, p)
<1>1. PICK k : mail[p] = <<k>> /\ Neutral(k) /\ k.type # "left"
  BY DEF Murmur
<1>2. k = m
  <2>1. <<k>>[1] = k /\ <<m>>[1] = m
    OBVIOUS
  <2> QED BY <1>1, <2>1
<1> QED BY <1>1, <1>2 DEF Proper, Neutral

(* A step of e that is no concern of the others, but for what it murmurs.  *)
LEMMA QuietHolds ==
  ASSUME IInv, SInv, NEW e \in room \cap Encrypting, NEW t,
         NEW mail \in [Endpoint -> Seq(Message)], Murmur(mail),
         ep' = [ep EXCEPT ![e] = t], room' = room, left' = left, orphan' = orphan,
         net' = net \/ net' = Send(net, e, mail),
         CallsOK(t), AskedOK(t), AlikeCalls(ep[e], t), Same(ep[e], t)
  PROVE  SInv'
<1>1. e \in Endpoint /\ room \cap Encrypting \subseteq Endpoint /\ net \in Nets
  BY ExchangeAssumption DEF IInv, NetOK, NetGood
<1>2. PICK mail2 : Murmur(mail2) /\ Posted(net, net', e, mail2)
  <2>1. CASE net' = net
    BY <1>1, <2>1, PostsNothing
  <2>2. CASE net' = Send(net, e, mail)
    <3>1. Single(mail)
      BY DEF Single, Murmur
    <3>2. Posted(net, Send(net, e, mail), e, mail)
      BY <1>1, <3>1, Posts
    <3> QED BY <2>2, <3>2
  <2> QED BY <2>1, <2>2
<1>3. ASSUME NEW p \in room \cap Encrypting, p # e
      PROVE  Moves(ep[e], t, ep[p], net[e][p], net[p][e], net'[e][p], net'[p][e], e, p,
                   {e, p} \in orphan')
  <2>1. p \in Endpoint /\ net'[p][e] = net[p][e]
    BY <1>1, <1>2, <1>3 DEF Posted
  <2>2. Steady(ep[e], t, p)
    BY <2>1, SameSteady
  <2>3. Moves(ep[e], t, ep[p], net[e][p], net[p][e], net[e][p], net[p][e], e, p,
              {e, p} \in orphan')
    BY <2>2, MovesSteady
  <2>4. CASE net'[e][p] = net[e][p]
    BY <2>1, <2>3, <2>4
  <2>5. ASSUME NEW m, mail2[p] = <<m>>, Grown(net[e][p], net'[e][p], m)
        PROVE  Moves(ep[e], t, ep[p], net[e][p], net[p][e], net'[e][p], net[p][e], e, p,
                     {e, p} \in orphan')
    <3>1. Neutral(m)
      BY <1>2, <2>1, <2>5, MurmurProper
    <3> QED BY <2>3, <2>5, <3>1, MovesMurmurs
  <2> QED BY <1>2, <1>3, <2>1, <2>4, <2>5 DEF Posted
<1>4. Suits(mail2, e) /\ Follows(e, t) /\ Picked(net, e)
  BY <1>2, <1>3, MurmurProper DEF Suits, Follows, Picked
<1>5. Sees(t, e) /\ (Hung(ep[e]) => Hung(t))
  <2>1. Sees(ep[e], e)
    BY <1>1 DEF SInv, StatesOK
  <2> QED BY <2>1, SameSees DEF AlikeCalls
<1> QED BY <1>2, <1>4, <1>5, MoveHolds

(* The next letter from p is taken.                                        *)
LEMMA Takes ==
  ASSUME IInv, NEW e \in Endpoint, NEW p \in Endpoint, net[p][e] # <<>>
  PROVE  LET n == [net EXCEPT ![p][e] = Tail(@)] IN
         /\ n \in Nets /\ n[p][e] = Tail(net[p][e])
         /\ \A q, w \in Endpoint : <<q, w>> # <<p, e>> => n[q][w] = net[q][w]
<1> DEFINE n == [net EXCEPT ![p][e] = Tail(@)]
<1>1. NetGood(net, room \cap Encrypting, left, ep)
  BY DEF IInv, NetOK
<1>2. /\ NetGood(n, room \cap Encrypting, left, ep) /\ n[p][e] = Tail(net[p][e])
      /\ \A q, w \in Endpoint : <<q, w>> # <<p, e>> => n[q][w] = net[q][w]
  BY <1>1, NetTakes
<1> QED BY <1>2 DEF NetGood

(* e takes a letter of p's, and may answer.                                *)
LEMMA DeliverHolds ==
  ASSUME IInv, SInv, NEW e \in Endpoint, NEW p \in Endpoint, net[p][e] # <<>>, NEW t,
         NEW mail \in [Endpoint -> Seq(Message)], Single(mail),
         \A q \in Endpoint : q # p => mail[q] = <<>>,
         \A m : mail[p] = <<m>> => Proper(m, e, p),
         Deliver(e, p, t, mail), orphan \subseteq orphan',
         CallsOK(t), AskedOK(t), Sees(t, e), Hung(ep[e]) => Hung(t),
         \A q \in Endpoint : q # p => Steady(ep[e], t, q),
         p \in room \cap Encrypting => \A q2, r2 :
           /\ Shrunk(net[p][e], r2)
           /\ \/ mail[p] = <<>> /\ q2 = net[e][p]
              \/ \E m : mail[p] = <<m>> /\ Grown(net[e][p], q2, m)
           => Moves(ep[e], t, ep[p], net[e][p], net[p][e], q2, r2, e, p, {e, p} \in orphan')
  PROVE  SInv'
<1> DEFINE n == [net EXCEPT ![p][e] = Tail(@)]
<1>1. e \in room \cap Encrypting /\ e # p /\ room \cap Encrypting \subseteq Endpoint
  BY PickedUp, ExchangeAssumption
<1>2. ep' = [ep EXCEPT ![e] = t] /\ net' = Send(n, e, mail) /\ room' = room /\ left' = left
  BY DEF Deliver
<1>3. net \in Nets /\ net[p][e] \in Seq(Message)
  BY DEF IInv, NetOK, NetGood, Nets
<1>4. /\ n \in Nets /\ n[p][e] = Tail(net[p][e])
      /\ \A q, w \in Endpoint : <<q, w>> # <<p, e>> => n[q][w] = net[q][w]
  BY Takes
<1> HIDE DEF n
<1>5. Shrunk(net[p][e], n[p][e])
  BY <1>3, <1>4, TailShrinks
<1>6. Posted(n, net', e, mail)
  BY <1>2, <1>4, Posts
<1>7. ASSUME NEW q \in Endpoint, NEW w \in Endpoint
      PROVE  /\ n[q][w] = net[q][w] \/ Shrunk(net[q][w], n[q][w])
             /\ w # e \/ q # p => n[q][w] = net[q][w]
  BY <1>4, <1>5
<1>8. p \in room \cup left
  BY DEF SInv, LettersOK
<1>9. ASSUME NEW q \in Endpoint, NEW m, mail[q] = <<m>>
      PROVE  Proper(m, e, q)
  <2>1. <<m>> # <<>>
    OBVIOUS
  <2> QED BY <1>9, <2>1
<1>10. ASSUME NEW q \in room \cap Encrypting, q # e
       PROVE  Moves(ep[e], t, ep[q], net[e][q], net[q][e], net'[e][q], net'[q][e], e, q,
                    {e, q} \in orphan')
  <2>1. /\ q \in Endpoint /\ net'[q][e] = n[q][e] /\ n[e][q] = net[e][q]
        /\ \/ mail[q] = <<>> /\ net'[e][q] = net[e][q]
           \/ \E m : mail[q] = <<m>> /\ Grown(net[e][q], net'[e][q], m)
    <3>1. q \in Endpoint /\ net'[q] = n[q] /\ n[e][q] = net[e][q]
      BY <1>1, <1>6, <1>7, <1>10 DEF Posted
    <3> QED BY <1>6, <1>10, <3>1 DEF Posted
  <2>2. CASE q = p
    BY <1>5, <1>10, <2>1, <2>2
  <2>3. CASE q # p
    <3>1. Steady(ep[e], t, q) /\ mail[q] = <<>>
      BY <2>1, <2>3
    <3>2. net'[e][q] = net[e][q] /\ net'[q][e] = net[q][e]
      <4>1. \A m : <<m>> # <<>>
        OBVIOUS
      <4> QED BY <1>7, <2>1, <2>3, <3>1, <4>1
    <3> QED BY <3>1, <3>2, MovesSteady
  <2> QED BY <2>2, <2>3
<1>11. Picked(n, e)
  BY <1>7, <1>8 DEF Picked
<1>12. Suits(mail, e) /\ Follows(e, t)
  BY <1>9, <1>10 DEF Suits, Follows
<1>13. /\ IInv /\ SInv /\ e \in room \cap Encrypting /\ orphan \subseteq orphan'
       /\ CallsOK(t) /\ AskedOK(t) /\ Sees(t, e) /\ (Hung(ep[e]) => Hung(t))
  BY <1>1
<1>14. ep' = [ep EXCEPT ![e] = t] /\ room' = room /\ left' = left
  BY <1>2
<1> QED BY ONLY <1>6, <1>11, <1>12, <1>13, <1>14, MoveHolds

(* The state s goes to t, of which the calls are where they were.          *)
Rests(s, t) ==
  /\ Same(s, t) /\ t.calls = s.calls /\ t.enabling = s.enabling /\ t.starting = s.starting
  /\ t.index = s.index /\ t.reqs = s.reqs

LEMMA RestsOn ==
  ASSUME NEW s, NEW t, NEW u, Rests(s, t), Rests(t, u)
  PROVE  Rests(s, u)
<1>1. \A p \in Endpoint : u.pending[p] \in {s.pending[p], 0}
  BY DEF Rests, Same
<1>2. u.session = s.session /\ u.inits = s.inits /\ u.asked = s.asked /\ u.known = s.known
  BY DEF Rests, Same
<1>3. u.enabled = s.enabled
  BY DEF Rests, Same
<1> QED BY <1>1, <1>2, <1>3 DEF Rests, Same

LEMMA UpdateKeySame ==
  ASSUME NEW s, NEW e \in Endpoint, Typed(s, e), NEW key \in Key \cup {NoKey}
  PROVE  LET t == UpdateKey(s, key) IN
         /\ Same(s, t) /\ t.calls = s.calls /\ t.enabling = s.enabling /\ t.starting = s.starting
         /\ t.index = s.index + 1
         /\ \A r \in t.reqs : r.kind = "key" => r \in s.reqs \/ r.n = s.index + 1
         /\ \A p \in HasSession(s) : \E r \in t.reqs : r.kind = "key" /\ r.n = s.index + 1
<1> DEFINE more == {[to |-> p, kind |-> "key", n |-> s.index + 1, by |-> 0] : p \in HasSession(s)}
           t == [s EXCEPT !.key = key, !.index = s.index + 1, !.raced = FALSE,
                          !.gone = IF s.material = NoKey THEN {} ELSE s.gone,
                          !.reqs = s.reqs \cup more]
<1>1. s \in StateWith(s.ctx, s.old) /\ s.pending \in [Endpoint -> Nat]
  BY TypedFields DEF Typed
<1>2. UpdateKey(s, key) = t
  BY DEF UpdateKey
<1>3. /\ \A r \in more : r.kind = "key" /\ r.n = s.index + 1
      /\ \A p \in HasSession(s) : \E r \in more : r.kind = "key" /\ r.n = s.index + 1
  <2>1. ASSUME NEW p
        PROVE  LET r == [to |-> p, kind |-> "key", n |-> s.index + 1, by |-> 0]
               IN  r.kind = "key" /\ r.n = s.index + 1
    OBVIOUS
  <2>2. \A p \in HasSession(s) : [to |-> p, kind |-> "key", n |-> s.index + 1, by |-> 0] \in more
    OBVIOUS
  <2> QED BY <2>1, <2>2
<1> HIDE DEF more
<1>4. /\ t.session = s.session /\ t.inits = s.inits /\ t.enabled = s.enabled
      /\ t.asked = s.asked /\ t.known = s.known /\ t.pending = s.pending
      /\ t.calls = s.calls /\ t.enabling = s.enabling /\ t.starting = s.starting
      /\ t.index = s.index + 1 /\ t.reqs = s.reqs \cup more
  BY <1>1 DEF StateWith
<1> HIDE DEF t
<1> QED BY <1>2, <1>3, <1>4 DEF Same

LEMMA UseKeyRests ==
  ASSUME NEW s, NEW e \in Endpoint, Typed(s, e)
  PROVE  Rests(s, UseKey(s, e))
<1> DEFINE ctx == [s.ctx EXCEPT ![e] = SetKeys(@, s.key, s.index)]
           old == Encode(s.ctx[e])
           t == [s EXCEPT !.ctx = ctx, !.old = old]
<1>1. s \in StateWith(s.ctx, s.old)
  BY DEF Typed
<1>2. UseKey(s, e) = t
  BY <1>1 DEF UseKey, StateWith
<1> HIDE DEF ctx, old
<1>3. Rests(s, t)
  BY <1>1 DEF StateWith, Rests, Same
<1> QED BY <1>2, <1>3

(* Whoever waits for an event does something that is no concern of the     *)
(* others.                                                                 *)
LEMMA IdleHolds ==
  ASSUME IInv, SInv, NEW e \in room \cap Encrypting, NEW t,
         NEW mail \in [Endpoint -> Seq(Message)], Murmur(mail),
         ep' = [ep EXCEPT ![e] = t], room' = room, left' = left, orphan' = orphan,
         net' = net \/ net' = Send(net, e, mail),
         Idle(ep[e]), EpOK(t, e), Same(ep[e], t),
         t.calls = ep[e].calls, t.enabling = ep[e].enabling, t.starting = ep[e].starting,
         ep[e].index <= t.index,
         \A r \in t.reqs : r.kind = "key" =>
           r \in ep[e].reqs \/ (ep[e].index < r.n /\ r.n <= t.index)
  PROVE  SInv'
<1> DEFINE s == ep[e]
<1>1. EpOK(s, e) /\ CallsOK(s) /\ e \in Endpoint
  BY DEF IInv, RoomOK, SInv, StatesOK
<1>2. /\ s.calls \in Seq(Call) /\ s.index \in Nat \cup {-1}
      /\ t.index \in Nat \cup {-1} /\ t.reqs \in SUBSET Request
  BY <1>1, TypedFields DEF EpOK
<1>3. CallsOK(t) /\ AlikeCalls(s, t)
  <2> HIDE DEF s
  <2>1. t.enabled = s.enabled
    BY DEF Same, s
  <2> QED BY <1>1, <1>2, <2>1, CallsStay DEF s
<1>4. AskedOK(t)
  BY IdleAsked DEF Same
<1> QED BY <1>3, <1>4, QuietHolds

LEMMA RestsHolds ==
  ASSUME IInv, SInv, NEW e \in room \cap Encrypting, NEW t, Rests(ep[e], t),
         ep' = [ep EXCEPT ![e] = t], room' = room, left' = left, orphan' = orphan, net' = net
  PROVE  SInv'
<1> DEFINE s == ep[e]
<1>1. EpOK(s, e) /\ CallsOK(s) /\ AskedOK(s) /\ e \in Endpoint
  BY DEF IInv, RoomOK, SInv, StatesOK
<1>2. /\ s.calls \in Seq(Call) /\ s.index \in Nat \cup {-1} /\ s.reqs \in SUBSET Request
  BY <1>1, TypedFields DEF EpOK
<1>3. /\ t.calls = s.calls /\ t.enabling = s.enabling /\ t.starting = s.starting
      /\ t.index = s.index /\ t.reqs = s.reqs /\ t.enabled = s.enabled
      /\ t.asked = s.asked /\ t.known = s.known /\ t.session = s.session /\ Same(s, t)
  BY DEF Rests, Same
<1> HIDE DEF s
<1>4. CallsOK(t) /\ AlikeCalls(s, t)
  <2>1. s.index <= t.index /\ \A r \in t.reqs : r.kind = "key" => r \in s.reqs
    BY <1>2, <1>3
  <2> QED BY <1>1, <1>2, <1>3, <2>1, CallsStay
<1>5. AskedOK(t)
  BY <1>1, <1>3, AskedStays
<1>6. Nothing \in [Endpoint -> Seq(Message)] /\ Murmur(Nothing)
  BY <1>1, NothingOK, PostsNothing DEF MailOK
<1> QED BY <1>3, <1>4, <1>5, <1>6, QuietHolds DEF s

-----------------------------------------------------------------------------
(***************************************************************************)
(* Steps that are no concern of the others.                                *)
(***************************************************************************)

LEMMA KeyMailMurmurs ==
  ASSUME NEW s, NEW e \in Endpoint, EpOK(s, e), s.index \in Nat
  PROVE  KeyMail(s) \in [Endpoint -> Seq(Message)] /\ Murmur(KeyMail(s))
<1>1. MailOK(KeyMail(s), e, s.index)
  BY KeyMailOK DEF EpOK
<1> DEFINE m(p) == KeyInfo("key-info", s, s.session[p], s.index)
<1>2. \A p : m(p).type = "key-info"
  BY DEF KeyInfo
<1>3. KeyMail(s) = [p \in Endpoint |-> IF p \in HasSession(s) THEN <<m(p)>> ELSE <<>>]
  BY DEF KeyMail, Mail
<1> HIDE DEF m
<1>4. \A p \in Endpoint : KeyMail(s)[p] = <<>> \/ KeyMail(s)[p] = <<m(p)>>
  BY <1>3
<1> QED BY <1>1, <1>2, <1>4 DEF MailOK, Murmur, Neutral

LEMMA Moved ==
  ASSUME IInv, IInv', NEW e \in Endpoint, NEW t, ep' = [ep EXCEPT ![e] = t]
  PROVE  EpOK(t, e) /\ EpOK(ep[e], e) /\ Typed(ep[e], e)
<1>1. EpOK(ep[e], e) /\ EpOK(ep'[e], e) /\ ep'[e] = t
  BY DEF IInv, RoomOK
<1> QED BY <1>1 DEF EpOK

LEMMA NoMail ==
  ASSUME IInv, NEW e \in Endpoint
  PROVE  Nothing \in [Endpoint -> Seq(Message)] /\ Murmur(Nothing) /\ Single(Nothing)
BY NothingOK, PostsNothing DEF MailOK

LEMMA RatchetKeyHolds ==
  ASSUME IInv, SInv, NEW e \in Endpoint, RatchetKey(e)
  PROVE  SInv'
<1> DEFINE s == ep[e]
           t == [s EXCEPT !.ratchet = FALSE, !.material = s.key]
<1>1. IInv' /\ e \in room \cap Encrypting /\ ep = [q \in Endpoint |-> ep[q]]
  <2>1. s # New
    BY DEF RatchetKey, New
  <2> QED BY <2>1, Present, RatchetKeyKeeps
<1>2. s \in StateWith(s.ctx, s.old)
  BY <1>1, Present DEF EpOK, Typed
<1>3. ep' = [ep EXCEPT ![e] = t] /\ room' = room /\ left' = left /\ orphan' = orphan /\ net' = net
  BY <1>1, <1>2 DEF RatchetKey, Unmoved, StateWith
<1>4. Rests(s, t)
  BY <1>2 DEF StateWith, Rests, Same
<1> HIDE DEF t
<1> QED BY <1>1, <1>3, <1>4, RestsHolds

LEMMA RatchetDoneHolds ==
  ASSUME IInv, SInv, NEW e \in Endpoint, RatchetDone(e)
  PROVE  SInv'
<1> DEFINE s == ep[e]
           raced == s.raced \/ s.key # s.material
           u == [s EXCEPT !.key = Ratchet(s.material), !.material = NoKey, !.raced = raced]
           t == UseKey(u, e)
<1>1. IInv' /\ e \in room \cap Encrypting /\ EpOK(s, e)
  <2>1. s # New
    BY DEF RatchetDone, New
  <2> QED BY <2>1, Present, RatchetDoneKeeps
<1>2. s \in StateWith(s.ctx, s.old) /\ s.material \in Key /\ s.raced \in BOOLEAN
  BY <1>1, TypedFields DEF EpOK, Typed, RatchetDone
<1>3. /\ ep' = [ep EXCEPT ![e] = t] /\ room' = room /\ left' = left /\ orphan' = orphan
      /\ net' = net
  BY DEF RatchetDone, Unmoved
<1>4. Ratchet(s.material) \in Key /\ raced \in BOOLEAN
  BY <1>2, RatchetOK
<1> HIDE DEF raced
<1>5. u \in StateWith(s.ctx, s.old) /\ u.ctx = s.ctx /\ u.old = s.old
  BY <1>2, <1>4 DEF StateWith
<1>6. Rests(s, u)
  BY <1>2 DEF StateWith, Rests, Same
<1> HIDE DEF u
<1>7. Typed(u, e)
  BY <1>1, <1>5 DEF EpOK, Typed
<1>8. Rests(s, t)
  BY <1>6, <1>7, UseKeyRests, RestsOn
<1> HIDE DEF t
<1> QED BY <1>1, <1>3, <1>8, RestsHolds

LEMMA RotatedHolds ==
  ASSUME IInv, SInv, NEW e \in Endpoint, NEW n, Rotated(e, n)
  PROVE  SInv'
<1> DEFINE s == ep[e]
           u == UseKey(s, e)
           t == [u EXCEPT !.rotations = u.rotations \ {n}]
<1>1. e \in room \cap Encrypting /\ Typed(s, e)
  <2>1. s # New
    BY DEF Rotated, New
  <2> QED BY <2>1, Present DEF EpOK
<1>2. /\ ep' = [ep EXCEPT ![e] = t] /\ room' = room /\ left' = left /\ orphan' = orphan
      /\ net' = net
  BY DEF Rotated, Unmoved
<1>3. Rests(s, u) /\ u \in StateWith(u.ctx, u.old)
  BY <1>1, UseKeyFields, UseKeyRests DEF Typed
<1> HIDE DEF u
<1>4. Rests(u, t)
  BY <1>3 DEF StateWith, Rests, Same
<1> HIDE DEF t
<1>5. Rests(s, t)
  BY <1>3, <1>4, RestsOn
<1> QED BY <1>1, <1>2, <1>5, RestsHolds

LEMMA FrameHolds ==
  ASSUME IInv, SInv, NEW e \in Endpoint, NEW p \in Endpoint, Frame(e, p)
  PROVE  SInv'
<1>1. PICK f : ep' = [ep EXCEPT ![e].ctx[p] = Decode(@, f)]
  BY DEF Frame
<1> DEFINE s == ep[e]
           ctx == [s.ctx EXCEPT ![p] = Decode(s.ctx[p], f)]
           t == [s EXCEPT !.ctx = ctx]
<1>2. EpOK(s, e) /\ e \in room \cap Encrypting /\ ep = [q \in Endpoint |-> ep[q]]
  <2>1. s # New
    BY DEF Frame, New
  <2> QED BY <2>1, Present
<1>3. s \in StateWith(s.ctx, s.old) /\ s.ctx = [q \in Endpoint |-> s.ctx[q]]
  BY <1>2, TypedFields DEF EpOK, Typed
<1>4. room' = room /\ left' = left /\ orphan' = orphan /\ net' = net
  BY DEF Frame, Unmoved
<1>5. ep' = [ep EXCEPT ![e] = t]
  BY <1>1, <1>2, <1>3 DEF StateWith
<1> HIDE DEF ctx
<1>6. Rests(s, t)
  BY <1>3 DEF StateWith, Rests, Same
<1> HIDE DEF t
<1> QED BY <1>2, <1>4, <1>5, <1>6, RestsHolds

LEMMA TimeoutHolds ==
  ASSUME IInv, SInv, NEW e \in Endpoint, NEW r \in ep[e].reqs, Timeout(e, r)
  PROVE  SInv'
<1> DEFINE s == ep[e]
           pending == [s.pending EXCEPT ![r.to] = IF r.kind = "init" THEN 0 ELSE s.pending[r.to]]
           t == [s EXCEPT !.reqs = s.reqs \ {r}, !.pending = pending]
<1>1. /\ IInv' /\ EpOK(s, e) /\ e \in room \cap Encrypting /\ ep = [q \in Endpoint |-> ep[q]]
      /\ Idle(s)
  <2>1. s # New /\ Idle(s)
    BY DEF Timeout, New
  <2> QED BY <2>1, Present, TimeoutKeeps
<1>2. /\ s \in StateWith(s.ctx, s.old) /\ s.pending \in [Endpoint -> Nat]
      /\ s.index \in Nat \cup {-1}
  BY <1>1, TypedFields DEF EpOK, Typed
<1>3. /\ ep' = [ep EXCEPT ![e] = t] /\ room' = room /\ left' = left /\ orphan' = orphan
      /\ net' = net
  BY <1>1, <1>2 DEF Timeout, Unmoved, StateWith
<1>4. \A p \in Endpoint : pending[p] \in {s.pending[p], 0}
  BY <1>2
<1> HIDE DEF pending
<1>5. /\ t.calls = s.calls /\ t.enabling = s.enabling /\ t.starting = s.starting
      /\ t.index = s.index /\ t.reqs = s.reqs \ {r} /\ Same(s, t)
  BY <1>2, <1>4 DEF StateWith, Same
<1> HIDE DEF t
<1>6. EpOK(t, e)
  BY <1>1, <1>3, Moved
<1>7. s.index <= t.index /\ \A x \in t.reqs : x \in s.reqs
  BY <1>2, <1>5
<1> HIDE DEF s
<1> QED BY <1>1, <1>3, <1>5, <1>6, <1>7, NoMail, IdleHolds DEF s

LEMMA RotateHolds ==
  ASSUME IInv, SInv, NEW e \in Endpoint, Rotate(e)
  PROVE  SInv'
<1> DEFINE s == ep[e]
           u == UpdateKey(s, FreshKey(s, e))
           t == [u EXCEPT !.rotate = FALSE, !.rotations = {s.index + 1}]
<1>1. IInv' /\ EpOK(s, e) /\ e \in room \cap Encrypting /\ Idle(s)
  <2>1. s # New /\ Idle(s)
    BY DEF Rotate, New
  <2> QED BY <2>1, Present, RotateKeeps
<1>2. Typed(s, e) /\ s.index \in Nat \cup {-1} /\ FreshKey(s, e) \in Key
  BY <1>1, TypedFields, FreshKeyOK DEF EpOK
<1>3. /\ ep' = [ep EXCEPT ![e] = t] /\ room' = room /\ left' = left /\ orphan' = orphan
      /\ net' = Send(net, e, KeyMail(t))
  BY DEF Rotate, Unmoved
<1>4. /\ Same(s, u) /\ u.calls = s.calls /\ u.enabling = s.enabling /\ u.starting = s.starting
      /\ u.index = s.index + 1 /\ u \in StateWith(u.ctx, u.old)
      /\ \A r \in u.reqs : r.kind = "key" => r \in s.reqs \/ r.n = s.index + 1
  BY <1>2, UpdateKeySame, UpdateKeyFields DEF Typed
<1> HIDE DEF u
<1>5. /\ Same(u, t) /\ t.calls = u.calls /\ t.enabling = u.enabling /\ t.starting = u.starting
      /\ t.index = u.index /\ t.reqs = u.reqs
  BY <1>4 DEF StateWith, Same
<1> HIDE DEF t
<1>6. Same(s, t)
  <2>1. t.enabled = s.enabled
    BY <1>4, <1>5 DEF Same
  <2>2. \A p \in Endpoint : t.pending[p] \in {s.pending[p], 0}
    BY <1>4, <1>5 DEF Same
  <2> QED BY <1>4, <1>5, <2>1, <2>2 DEF Same
<1>7. EpOK(t, e)
  BY <1>1, <1>3, Moved
<1>8. KeyMail(t) \in [Endpoint -> Seq(Message)] /\ Murmur(KeyMail(t))
  BY <1>2, <1>4, <1>5, <1>7, KeyMailMurmurs
<1>9. /\ t.calls = s.calls /\ t.enabling = s.enabling /\ t.starting = s.starting
      /\ s.index <= t.index
      /\ \A r \in t.reqs : r.kind = "key" => r \in s.reqs \/ (s.index < r.n /\ r.n <= t.index)
  BY <1>2, <1>4, <1>5
<1> HIDE DEF s
<1> QED BY <1>1, <1>3, <1>6, <1>7, <1>8, <1>9, IdleHolds DEF s

LEMMA SetEnabledHolds ==
  ASSUME IInv, SInv, NEW e \in Endpoint, NEW want \in BOOLEAN, SetEnabled(e, want)
  PROVE  SInv'
<1> DEFINE s == ep[e]
           c == [want |-> want, phase |-> "wait", on |-> s.enabling]
           t == [s EXCEPT !.calls = Append(s.calls, c)]
<1>1. EpOK(s, e) /\ e \in room \cap Encrypting /\ ep = [q \in Endpoint |-> ep[q]] /\ CallsOK(s)
  BY Present DEF SetEnabled, SInv, StatesOK
<1>2. /\ s \in StateWith(s.ctx, s.old) /\ s.enabling \in Nat /\ s.enabled \in BOOLEAN
      /\ Idle(s) /\ want # s.enabled
  BY <1>1, TypedFields DEF EpOK, Typed, SetEnabled
<1>3. c \in Call /\ c.phase = "wait" /\ c.on = s.enabling /\ (c.want <=> ~s.enabled)
  BY <1>2 DEF Call
<1>4. /\ ep' = [ep EXCEPT ![e] = t] /\ room' = room /\ left' = left /\ orphan' = orphan
      /\ net' = net
  BY <1>1 DEF SetEnabled, Unmoved
<1> HIDE DEF c
<1>5. /\ Same(s, t) /\ t.calls = Append(s.calls, c) /\ t.enabling = s.enabling
      /\ t.starting = s.starting /\ t.index = s.index /\ t.reqs = s.reqs /\ t.enabled = s.enabled
      /\ t.asked \subseteq s.asked
  BY <1>2 DEF StateWith, Same
<1> HIDE DEF t, s
<1>6. CallsOK(t) /\ AlikeCalls(s, t)
  BY <1>1, <1>2, <1>3, <1>5, CallWaits
<1>7. AskedOK(t)
  BY <1>2, <1>5, IdleAsked
<1> QED BY <1>1, <1>4, <1>5, <1>6, <1>7, NoMail, QuietHolds DEF s

LEMMA KeyMadeHolds ==
  ASSUME IInv, SInv, NEW e \in Endpoint, KeyMade(e)
  PROVE  SInv'
<1> DEFINE s == ep[e]
           i == s.starting
           u == UpdateKey(s, FreshKey(s, e))
           x == [want |-> TRUE, phase |-> "key", on |-> s.index + 1]
           t == [u EXCEPT !.starting = 0, !.calls[i] = x]
           c == [u.calls EXCEPT ![i] = x]
<1>1. IInv' /\ EpOK(s, e) /\ e \in room \cap Encrypting /\ CallsOK(s)
  <2>1. s # New
    BY DEF KeyMade, InitsSettled, New
  <2> QED BY <2>1, Present, KeyMadeKeeps DEF SInv, StatesOK
<1>2. /\ Typed(s, e) /\ s.index \in Nat \cup {-1} /\ FreshKey(s, e) \in Key
      /\ s.calls \in Seq(Call) /\ i # 0 /\ i \in DOMAIN s.calls
      /\ s.calls[i].want = TRUE
  <2>1. /\ Typed(s, e) /\ s.index \in Nat \cup {-1}
        /\ s.calls \in Seq(Call) /\ i # 0 /\ i \in DOMAIN s.calls
    BY <1>1, TypedFields DEF EpOK, KeyMade, InitsSettled
  <2>2. s.calls[i].want \in BOOLEAN /\ s.calls[i].want
    BY <1>1, <2>1, CallTypes DEF CallsOK
  <2> QED BY <2>1, <2>2, FreshKeyOK
<1>3. /\ ep' = [ep EXCEPT ![e] = t] /\ room' = room /\ left' = left /\ orphan' = orphan
      /\ net' = Send(net, e, KeyMail(t))
  BY DEF KeyMade, Unmoved
<1>4. /\ Same(s, u) /\ u.calls = s.calls /\ u.enabling = s.enabling
      /\ u.index = s.index + 1 /\ u \in StateWith(u.ctx, u.old)
      /\ \A r \in u.reqs : r.kind = "key" => r \in s.reqs \/ r.n = s.index + 1
      /\ \A p \in HasSession(s) : \E r \in u.reqs : r.kind = "key" /\ r.n = s.index + 1
  BY <1>2, UpdateKeySame, UpdateKeyFields, ZenonT(60) DEF Typed
<1> HIDE DEF u
<1>5. x \in Call /\ x.phase = "key" /\ x.want = TRUE /\ x.on = s.index + 1
  BY <1>2 DEF Call
<1> HIDE DEF x, i
<1>6. OnlyCall(s.calls, c, i) /\ c[i] = x
  <2>1. /\ c \in Seq(Call) /\ DOMAIN c = DOMAIN s.calls
        /\ \A j \in DOMAIN s.calls : c[j] = IF j = i THEN x ELSE s.calls[j]
    BY <1>2, <1>4, <1>5, OneCall
  <2> QED BY <1>2, <1>5, <2>1 DEF OnlyCall
<1>7. t = [u EXCEPT !.starting = 0, !.calls = c]
  BY <1>4 DEF StateWith
<1> HIDE DEF c
<1>8. /\ Same(u, t) /\ t.calls = c /\ t.enabling = u.enabling /\ t.starting = 0
      /\ t.index = u.index /\ t.reqs = u.reqs /\ t.enabled = u.enabled
      /\ t.known = u.known /\ t.session = u.session
  BY <1>4, <1>7 DEF StateWith, Same
<1> HIDE DEF t
<1>9. Same(s, t)
  <2>1. t.enabled = s.enabled
    BY <1>4, <1>8 DEF Same
  <2>2. \A p \in Endpoint : t.pending[p] \in {s.pending[p], 0}
    BY <1>4, <1>8 DEF Same
  <2> QED BY <1>4, <1>8, <2>1, <2>2 DEF Same
<1>10. EpOK(t, e)
  BY <1>1, <1>3, Moved
<1>11. KeyMail(t) \in [Endpoint -> Seq(Message)] /\ Murmur(KeyMail(t))
  BY <1>2, <1>4, <1>8, <1>10, KeyMailMurmurs
<1>12. CallsOK(t) /\ AlikeCalls(s, t) /\ AskedOK(t)
  <2>1. t.index \in Nat /\ s.index < t.index /\ t.index = s.index + 1
    BY <1>2, <1>4, <1>8
  <2>2. /\ OnlyCall(s.calls, t.calls, s.starting)
        /\ t.calls[s.starting].phase = "key" /\ t.calls[s.starting].on = t.index
    BY <1>5, <1>6, <1>8, <2>1 DEF i
  <2>3. t.enabled = s.enabled /\ t.known = s.known /\ t.session = s.session
    BY <1>9 DEF Same
  <2>4. t.reqs \in SUBSET Request
    BY <1>10, TypedFields DEF EpOK
  <2>5. /\ \A r \in t.reqs : r.kind = "key" => r \in s.reqs \/ r.n = t.index
        /\ \A p \in HasSession(s) : \E r \in t.reqs : r.kind = "key" /\ r.n = t.index
    BY <1>4, <1>8, <2>1
  <2>6. t.enabling = s.enabling /\ t.starting = 0 /\ s.starting # 0
    BY <1>2, <1>4, <1>8 DEF i
  <2> HIDE DEF s
  <2> QED BY <1>1, <2>1, <2>2, <2>3, <2>4, <2>5, <2>6, CallOpens
<1> HIDE DEF s
<1> QED BY <1>1, <1>3, <1>9, <1>11, <1>12, QuietHolds DEF s

-----------------------------------------------------------------------------
(***************************************************************************)
(* Calls that begin and end, and what presence asks for.                   *)
(***************************************************************************)

(* The link does not depend on what the inviter is at.                     *)
LEMMA InviterLinks ==
  ASSUME NEW s, NEW t, NEW q, NEW r, NEW a, NEW b, NEW u, Link(s, t, q, r, a, b),
         u.session[b] \in {s.session[b], NoSession}, u.inits[b] = s.inits[b],
         u.pending[b] = s.pending[b], b \in u.known <=> b \in s.known
  PROVE  Link(u, t, q, r, a, b)
<1>1. Ordered(u, q, r, a, b)
  BY DEF Link, Ordered
<1>2. Knows(u, t, q, r, a, b)
  BY DEF Link, Knows
<1> QED BY <1>1, <1>2 DEF Link

LEMMA SendSessionInitSame ==
  ASSUME NEW s, NEW e \in Endpoint, Typed(s, e), NEW P \in SUBSET Endpoint, NEW by \in Nat
  PROVE  LET t == SendSessionInit(s, P, by) IN
         /\ Typed(t, e) /\ t.session = s.session /\ t.asked = s.asked /\ t.known = s.known
         /\ t.enabled = s.enabled /\ t.enabling = s.enabling /\ t.starting = s.starting
         /\ t.calls = s.calls /\ t.index = s.index
         /\ s.reqs \subseteq t.reqs /\ \A r \in t.reqs : r.kind = "key" => r \in s.reqs
         /\ \A p \in Endpoint :
              /\ p \in P => t.inits[p] = s.inits[p] + 1 /\ t.pending[p] = s.inits[p] + 1
              /\ p \notin P => t.inits[p] = s.inits[p] /\ t.pending[p] = s.pending[p]
<1> DEFINE more == {[to |-> p, kind |-> "init", n |-> s.inits[p] + 1, by |-> by] : p \in P}
           inits == [p \in Endpoint |-> IF p \in P THEN s.inits[p] + 1 ELSE s.inits[p]]
           pending == [p \in Endpoint |-> IF p \in P THEN s.inits[p] + 1 ELSE s.pending[p]]
           t == [s EXCEPT !.inits = inits, !.pending = pending, !.reqs = s.reqs \cup more]
<1>1. s \in StateWith(s.ctx, s.old) /\ Typed(SendSessionInit(s, P, by), e)
  BY SendSessionInitFields DEF Typed
<1>2. SendSessionInit(s, P, by) = t
  BY DEF SendSessionInit
<1>3. \A r \in more : r.kind # "key"
  OBVIOUS
<1>4. \A p \in Endpoint :
        /\ p \in P => inits[p] = s.inits[p] + 1 /\ pending[p] = s.inits[p] + 1
        /\ p \notin P => inits[p] = s.inits[p] /\ pending[p] = s.pending[p]
  OBVIOUS
<1> HIDE DEF more, inits, pending
<1>5. /\ t.session = s.session /\ t.asked = s.asked /\ t.known = s.known
      /\ t.enabled = s.enabled /\ t.enabling = s.enabling /\ t.starting = s.starting
      /\ t.calls = s.calls /\ t.index = s.index /\ t.reqs = s.reqs \cup more
      /\ t.inits = inits /\ t.pending = pending
  BY <1>1 DEF StateWith
<1> HIDE DEF t
<1>6. s.reqs \subseteq t.reqs /\ \A r \in t.reqs : r.kind = "key" => r \in s.reqs
  BY <1>3, <1>5
<1> QED BY <1>1, <1>2, <1>4, <1>5, <1>6

(* Who is invited is sent a session-init, and nobody else anything.        *)
LEMMA InitMailGoes ==
  ASSUME NEW s, NEW e \in Endpoint, Typed(s, e), NEW P \in SUBSET Endpoint, e \notin P,
         \A p \in P : e < p
  PROVE  /\ InitMail(s, P) \in [Endpoint -> Seq(Message)] /\ Single(InitMail(s, P))
         /\ Suits(InitMail(s, P), e)
         /\ \A p \in Endpoint :
              /\ p \notin P => InitMail(s, P)[p] = <<>>
              /\ p \in P => InitMail(s, P)[p] # <<>>
              /\ \A m : InitMail(s, P)[p] = <<m>> =>
                   m.type = "session-init" /\ m.n = s.inits[p] + 1
<1> DEFINE k(p) == [type |-> "session-init", n |-> s.inits[p] + 1]
           mail == InitMail(s, P)
<1>1. mail \in [Endpoint -> Seq(Message)]
  BY InitMailOK DEF MailOK
<1>2. \A p \in Endpoint : mail[p] = IF p \in P THEN <<k(p)>> ELSE <<>>
  BY DEF InitMail, Mail
<1>3. \A p : k(p).type = "session-init" /\ k(p).n = s.inits[p] + 1
  OBVIOUS
<1> HIDE DEF k, mail
<1>4. ASSUME NEW p \in Endpoint, NEW m, mail[p] = <<m>>
      PROVE  p \in P /\ m.type = "session-init" /\ m.n = s.inits[p] + 1
  <2>1. <<m>> # <<>> /\ (mail[p])[1] = m
    BY <1>4
  <2>2. p \in P /\ mail[p] = <<k(p)>>
    BY <1>2, <1>4, <2>1
  <2>3. <<k(p)>>[1] = k(p)
    OBVIOUS
  <2> QED BY <1>3, <2>1, <2>2, <2>3
<1>5. Suits(mail, e)
  BY <1>4 DEF Suits, Proper
<1>6. Single(mail)
  BY <1>2 DEF Single
<1>7. \A p \in Endpoint : (p \notin P => mail[p] = <<>>) /\ (p \in P => mail[p] # <<>>)
  <2>1. \A p : <<k(p)>> # <<>>
    OBVIOUS
  <2> QED BY <1>2, <2>1
<1> QED BY <1>1, <1>4, <1>5, <1>6, <1>7 DEF mail

(* Those invited find the session-init last.                               *)
LEMMA InitMailPosted ==
  ASSUME NEW s, NEW e \in Endpoint, Typed(s, e), NEW P \in SUBSET Endpoint, e \notin P,
         \A p \in P : e < p, net \in Nets, net' = Send(net, e, InitMail(s, P))
  PROVE  /\ Posted(net, net', e, InitMail(s, P)) /\ Suits(InitMail(s, P), e)
         /\ \A p \in room \cap Encrypting :
              /\ p \notin P => net'[e][p] = net[e][p]
              /\ p \in P => \E m : /\ Grown(net[e][p], net'[e][p], m)
                                   /\ m.type = "session-init" /\ m.n = s.inits[p] + 1
<1> DEFINE mail == InitMail(s, P)
<1>1. /\ mail \in [Endpoint -> Seq(Message)] /\ Single(mail) /\ Suits(mail, e)
      /\ \A p \in Endpoint :
           /\ p \notin P => mail[p] = <<>>
           /\ p \in P => mail[p] # <<>>
           /\ \A m : mail[p] = <<m>> => m.type = "session-init" /\ m.n = s.inits[p] + 1
  BY InitMailGoes
<1> HIDE DEF mail
<1>2. Posted(net, net', e, mail)
  BY <1>1, Posts DEF mail
<1>3. room \cap Encrypting \subseteq Endpoint /\ \A m : <<m>> # <<>>
  BY ExchangeAssumption
<1>4. \A p \in room \cap Encrypting :
        /\ p \notin P => net'[e][p] = net[e][p]
        /\ p \in P => \E m : /\ Grown(net[e][p], net'[e][p], m)
                             /\ m.type = "session-init" /\ m.n = s.inits[p] + 1
  BY <1>1, <1>2, <1>3 DEF Posted
<1> QED BY <1>1, <1>2, <1>4 DEF mail

(* One call gets another phase.                                            *)
LEMMA OnlyPhase ==
  ASSUME NEW c \in Seq(Call), NEW i \in DOMAIN c,
         NEW ph \in {"wait", "init", "key", "done", "hung"}
  PROVE  /\ OnlyCall(c, [c EXCEPT ![i].phase = ph], i)
         /\ [c EXCEPT ![i].phase = ph][i].phase = ph
<1> DEFINE x == [c[i] EXCEPT !.phase = ph]
           d == [c EXCEPT ![i].phase = ph]
<1>1. c[i] \in Call
  BY ElementOfSeq
<1>2. x \in Call /\ x.phase = ph /\ x.want = c[i].want
  BY <1>1 DEF Call
<1>3. d = [c EXCEPT ![i] = x]
  OBVIOUS
<1> HIDE DEF x
<1>4. /\ d \in Seq(Call) /\ DOMAIN d = DOMAIN c
      /\ \A j \in DOMAIN c : d[j] = IF j = i THEN x ELSE c[j]
  BY <1>2, <1>3, OneCall
<1> HIDE DEF d
<1>5. OnlyCall(c, d, i) /\ d[i].phase = ph
  BY <1>2, <1>4 DEF OnlyCall
<1> QED BY <1>5 DEF d

(* The invited switches on, and its call hangs: the inviter may do without *)
(* what the others are told.                                               *)
LEMMA MovesHung ==
  ASSUME NEW s, NEW t, NEW x, NEW q, NEW r, NEW e, NEW p, NEW odd, Hung(t),
         t.session = s.session, t.inits = s.inits, t.pending = s.pending, t.known = s.known,
         ~Undone(s), SwitchesOn(t), SwitchesOff(t) <=> SwitchesOff(s)
  PROVE  Moves(s, t, x, q, r, q, r, e, p, odd)
<1>1. Link(s, x, q, r, e, p) => Link(t, x, q, r, e, p)
  BY InviterLinks
<1>2. Link(x, s, r, q, p, e) => Link(x, t, r, q, p, e)
  BY InvitedTurnsOn
<1> QED BY <1>1, <1>2 DEF Moves

(* Those not encrypting yet are invited, if they come after.               *)
LEMMA MovesInvited ==
  ASSUME NEW s, NEW t, NEW x, NEW q, NEW r, NEW q2, NEW e \in Nat, NEW p \in Nat, NEW odd, NEW P,
         e # p,
         t.session = s.session, t.asked = s.asked, t.known = s.known,
         ~Undone(s), ~Undone(t), SwitchesOn(t), SwitchesOff(t) <=> SwitchesOff(s),
         p \in P => /\ t.inits[p] = s.inits[p] + 1 /\ t.pending[p] = s.inits[p] + 1
                    /\ e < p /\ s.session[p] = NoSession /\ s.pending[p] = 0
                    /\ \E m : /\ Grown(q, q2, m)
                              /\ m.type = "session-init" /\ m.n = s.inits[p] + 1,
         p \notin P => /\ t.inits[p] = s.inits[p] /\ t.pending[p] = s.pending[p] /\ q2 = q
                       /\ e < p => s.session[p] # NoSession \/ s.pending[p] # 0 \/ p \notin s.known
  PROVE  Moves(s, t, x, q, r, q2, r, e, p, odd)
<1>1. CASE p \in P
  <2>1. PICK m : Grown(q, q2, m) /\ m.type = "session-init" /\ m.n = s.inits[p] + 1
    BY <1>1
  <2>2. Link(s, x, q, r, e, p) =>
          Link(t, x, q2, r, e, p) /\ (Agree(s, x, q, r, e, p) => Agree(t, x, q2, r, e, p))
    BY <1>1, <2>1, InviterInvites
  <2>3. ~(p < e)
    BY <1>1
  <2> QED BY <2>2, <2>3 DEF Moves
<1>2. CASE p \notin P
  <2>1. e < p => (Link(s, x, q, r, e, p) =>
          Link(t, x, q2, r, e, p) /\ (Agree(s, x, q, r, e, p) => Agree(t, x, q2, r, e, p)))
    BY <1>2, InviterNeedNot
  <2>2. Link(x, s, r, q, p, e) =>
          Link(x, t, r, q2, p, e) /\ (Agree(x, s, r, q, p, e) => Agree(x, t, r, q2, p, e))
    BY <1>2, InvitedTurnsOn
  <2> QED BY <2>1, <2>2 DEF Moves
<1> QED BY <1>1, <1>2

LEMMA TurnOnHangs ==
  ASSUME IInv, SInv, NEW e \in Endpoint, NEW i, TurnOn(e, i), ep[e].starting # 0
  PROVE  SInv'
<1> DEFINE s == ep[e]
           c == [s.calls EXCEPT ![i].phase = "hung"]
           t == [s EXCEPT !.enabling = i, !.enabled = TRUE, !.calls = c]
<1>1. IInv' /\ EpOK(s, e) /\ e \in room \cap Encrypting /\ CallsOK(s) /\ AskedOK(s) /\ Sees(s, e)
  <2>1. s # New
    BY DEF TurnOn, CanResume, New
  <2> QED BY <2>1, Present, TurnOnKeeps DEF SInv, StatesOK
<1>2. /\ CanResume(s, i) /\ i \in DOMAIN s.calls /\ i \in Nat \ {0} /\ s.calls \in Seq(Call)
      /\ s.starting # i /\ s.starting # 0 /\ s.starting \in DOMAIN s.calls
      /\ s.calls[s.starting].phase = "init" /\ s.calls[i].want /\ s.calls[i].want \in BOOLEAN
      /\ s.calls[s.starting].want
  BY <1>1, Resumed, CallTypes DEF TurnOn, EpOK, CallsOK
<1>3. s \in StateWith(s.ctx, s.old) /\ s.index \in Nat \cup {-1}
  BY <1>1, TypedFields DEF EpOK, Typed
<1>4. t = [[s EXCEPT !.enabling = i, !.enabled = TRUE] EXCEPT !.calls[i].phase = "hung"]
  BY <1>3 DEF StateWith
<1>5. /\ ep' = [ep EXCEPT ![e] = t] /\ net' = net
      /\ room' = room /\ left' = left /\ orphan' = orphan
  BY <1>3, <1>4 DEF TurnOn, Unmoved, StateWith
<1>6. OnlyCall(s.calls, c, i) /\ c[i].phase = "hung"
  BY <1>2, OnlyPhase
<1> HIDE DEF c
<1>7. /\ t.session = s.session /\ t.inits = s.inits /\ t.pending = s.pending
      /\ t.known = s.known /\ t.asked = s.asked /\ t.calls = c /\ t.enabling = i
      /\ t.enabled = TRUE /\ t.index = s.index /\ t.reqs = s.reqs /\ t.starting = s.starting
  BY <1>3 DEF StateWith
<1> HIDE DEF t, s
<1>8. /\ CallsOK(t) /\ Hung(t) /\ ~Undone(s) /\ (SwitchesOff(t) <=> SwitchesOff(s))
  <2>1. t.enabled <=> s.calls[i].want
    BY <1>2, <1>7
  <2>2. t.index \in Nat \cup {-1} /\ s.index <= t.index
    BY <1>3, <1>7
  <2>3. \A r \in t.reqs : r.kind = "key" => r \in s.reqs
    BY <1>7
  <2>4. /\ OnlyCall(s.calls, t.calls, i) /\ t.calls[i].phase = "hung"
        /\ t.enabling = i /\ t.starting = s.starting
    BY <1>6, <1>7
  <2> QED BY <1>1, <1>2, <2>1, <2>2, <2>3, <2>4, CallBegins
<1>9. SwitchesOn(t)
  BY <1>2, <1>6, <1>7 DEF SwitchesOn, OnlyCall
<1>10. AskedOK(t) /\ Sees(t, e)
  BY <1>1, <1>2, <1>7 DEF AskedOK, Sees
<1>11. Follows(e, t)
  BY <1>5, <1>7, <1>8, <1>9, MovesHung DEF Follows, s
<1>12. Posted(net, net', e, Nothing) /\ Suits(Nothing, e) /\ Picked(net, e)
  BY <1>5, PostsNothing, MurmurProper DEF Suits, Picked
<1> QED BY <1>1, <1>5, <1>8, <1>10, <1>11, <1>12, MoveHolds DEF s

LEMMA TurnOnInvites ==
  ASSUME IInv, SInv, NEW e \in Endpoint, NEW i, TurnOn(e, i), ep[e].starting = 0
  PROVE  SInv'
<1> DEFINE s0 == ep[e]
           s == [s0 EXCEPT !.enabling = i, !.enabled = TRUE]
           P == Invitable(s, {p \in s.known : e < p})
           v == SendSessionInit(s, P, i)
           c == [s0.calls EXCEPT ![i].phase = "init"]
           t == [v EXCEPT !.starting = i, !.calls = c]
<1>1. /\ IInv' /\ EpOK(s0, e) /\ e \in room \cap Encrypting
      /\ CallsOK(s0) /\ AskedOK(s0) /\ Sees(s0, e)
  <2>1. s0 # New
    BY DEF TurnOn, CanResume, New
  <2> QED BY <2>1, Present, TurnOnKeeps DEF SInv, StatesOK
<1>2. /\ CanResume(s0, i) /\ i \in DOMAIN s0.calls /\ i \in Nat \ {0} /\ s0.calls \in Seq(Call)
      /\ s0.starting = 0 /\ s0.calls[i].want /\ s0.calls[i].want \in BOOLEAN
  BY <1>1, Resumed, CallTypes DEF TurnOn
<1>3. /\ s0 \in StateWith(s0.ctx, s0.old) /\ s0.index \in Nat \cup {-1}
      /\ s0.known \in SUBSET Endpoint /\ net \in Nets
  BY <1>1, TypedFields DEF EpOK, Typed, IInv, NetOK, NetGood
<1>4. /\ s \in StateWith(s0.ctx, s0.old) /\ s.ctx = s0.ctx /\ s.old = s0.old
      /\ s.enabled = TRUE /\ s.enabling = i /\ s.calls = s0.calls /\ s.session = s0.session
      /\ s.known = s0.known /\ s.asked = s0.asked /\ s.starting = s0.starting
      /\ s.index = s0.index /\ s.reqs = s0.reqs /\ s.inits = s0.inits /\ s.pending = s0.pending
  BY <1>2, <1>3 DEF StateWith
<1>5. /\ ep' = [ep EXCEPT ![e] = [v EXCEPT !.starting = i, !.calls[i].phase = "init"]]
      /\ net' = Send(net, e, InitMail(s, P))
      /\ room' = room /\ left' = left /\ orphan' = orphan
  BY <1>2, <1>4 DEF TurnOn, Unmoved
<1> HIDE DEF s, s0
<1>6. Typed(s, e)
  BY <1>1, <1>4 DEF EpOK, Typed
<1>7. /\ P \in SUBSET Endpoint /\ e \notin P /\ (\A p \in P : e < p) /\ P \subseteq s.known
      /\ \A p \in P : s.session[p] = NoSession /\ s.pending[p] = 0
      /\ \A p \in Encrypting : p \notin P /\ e < p =>
           s.session[p] # NoSession \/ s.pending[p] # 0 \/ p \notin s.known
  BY <1>3, <1>4, ExchangeAssumption DEF Invitable
<1> HIDE DEF P
<1>8. /\ Typed(v, e) /\ v.session = s.session /\ v.asked = s.asked /\ v.known = s.known
      /\ v.enabled = s.enabled /\ v.enabling = s.enabling /\ v.starting = s.starting
      /\ v.calls = s.calls /\ v.index = s.index
      /\ s.reqs \subseteq v.reqs /\ \A r \in v.reqs : r.kind = "key" => r \in s.reqs
      /\ \A p \in Endpoint :
           /\ p \in P => v.inits[p] = s.inits[p] + 1 /\ v.pending[p] = s.inits[p] + 1
           /\ p \notin P => v.inits[p] = s.inits[p] /\ v.pending[p] = s.pending[p]
  <2>1. i \in Nat /\ P \in SUBSET Endpoint
    BY <1>2, <1>7
  <2> QED BY <1>6, <2>1, SendSessionInitSame, ZenonT(60)
<1> HIDE DEF v
<1>9. v \in StateWith(v.ctx, v.old)
  BY <1>8 DEF Typed
<1>10. ep' = [ep EXCEPT ![e] = t]
  BY <1>4, <1>5, <1>8, <1>9 DEF StateWith
<1>11. OnlyCall(s0.calls, c, i) /\ c[i].phase = "init"
  BY <1>2, OnlyPhase
<1> HIDE DEF c
<1>12. /\ t.session = v.session /\ t.inits = v.inits /\ t.pending = v.pending
       /\ t.known = v.known /\ t.asked = v.asked /\ t.calls = c /\ t.enabling = v.enabling
       /\ t.enabled = v.enabled /\ t.index = v.index /\ t.reqs = v.reqs /\ t.starting = i
  BY <1>9 DEF StateWith
<1> HIDE DEF t
<1>13. /\ CallsOK(t) /\ (Hung(s0) => Hung(t)) /\ ~Undone(s0) /\ ~Undone(t) /\ SwitchesOn(t)
       /\ (SwitchesOff(t) <=> SwitchesOff(s0))
  <2>1. t.enabled <=> s0.calls[i].want
    BY <1>2, <1>4, <1>8, <1>12
  <2>2. t.index \in Nat \cup {-1} /\ s0.index <= t.index
    BY <1>3, <1>4, <1>8, <1>12
  <2>3. \A r \in t.reqs : r.kind = "key" => r \in s0.reqs
    BY <1>4, <1>8, <1>12
  <2>4. /\ OnlyCall(s0.calls, t.calls, i) /\ t.calls[i].phase = "init"
        /\ t.enabling = i /\ t.starting = i
    BY <1>4, <1>8, <1>11, <1>12
  <2> QED BY <1>1, <1>2, <2>1, <2>2, <2>3, <2>4, CallBegins
<1>14. AskedOK(t)
  BY <1>2, <1>12 DEF AskedOK
<1>15. Sees(t, e)
  <2>1. ASSUME NEW p \in Endpoint, p \notin room \cup left
        PROVE  t.session[p] = NoSession /\ t.pending[p] = 0 /\ t.inits[p] = 0
    BY <1>1, <1>4, <1>7, <1>8, <1>12, <2>1 DEF Sees
  <2> QED BY <1>1, <1>4, <1>8, <1>12, <2>1 DEF Sees
<1>16. /\ Posted(net, net', e, InitMail(s, P)) /\ Suits(InitMail(s, P), e)
       /\ \A p \in room \cap Encrypting :
            /\ p \notin P => net'[e][p] = net[e][p]
            /\ p \in P => \E m : /\ Grown(net[e][p], net'[e][p], m)
                                 /\ m.type = "session-init" /\ m.n = s.inits[p] + 1
  BY <1>3, <1>5, <1>6, <1>7, InitMailPosted
<1>17. Follows(e, t)
  <2> SUFFICES ASSUME NEW p \in room \cap Encrypting, p # e
               PROVE  Moves(s0, t, ep[p], net[e][p], net[p][e], net'[e][p], net'[p][e], e, p,
                            {e, p} \in orphan')
    BY DEF Follows, s0
  <2>1. p \in Endpoint /\ p \in Nat /\ e \in Nat /\ p \in Encrypting
    BY ExchangeAssumption
  <2>2. net'[p][e] = net[p][e]
    BY <1>16, <2>1 DEF Posted
  <2>3. t.session = s0.session /\ t.asked = s0.asked /\ t.known = s0.known
    BY <1>4, <1>8, <1>12
  <2>4. p \in P => /\ t.inits[p] = s0.inits[p] + 1 /\ t.pending[p] = s0.inits[p] + 1
                   /\ e < p /\ s0.session[p] = NoSession /\ s0.pending[p] = 0
                   /\ \E m : /\ Grown(net[e][p], net'[e][p], m)
                             /\ m.type = "session-init" /\ m.n = s0.inits[p] + 1
    BY <1>4, <1>7, <1>8, <1>12, <1>16, <2>1
  <2>5. p \notin P => /\ t.inits[p] = s0.inits[p] /\ t.pending[p] = s0.pending[p]
                      /\ net'[e][p] = net[e][p]
                      /\ e < p => s0.session[p] # NoSession \/ s0.pending[p] # 0 \/ p \notin s0.known
    BY <1>4, <1>7, <1>8, <1>12, <1>16, <2>1
  <2>6. \A r : Moves(s0, t, ep[p], net[e][p], r, net'[e][p], r, e, p, {e, p} \in orphan')
    BY <1>13, <2>1, <2>3, <2>4, <2>5, MovesInvited
  <2> QED BY <2>2, <2>6
<1>18. Picked(net, e)
  BY DEF Picked
<1> QED BY <1>1, <1>5, <1>10, <1>13, <1>14, <1>15, <1>16, <1>17, <1>18, MoveHolds DEF s0

(* The sessions with all those known are freed.                            *)
LEMMA MovesFreed ==
  ASSUME NEW s, NEW t, NEW x, NEW q, NEW r, NEW e, NEW p, NEW odd,
         t.session[p] = IF p \in s.known THEN NoSession ELSE s.session[p],
         t.inits = s.inits, t.pending = s.pending, t.known = s.known, t.asked = s.asked,
         Undone(t), ~t.enabled, Hung(t) \/ s.session[p] = NoSession \/ p \notin s.asked \cap s.known
  PROVE  Moves(s, t, x, q, r, q, r, e, p, odd)
<1>1. ASSUME Link(s, x, q, r, e, p)
      PROVE  /\ Link(t, x, q, r, e, p)
             /\ Agree(s, x, q, r, e, p) /\ ~Hung(t) => Agree(t, x, q, r, e, p)
  <2>1. t.session[p] = NoSession /\ (s.session[p] # NoSession => p \in s.known)
    BY <1>1 DEF Link, Knows
  <2>2. Link(t, x, q, r, e, p)
    BY <1>1, <2>1, InviterLinks
  <2>3. CASE ~Hung(t)
    BY <1>1, <2>1, <2>3, InviterFrees
  <2> QED BY <2>2, <2>3
<1>2. ASSUME Link(x, s, r, q, p, e)
      PROVE  /\ Link(x, t, r, q, p, e)
             /\ Agree(x, s, r, q, p, e) => Agree(x, t, r, q, p, e)
  <2>1. t.session[p] = NoSession
    BY <1>2 DEF Link, Knows
  <2> QED BY <1>2, <2>1, InvitedFrees
<1> QED BY <1>1, <1>2 DEF Moves

(* Without sessions nobody is asked to confirm the key.                    *)
LEMMA UpdateKeyAlone ==
  ASSUME NEW s, NEW ctx, NEW old, s \in StateWith(ctx, old), NEW key, HasSession(s) = {}
  PROVE  UpdateKey(s, key) =
           [s EXCEPT !.key = key, !.index = s.index + 1, !.raced = FALSE,
                     !.gone = IF s.material = NoKey THEN {} ELSE s.gone]
<1> DEFINE more == {[to |-> p, kind |-> "key", n |-> s.index + 1, by |-> 0] : p \in HasSession(s)}
<1>1. UpdateKey(s, key) = [s EXCEPT !.key = key, !.index = s.index + 1, !.raced = FALSE,
                                    !.gone = IF s.material = NoKey THEN {} ELSE s.gone,
                                    !.reqs = s.reqs \cup more]
  BY DEF UpdateKey
<1>2. s.reqs \cup more = s.reqs
  OBVIOUS
<1> HIDE DEF more
<1> QED BY <1>1, <1>2 DEF StateWith

LEMMA TurnOffHolds ==
  ASSUME IInv, SInv, NEW e \in Endpoint, NEW i, TurnOff(e, i)
  PROVE  SInv'
<1> DEFINE s0 == ep[e]
           session == [p \in Endpoint |-> IF p \in s0.known THEN NoSession ELSE s0.session[p]]
           ctx == [p \in Endpoint |-> NewContext]
           s == [s0 EXCEPT !.session = session, !.enabling = i, !.enabled = FALSE, !.ctx = ctx]
           x == [want |-> FALSE, phase |-> "key", on |-> s0.index + 1]
           c == [s0.calls EXCEPT ![i] = x]
           gone == IF s0.material = NoKey THEN {} ELSE s0.gone
           t == [s EXCEPT !.key = NoKey, !.index = s0.index + 1, !.raced = FALSE, !.gone = gone,
                          !.calls = c]
<1>1. /\ IInv' /\ EpOK(s0, e) /\ e \in room \cap Encrypting
      /\ CallsOK(s0) /\ AskedOK(s0) /\ Sees(s0, e)
  <2>1. s0 # New
    BY DEF TurnOff, CanResume, New
  <2> QED BY <2>1, Present, TurnOffKeeps DEF SInv, StatesOK
<1>2. /\ CanResume(s0, i) /\ i \in DOMAIN s0.calls /\ i \in Nat \ {0} /\ s0.calls \in Seq(Call)
      /\ s0.calls[i].want = FALSE
  <2>1. /\ CanResume(s0, i) /\ i \in DOMAIN s0.calls /\ i \in Nat \ {0} /\ s0.calls \in Seq(Call)
        /\ ~s0.calls[i].want
    BY <1>1, Resumed DEF TurnOff
  <2>2. s0.calls[i].want \in BOOLEAN
    BY <2>1, CallTypes
  <2> QED BY <2>1, <2>2
<1>3. /\ s0 \in StateWith(s0.ctx, s0.old) /\ s0.index \in Nat \cup {-1}
      /\ s0.known \in SUBSET Endpoint /\ s0.session \in [Endpoint -> Session \cup {NoSession}]
  BY <1>1, TypedFields DEF EpOK, Typed
<1>4. ep' = [ep EXCEPT ![e] = t]
  <2>1. [ClearSession(s0, s0.known) EXCEPT !.enabling = i, !.enabled = FALSE, !.ctx = ctx] = s
    BY <1>3 DEF ClearSession, StateWith
  <2>2. /\ s.known = s0.known /\ s.session = session /\ s.index = s0.index
        /\ s.calls = s0.calls /\ s.material = s0.material /\ s.gone = s0.gone
    BY <1>3 DEF StateWith
  <2>3. HasSession(s) = {}
    BY <1>3, <2>2 DEF HasSession
  <2>4. session \in [Endpoint -> Session \cup {NoSession}]
    BY <1>3
  <2>5. UpdateKey(s, NoKey) =
          [s EXCEPT !.key = NoKey, !.index = s0.index + 1, !.raced = FALSE, !.gone = gone]
    <3> HIDE DEF session
    <3>1. PICK o : s \in StateWith(ctx, o)
      BY <1>2, <1>3, <2>4, ZenonT(60) DEF StateWith
    <3>2. UpdateKey(s, NoKey) =
            [s EXCEPT !.key = NoKey, !.index = s.index + 1, !.raced = FALSE,
                      !.gone = IF s.material = NoKey THEN {} ELSE s.gone]
      <4> HIDE DEF s, ctx
      <4> QED BY <2>3, <3>1, UpdateKeyAlone
    <3> QED BY <2>2, <3>2
  <2> HIDE DEF session, ctx
  <2>6. [UpdateKey(s, NoKey) EXCEPT
           !.calls[i] = [want |-> FALSE, phase |-> "key", on |-> s.index + 1]] = t
    BY <1>3, <2>2, <2>5 DEF StateWith
  <2> QED BY <2>1, <2>6 DEF TurnOff, ctx
<1>5. net' = net /\ room' = room /\ left' = left /\ orphan' = orphan
  BY DEF TurnOff
<1>6. x \in Call /\ x.phase = "key" /\ x.want = FALSE /\ x.on = s0.index + 1
  BY <1>3 DEF Call
<1>7. \A p \in Endpoint : session[p] = IF p \in s0.known THEN NoSession ELSE s0.session[p]
  OBVIOUS
<1> HIDE DEF x, session, ctx
<1>8. OnlyCall(s0.calls, c, i) /\ c[i] = x
  <2>1. /\ c \in Seq(Call) /\ DOMAIN c = DOMAIN s0.calls
        /\ \A j \in DOMAIN s0.calls : c[j] = IF j = i THEN x ELSE s0.calls[j]
    BY <1>2, <1>6, OneCall
  <2> QED BY <1>2, <1>6, <2>1 DEF OnlyCall
<1> HIDE DEF c
<1>9. /\ t.session = session /\ t.inits = s0.inits /\ t.pending = s0.pending
      /\ t.known = s0.known /\ t.asked = s0.asked /\ t.calls = c /\ t.enabling = i
      /\ t.enabled = FALSE /\ t.index = s0.index + 1 /\ t.reqs = s0.reqs
      /\ t.starting = s0.starting
  BY <1>3 DEF StateWith
<1> HIDE DEF t, s0
<1>10. /\ CallsOK(t) /\ (Hung(s0) => Hung(t)) /\ Undone(t) /\ (s0.starting = 0 \/ Hung(s0))
  <2>1. t.enabled <=> s0.calls[i].want
    BY <1>2, <1>9
  <2>2. t.index \in Nat \cup {-1} /\ s0.index <= t.index /\ s0.index < t.index
    BY <1>3, <1>9
  <2>3. \A r \in t.reqs : r.kind = "key" => r \in s0.reqs
    BY <1>9
  <2>4. /\ OnlyCall(s0.calls, t.calls, i) /\ t.calls[i].phase = "key" /\ t.calls[i].on = t.index
        /\ t.enabling = i /\ t.starting = s0.starting
    BY <1>6, <1>8, <1>9
  <2>5. ~s0.calls[i].want
    BY <1>2
  <2> QED BY <1>1, <1>2, <2>1, <2>2, <2>3, <2>4, <2>5, CallBegins
<1>11. AskedOK(t)
  BY <1>1, <1>3, <1>7, <1>9 DEF AskedOK
<1>12. Sees(t, e)
  BY <1>1, <1>7, <1>9 DEF Sees
<1>13. ASSUME ~Hung(s0), NEW p \in s0.asked \cap s0.known
       PROVE  s0.session[p] = NoSession
  <2>1. ~s0.calls[i].want
    BY <1>2
  <2> QED BY <1>1, <1>2, <1>10, <1>13, <2>1 DEF AskedOK, Safe
<1>14. Follows(e, t)
  <2> SUFFICES ASSUME NEW p \in room \cap Encrypting, p # e
               PROVE  Moves(s0, t, ep[p], net[e][p], net[p][e], net[e][p], net[p][e], e, p,
                            {e, p} \in orphan')
    BY <1>5 DEF Follows, s0
  <2>1. p \in Endpoint
    BY ExchangeAssumption
  <2>2. t.session[p] = IF p \in s0.known THEN NoSession ELSE s0.session[p]
    BY <1>7, <1>9, <2>1
  <2>3. Hung(t) \/ s0.session[p] = NoSession \/ p \notin s0.asked \cap s0.known
    BY <1>10, <1>13
  <2>4. ~t.enabled
    BY <1>9
  <2> QED BY <1>9, <1>10, <2>2, <2>3, <2>4, MovesFreed
<1>15. Posted(net, net', e, Nothing) /\ Suits(Nothing, e) /\ Picked(net, e)
  BY <1>5, PostsNothing, MurmurProper DEF Suits, Picked
<1> QED BY <1>1, <1>4, <1>5, <1>10, <1>11, <1>12, <1>14, <1>15, MoveHolds DEF s0

(* The others are told.                                                    *)
LEMMA MovesSaid ==
  ASSUME NEW s, NEW t, NEW x, NEW q, NEW r, NEW q2, NEW e, NEW p, NEW odd, NEW m, NEW want,
         Grown(q, q2, m), want \/ ~want,
         t.session = s.session, t.inits = s.inits, t.pending = s.pending, t.known = s.known,
         t.asked = s.asked, t.enabled = s.enabled, SwitchesOff(t) => SwitchesOff(s),
         want => m.type = "on" /\ (Undone(t) <=> Undone(s)),
         ~want => m.type = "off" /\ SwitchesOff(s) /\ (SwitchesOn(t) <=> SwitchesOn(s)),
         Undone(s) => ~s.enabled
  PROVE  Moves(s, t, x, q, r, q2, r, e, p, odd)
<1>1. Link(s, x, q, r, e, p) =>
        Link(t, x, q2, r, e, p) /\ (Agree(s, x, q, r, e, p) => Agree(t, x, q2, r, e, p))
  <2>1. CASE want
    BY <2>1, InviterSaysOn
  <2>2. CASE ~want
    BY <2>2, InviterSaysOff
  <2> QED BY <2>1, <2>2
<1>2. Link(x, s, r, q, p, e) =>
        Link(x, t, r, q2, p, e) /\ (Agree(x, s, r, q, p, e) => Agree(x, t, r, q2, p, e))
  <2>1. CASE want
    BY <2>1, InvitedSaysOn
  <2>2. CASE ~want
    BY <2>2, InvitedSaysOff
  <2> QED BY <2>1, <2>2
<1> QED BY <1>1, <1>2 DEF Moves

(* A letter of this type, and nothing else, to each of R.                  *)
Plain(mail, R, type) ==
  mail = [p \in Endpoint |-> IF p \in R THEN <<[type |-> type, n |-> 0]>> ELSE <<>>]

LEMMA PlainMail ==
  ASSUME NEW e \in Endpoint, NEW type \in {"joined", "on", "off"}, NEW R, NEW mail,
         Plain(mail, R, type)
  PROVE  /\ mail \in [Endpoint -> Seq(Message)] /\ Single(mail) /\ Suits(mail, e)
         /\ \A p \in Endpoint :
              /\ p \notin R => mail[p] = <<>>
              /\ p \in R => \E m : mail[p] = <<m>> /\ m.type = type
<1> DEFINE m == [type |-> type, n |-> 0]
<1>1. m \in Message /\ m.type = type
  BY DEF Message
<1>2. mail = [p \in Endpoint |-> IF p \in R THEN <<m>> ELSE <<>>]
  BY DEF Plain
<1> HIDE DEF m
<1>3. <<m>> \in Seq(Message) /\ <<>> \in Seq(Message) /\ <<m>>[1] = m /\ <<m>> # <<>>
  BY <1>1
<1>4. \A p \in Endpoint : mail[p] = IF p \in R THEN <<m>> ELSE <<>>
  BY <1>2
<1>5. mail \in [Endpoint -> Seq(Message)]
  BY <1>2, <1>3
<1>6. Single(mail)
  BY <1>4 DEF Single
<1>7. Suits(mail, e)
  <2> SUFFICES ASSUME NEW p \in Endpoint, NEW k, mail[p] = <<k>>
               PROVE  Proper(k, e, p)
    BY DEF Suits
  <2>1. <<k>>[1] = k /\ <<k>> # <<>>
    OBVIOUS
  <2>2. k = m
    BY <1>3, <1>4, <2>1
  <2> QED BY <1>1, <2>2 DEF Proper
<1> QED BY <1>1, <1>4, <1>5, <1>6, <1>7

LEMMA SwitchedHolds ==
  ASSUME IInv, SInv, NEW e \in Endpoint, NEW i, Switched(e, i)
  PROVE  SInv'
<1> DEFINE s == ep[e]
           want == s.calls[i].want
           type == IF want THEN "on" ELSE "off"
           mail == Mail(room \ {e}, LAMBDA p : [type |-> type, n |-> 0])
           u == UseKey(s, e)
           c == [s.calls EXCEPT ![i].phase = "done"]
           t == [u EXCEPT !.calls = c]
<1>1. KeySettled(s, i) /\ i \in DOMAIN s.calls /\ \A j \in DOMAIN s.calls : ~CanResume(s, j)
  BY DEF Switched, KeySettled
<1>2. /\ IInv' /\ EpOK(s, e) /\ e \in room \cap Encrypting
      /\ CallsOK(s) /\ AskedOK(s) /\ Sees(s, e)
  <2>1. DOMAIN New.calls = {}
    BY DEF New
  <2>2. s # New
    BY <1>1, <2>1
  <2> QED BY <2>2, Present, SwitchedKeeps DEF SInv, StatesOK
<1>3. Typed(s, e) /\ s.calls \in Seq(Call) /\ net \in Nets
  BY <1>2, TypedFields DEF EpOK, IInv, NetOK, NetGood
<1>4. want \in BOOLEAN
  BY <1>1, <1>3, CallTypes
<1>5. /\ ep' = [ep EXCEPT ![e] = [u EXCEPT !.calls[i].phase = "done"]]
      /\ room' = room /\ left' = left /\ orphan' = orphan /\ net' = Send(net, e, mail)
  BY DEF Switched, Unmoved
<1>6. type \in {"joined", "on", "off"} /\ (want => type = "on") /\ (~want => type = "off")
  OBVIOUS
<1> HIDE DEF type
<1>7. /\ mail \in [Endpoint -> Seq(Message)] /\ Single(mail) /\ Suits(mail, e)
      /\ \A p \in Endpoint : p \in room \ {e} => \E m : mail[p] = <<m>> /\ m.type = type
  <2>1. Plain(mail, room \ {e}, type)
    BY DEF Mail, Plain
  <2> HIDE DEF mail
  <2> QED BY <1>6, <2>1, PlainMail
<1> HIDE DEF mail
<1>8. Rests(s, u) /\ u \in StateWith(u.ctx, u.old)
  BY <1>3, UseKeyRests, UseKeyFields DEF Typed
<1>9. u.pending = s.pending
  BY DEF UseKey
<1> HIDE DEF u
<1>10. ep' = [ep EXCEPT ![e] = t]
  BY <1>5, <1>8 DEF StateWith, Rests
<1>11. OnlyCall(s.calls, c, i) /\ c[i].phase = "done"
  BY <1>1, <1>3, OnlyPhase
<1> HIDE DEF c
<1>12. /\ t.session = u.session /\ t.inits = u.inits /\ t.pending = u.pending
       /\ t.known = u.known /\ t.asked = u.asked /\ t.calls = c /\ t.enabling = u.enabling
       /\ t.enabled = u.enabled /\ t.index = u.index /\ t.reqs = u.reqs
       /\ t.starting = u.starting
  BY <1>8 DEF StateWith
<1>13. t.enabled = s.enabled
  BY <1>8, <1>12 DEF Rests, Same
<1>14. /\ t.session = s.session /\ t.inits = s.inits /\ t.pending = s.pending
       /\ t.known = s.known /\ t.asked = s.asked /\ t.calls = c /\ t.enabling = s.enabling
       /\ t.index = s.index /\ t.reqs = s.reqs /\ t.starting = s.starting
  BY <1>8, <1>9, <1>12 DEF Rests, Same
<1> HIDE DEF t, s, want
<1>15. OnlyCall(s.calls, t.calls, i) /\ t.calls[i].phase = "done"
  BY <1>11, <1>14
<1>16. /\ CallsOK(t) /\ AskedOK(t) /\ (Hung(t) <=> Hung(s))
       /\ (SwitchesOff(t) => SwitchesOff(s))
       /\ want => (Undone(t) <=> Undone(s))
       /\ ~want => SwitchesOff(s) /\ (SwitchesOn(t) <=> SwitchesOn(s))
       /\ Undone(s) => ~s.enabled
  <2> USE DEF want
  <2> QED BY <1>1, <1>2, <1>13, <1>14, <1>15, CallEnds
<1>17. Sees(t, e)
  BY <1>2, <1>14 DEF Sees
<1>18. Posted(net, net', e, mail)
  BY <1>3, <1>5, <1>7, Posts
<1>19. Follows(e, t)
  <2> SUFFICES ASSUME NEW p \in room \cap Encrypting, p # e
               PROVE  Moves(s, t, ep[p], net[e][p], net[p][e], net'[e][p], net'[p][e], e, p,
                            {e, p} \in orphan')
    BY DEF Follows, s
  <2>1. p \in Endpoint
    BY ExchangeAssumption
  <2>2. net'[p][e] = net[p][e]
    BY <1>18, <2>1 DEF Posted
  <2>3. PICK m : mail[p] = <<m>> /\ m.type = type
    BY <1>7, <2>1
  <2>4. Grown(net[e][p], net'[e][p], m)
    <3>1. <<m>> # <<>> /\ <<m>>[1] = m /\ \A k : <<k>>[1] = k
      OBVIOUS
    <3>2. mail[p] = <<>> \/ \E k : mail[p] = <<k>> /\ Grown(net[e][p], net'[e][p], k)
      BY <1>18 DEF Posted
    <3> QED BY <2>3, <3>1, <3>2
  <2>5. want \/ ~want
    BY <1>4
  <2>6. \A r : Moves(s, t, ep[p], net[e][p], r, net'[e][p], r, e, p, {e, p} \in orphan')
    BY <1>6, <1>13, <1>14, <1>16, <2>3, <2>4, <2>5, MovesSaid
  <2> QED BY <2>2, <2>6
<1>20. Picked(net, e)
  BY DEF Picked
<1> QED BY <1>2, <1>5, <1>7, <1>10, <1>16, <1>17, <1>18, <1>19, <1>20, MoveHolds DEF s

LEMMA InviteAskedHolds ==
  ASSUME IInv, SInv, NEW e \in Endpoint, NEW p \in Endpoint, InviteAsked(e, p)
  PROVE  SInv'
<1> DEFINE s0 == ep[e]
           s == [s0 EXCEPT !.asked = s0.asked \ {p}]
           P == Invitable(s, {p})
           t == SendSessionInit(s, P, 0)
<1>1. /\ IInv' /\ EpOK(s0, e) /\ e \in room \cap Encrypting
      /\ CallsOK(s0) /\ AskedOK(s0) /\ Sees(s0, e)
  <2>1. s0 # New
    BY DEF InviteAsked, New
  <2> QED BY <2>1, Present, InviteAskedKeeps DEF SInv, StatesOK
<1>2. /\ s0 \in StateWith(s0.ctx, s0.old) /\ s0.asked \in SUBSET Endpoint /\ p \in s0.asked
      /\ s0.calls \in Seq(Call) /\ s0.index \in Nat \cup {-1} /\ net \in Nets
  BY <1>1, TypedFields DEF EpOK, Typed, InviteAsked, IInv, NetOK, NetGood
<1>3. /\ ep' = [ep EXCEPT ![e] = t] /\ room' = room /\ left' = left /\ orphan' = orphan
      /\ net' = Send(net, e, InitMail(s, P))
  BY DEF InviteAsked, Unmoved
<1> HIDE DEF s0
<1>4. /\ s \in StateWith(s0.ctx, s0.old) /\ s.ctx = s0.ctx /\ s.old = s0.old
      /\ s.asked = s0.asked \ {p} /\ s.enabled = s0.enabled /\ s.calls = s0.calls
      /\ s.known = s0.known /\ s.starting = s0.starting /\ s.enabling = s0.enabling
      /\ s.index = s0.index /\ s.reqs = s0.reqs /\ s.session = s0.session
      /\ s.inits = s0.inits /\ s.pending = s0.pending
  BY <1>2 DEF StateWith
<1> HIDE DEF s
<1>5. Typed(s, e)
  BY <1>1, <1>4 DEF EpOK, Typed
<1>6. e < p /\ p \in room \cup left /\ e # p
  BY <1>1, <1>2, ExchangeAssumption DEF Sees
<1>7. /\ P \in SUBSET Endpoint /\ e \notin P /\ (\A q \in P : e < q) /\ P \subseteq {p}
      /\ p \in P => s.session[p] = NoSession /\ s.pending[p] = 0
      /\ p \in Encrypting /\ p \notin P => s.session[p] # NoSession \/ s.pending[p] # 0
  BY <1>6 DEF Invitable
<1> HIDE DEF P
<1>8. /\ Typed(t, e) /\ t.session = s.session /\ t.asked = s.asked /\ t.known = s.known
      /\ t.enabled = s.enabled /\ t.enabling = s.enabling /\ t.starting = s.starting
      /\ t.calls = s.calls /\ t.index = s.index
      /\ s.reqs \subseteq t.reqs /\ \A r \in t.reqs : r.kind = "key" => r \in s.reqs
      /\ \A q \in Endpoint :
           /\ q \in P => t.inits[q] = s.inits[q] + 1 /\ t.pending[q] = s.inits[q] + 1
           /\ q \notin P => t.inits[q] = s.inits[q] /\ t.pending[q] = s.pending[q]
  <2>1. 0 \in Nat /\ P \in SUBSET Endpoint
    BY <1>7
  <2> QED BY <1>5, <2>1, SendSessionInitSame, ZenonT(60)
<1> HIDE DEF t
<1>9. /\ t.session = s0.session /\ t.asked = s0.asked \ {p} /\ t.known = s0.known
      /\ t.enabled = s0.enabled /\ t.calls = s0.calls /\ t.enabling = s0.enabling
      /\ t.starting = s0.starting /\ t.index = s0.index
      /\ s0.reqs \subseteq t.reqs /\ \A r \in t.reqs : r.kind = "key" => r \in s0.reqs
  BY <1>4, <1>8
<1>10. CallsOK(t) /\ AlikeCalls(s0, t)
  <2>1. t.index \in Nat \cup {-1} /\ s0.index <= t.index
    BY <1>2, <1>9
  <2>2. t.reqs \in SUBSET Request
    BY <1>8, TypedFields
  <2>3. \A r \in t.reqs : r.kind = "key" => r \in s0.reqs \/ (s0.index < r.n /\ r.n <= t.index)
    BY <1>9
  <2> QED BY <1>1, <1>2, <1>9, <2>1, <2>2, <2>3, CallsStay
<1>11. AskedOK(t)
  BY <1>1, <1>9, AskedStays
<1>12. Sees(t, e)
  <2>1. ASSUME NEW q \in Endpoint, q \notin room \cup left
        PROVE  t.session[q] = NoSession /\ t.pending[q] = 0 /\ t.inits[q] = 0
    BY <1>1, <1>4, <1>6, <1>7, <1>8, <2>1 DEF Sees
  <2> QED BY <1>1, <1>9, <2>1 DEF Sees
<1>13. /\ Posted(net, net', e, InitMail(s, P)) /\ Suits(InitMail(s, P), e)
       /\ \A q \in room \cap Encrypting :
            /\ q \notin P => net'[e][q] = net[e][q]
            /\ q \in P => \E m : /\ Grown(net[e][q], net'[e][q], m)
                                 /\ m.type = "session-init" /\ m.n = s.inits[q] + 1
  BY <1>2, <1>3, <1>5, <1>7, InitMailPosted
<1>14. Follows(e, t)
  <2> SUFFICES ASSUME NEW q \in room \cap Encrypting, q # e
               PROVE  Moves(s0, t, ep[q], net[e][q], net[q][e], net'[e][q], net'[q][e], e, q,
                            {e, q} \in orphan')
    BY DEF Follows, s0
  <2>1. q \in Endpoint /\ q \in Encrypting
    BY ExchangeAssumption
  <2>2. net'[q][e] = net[q][e]
    BY <1>13, <2>1 DEF Posted
  <2>3. CASE q # p
    <3>1. q \notin P
      BY <1>7, <2>3
    <3>2. Steady(s0, t, q)
      <4>1. (q \in t.asked <=> q \in s0.asked) /\ (q \in t.known <=> q \in s0.known)
        BY <1>9, <2>3
      <4>2. t.inits[q] = s0.inits[q] /\ t.pending[q] = s0.pending[q]
        BY <1>4, <1>8, <2>1, <3>1
      <4> QED BY <1>9, <1>10, <4>1, <4>2 DEF Steady, AlikeCalls
    <3>3. net'[e][q] = net[e][q]
      BY <1>13, <3>1
    <3> QED BY <2>2, <3>2, <3>3, MovesSteady
  <2>4. CASE q = p
    <3>1. ~(q < e)
      BY <1>6, <2>4, ExchangeAssumption
    <3>2. Link(s0, ep[q], net[e][q], net[q][e], e, q) =>
            /\ Link(t, ep[q], net'[e][q], net[q][e], e, q)
            /\ Agree(s0, ep[q], net[e][q], net[q][e], e, q) =>
                 Agree(t, ep[q], net'[e][q], net[q][e], e, q)
      <4>1. CASE q \in P
        <5>1. PICK m : /\ Grown(net[e][q], net'[e][q], m)
                       /\ m.type = "session-init" /\ m.n = s0.inits[q] + 1
          BY <1>4, <1>13, <4>1
        <5>2. /\ s0.session[q] = NoSession /\ s0.pending[q] = 0
              /\ t.session[q] = NoSession /\ t.inits[q] = s0.inits[q] + 1
              /\ t.pending[q] = s0.inits[q] + 1 /\ q \in s0.asked
          BY <1>2, <1>4, <1>7, <1>8, <2>1, <2>4, <4>1
        <5>3. q \in t.known <=> q \in s0.known
          BY <1>9
        <5> QED BY <5>1, <5>2, <5>3, InviterInvites
      <4>2. CASE q \notin P
        <5>1. /\ s0.session[q] # NoSession \/ s0.pending[q] # 0
              /\ t.session[q] = s0.session[q] /\ t.inits[q] = s0.inits[q]
              /\ t.pending[q] = s0.pending[q] /\ net'[e][q] = net[e][q]
          BY <1>4, <1>7, <1>8, <1>13, <2>1, <2>4, <4>2
        <5>2. (q \in t.known <=> q \in s0.known) /\ (q \in t.asked => q \in s0.asked)
          BY <1>9
        <5>3. Undone(s0) => Undone(t)
          BY <1>10 DEF AlikeCalls
        <5> QED BY <5>1, <5>2, <5>3, InviterNeedNot
      <4> QED BY <4>1, <4>2
    <3> QED BY <2>2, <3>1, <3>2 DEF Moves
  <2> QED BY <2>3, <2>4
<1>15. Hung(s0) => Hung(t)
  BY <1>10 DEF AlikeCalls
<1>16. Picked(net, e)
  BY DEF Picked
<1> QED BY <1>1, <1>3, <1>10, <1>11, <1>12, <1>13, <1>14, <1>15, <1>16, MoveHolds DEF s0

-----------------------------------------------------------------------------
(***************************************************************************)
(* Messages and presence that arrive.                                      *)
(***************************************************************************)

LEMMA Arrives ==
  ASSUME IInv, SInv, NEW e \in Endpoint, NEW p \in Endpoint, NEW types, Next1(e, p, types)
  PROVE  /\ net[p][e] # <<>> /\ Head(net[p][e]) = net[p][e][1] /\ Head(net[p][e]).type \in types
         /\ Idle(ep[e]) /\ e \in room \cap Encrypting /\ e # p /\ p \in room \cup left
         /\ EpOK(ep[e], e) /\ CallsOK(ep[e]) /\ AskedOK(ep[e]) /\ Sees(ep[e], e)
         /\ Proper(Head(net[p][e]), p, e)
         /\ ep[e] \in StateWith(ep[e].ctx, ep[e].old)
<1>1. net[p][e] # <<>> /\ Head(net[p][e]).type \in types /\ Idle(ep[e])
  BY DEF Next1
<1>2. e \in room \cap Encrypting /\ e # p /\ EpOK(ep[e], e)
  BY <1>1, PickedUp
<1>3. net[p][e] \in Seq(Message)
  BY DEF IInv, NetOK, NetGood, Nets
<1>4. Head(net[p][e]) = net[p][e][1] /\ 1 \in DOMAIN net[p][e]
  BY <1>1, <1>3, TailShrinks DEF Shrunk
<1>5. p \in room \cup left /\ Proper(net[p][e][1], p, e)
  BY <1>1, <1>4 DEF SInv, LettersOK
<1>6. ep[e] \in StateWith(ep[e].ctx, ep[e].old)
  BY <1>2 DEF EpOK, Typed
<1> QED BY <1>1, <1>2, <1>4, <1>5, <1>6 DEF SInv, StatesOK

(* Nothing changes about the calls; requests may be answered.              *)
LEMMA CallsKept ==
  ASSUME NEW s, NEW t, NEW e \in Endpoint, EpOK(s, e), CallsOK(s),
         t.calls = s.calls, t.enabling = s.enabling, t.enabled = s.enabled,
         t.starting = s.starting, t.index = s.index, t.reqs \subseteq s.reqs
  PROVE  CallsOK(t) /\ AlikeCalls(s, t)
<1>1. s.calls \in Seq(Call) /\ s.index \in Nat \cup {-1} /\ s.reqs \in SUBSET Request
  BY TypedFields DEF EpOK
<1>2. t.reqs \in SUBSET Request /\ s.index <= t.index /\ t.index \in Nat \cup {-1}
  BY <1>1
<1>3. \A r \in t.reqs : r.kind = "key" => r \in s.reqs \/ (s.index < r.n /\ r.n <= t.index)
  OBVIOUS
<1> QED BY <1>1, <1>2, <1>3, CallsStay

(* What arrives is not answered.                                           *)
LEMMA TakenHolds ==
  ASSUME IInv, SInv, NEW e \in Endpoint, NEW p \in Endpoint, net[p][e] # <<>>, NEW t,
         Deliver(e, p, t, Nothing), orphan \subseteq orphan',
         CallsOK(t), AskedOK(t), Sees(t, e), Hung(ep[e]) => Hung(t),
         \A q \in Endpoint : q # p => Steady(ep[e], t, q),
         p \in room \cap Encrypting => \A r2 : Shrunk(net[p][e], r2) =>
           Moves(ep[e], t, ep[p], net[e][p], net[p][e], net[e][p], r2, e, p, {e, p} \in orphan')
  PROVE  SInv'
<1>1. /\ Nothing \in [Endpoint -> Seq(Message)] /\ Single(Nothing)
      /\ \A q \in Endpoint : Nothing[q] = <<>>
  BY NoMail DEF Nothing
<1>2. \A m : Nothing[p] # <<m>>
  BY <1>1
<1> QED BY <1>1, <1>2, DeliverHolds

(* News of the other that are about no session.                            *)
LEMMA MovesHeard ==
  ASSUME NEW s, NEW t, NEW x, NEW q, NEW r, NEW r2, NEW e, NEW p, NEW odd,
         Shrunk(r, r2), Neutral(r[1]), CallsOK(s), AlikeCalls(s, t),
         t.session[p] = s.session[p], t.inits[p] = s.inits[p], t.pending[p] = s.pending[p],
         t.enabled = s.enabled, p \in s.known => p \in t.known,
         r[1].type = "joined" => p \in t.known,
         p \in s.asked => p \in t.asked, p \in t.asked => p \in s.asked \/ s.enabled,
         e < p /\ r[1].type = "on" /\ s.enabled => p \in t.asked
  PROVE  Moves(s, t, x, q, r, q, r2, e, p, odd)
<1>1. /\ Undone(t) <=> Undone(s)
      /\ SwitchesOn(t) <=> SwitchesOn(s)
      /\ SwitchesOff(t) <=> SwitchesOff(s)
      /\ Undone(s) => ~s.enabled
  BY DEF AlikeCalls, CallsOK, Undone
<1>2. e < p => (Link(s, x, q, r, e, p) =>
        Link(t, x, q, r2, e, p) /\ (Agree(s, x, q, r, e, p) => Agree(t, x, q, r2, e, p)))
  BY <1>1, InviterHears
<1>3. Link(x, s, r, q, p, e) =>
        Link(x, t, r2, q, p, e) /\ (Agree(x, s, r, q, p, e) => Agree(x, t, r2, q, p, e))
  BY <1>1, InvitedHears
<1> QED BY <1>2, <1>3 DEF Moves

LEMMA ParticipantJoinedHolds ==
  ASSUME IInv, SInv, NEW e \in Endpoint, NEW p \in Endpoint, ParticipantJoined(e, p)
  PROVE  SInv'
<1> DEFINE s == ep[e]
           ratchet == s.ratchet \/ s.enabled
           t == [s EXCEPT !.known = s.known \cup {p}, !.ratchet = ratchet]
<1>1. /\ net[p][e] # <<>> /\ Head(net[p][e]) = net[p][e][1] /\ Head(net[p][e]).type = "joined"
      /\ Idle(s) /\ p \in room \cup left
      /\ EpOK(s, e) /\ CallsOK(s) /\ Sees(s, e)
      /\ s \in StateWith(s.ctx, s.old)
  BY Arrives DEF ParticipantJoined
<1>2. Deliver(e, p, t, Nothing) /\ orphan' = orphan
  BY DEF ParticipantJoined
<1> HIDE DEF ratchet
<1>3. /\ t.session = s.session /\ t.inits = s.inits /\ t.pending = s.pending
      /\ t.known = s.known \cup {p} /\ t.asked = s.asked /\ t.calls = s.calls
      /\ t.enabling = s.enabling /\ t.enabled = s.enabled /\ t.index = s.index
      /\ t.reqs = s.reqs /\ t.starting = s.starting
  BY <1>1 DEF StateWith
<1> HIDE DEF t, s
<1>4. CallsOK(t) /\ AlikeCalls(s, t) /\ AskedOK(t)
  <2>1. t.reqs \subseteq s.reqs /\ t.asked \subseteq s.asked
    BY <1>3
  <2> QED BY <1>1, <1>3, <2>1, CallsKept, IdleAsked
<1>5. Sees(t, e)
  BY <1>1, <1>3 DEF Sees
<1>6. ASSUME NEW q \in Endpoint, q # p
      PROVE  Steady(s, t, q)
  <2>1. q \in t.known <=> q \in s.known
    BY <1>3, <1>6
  <2> QED BY <1>3, <1>4, <2>1 DEF Steady, AlikeCalls
<1>7. ASSUME NEW r2, Shrunk(net[p][e], r2)
      PROVE  Moves(s, t, ep[p], net[e][p], net[p][e], net[e][p], r2, e, p, {e, p} \in orphan')
  <2>1. Neutral(net[p][e][1]) /\ net[p][e][1].type # "on"
    BY <1>1 DEF Neutral
  <2>2. p \in t.known /\ (p \in t.asked <=> p \in s.asked)
    BY <1>3
  <2> QED BY <1>1, <1>3, <1>4, <1>7, <2>1, <2>2, MovesHeard
<1>8. Hung(s) => Hung(t)
  BY <1>4 DEF AlikeCalls
<1> QED BY <1>1, <1>2, <1>4, <1>5, <1>6, <1>7, <1>8, TakenHolds DEF s

LEMMA ParticipantLeftHolds ==
  ASSUME IInv, SInv, NEW e \in Endpoint, NEW p \in Endpoint, ParticipantLeft(e, p)
  PROVE  SInv'
<1> DEFINE s == ep[e]
           session == [q \in Endpoint |-> IF q \in {p} THEN NoSession ELSE s.session[q]]
           u == [s EXCEPT !.session = session]
           ctx == [s.ctx EXCEPT ![p] = NewContext]
           rotate == s.rotate \/ s.enabled
           t == [u EXCEPT !.known = s.known \ {p}, !.ctx = ctx, !.gone = s.gone \cup {p},
                          !.rotate = rotate]
<1>1. /\ net[p][e] # <<>> /\ Head(net[p][e]) = net[p][e][1] /\ Head(net[p][e]).type = "left"
      /\ Idle(s) /\ Proper(Head(net[p][e]), p, e)
      /\ EpOK(s, e) /\ CallsOK(s) /\ Sees(s, e)
      /\ s \in StateWith(s.ctx, s.old)
  BY Arrives DEF ParticipantLeft
<1>2. Deliver(e, p, t, Nothing) /\ orphan' = orphan
  <2>1. ClearSession(s, {p}) = u
    BY DEF ClearSession
  <2> HIDE DEF session
  <2>2. u.known = s.known /\ u.ctx = s.ctx /\ u.gone = s.gone /\ u.rotate = s.rotate
    BY <1>1 DEF StateWith
  <2>3. [u EXCEPT !.known = @ \ {p}, !.ctx[p] = NewContext, !.gone = @ \cup {p},
                  !.rotate = @ \/ s.enabled] = t
    BY <1>1, <2>2 DEF StateWith
  <2> QED BY <2>1, <2>3 DEF ParticipantLeft
<1>3. \A q \in Endpoint : session[q] = IF q \in {p} THEN NoSession ELSE s.session[q]
  OBVIOUS
<1> HIDE DEF session, ctx, rotate
<1>4. /\ t.session = session /\ t.inits = s.inits /\ t.pending = s.pending
      /\ t.known = s.known \ {p} /\ t.asked = s.asked /\ t.calls = s.calls
      /\ t.enabling = s.enabling /\ t.enabled = s.enabled /\ t.index = s.index
      /\ t.reqs = s.reqs /\ t.starting = s.starting
  BY <1>1 DEF StateWith
<1> HIDE DEF u, t, s
<1>5. CallsOK(t) /\ AlikeCalls(s, t) /\ AskedOK(t)
  <2>1. t.reqs \subseteq s.reqs /\ t.asked \subseteq s.asked
    BY <1>4
  <2> QED BY <1>1, <1>4, <2>1, CallsKept, IdleAsked
<1>6. Sees(t, e)
  BY <1>1, <1>3, <1>4 DEF Sees
<1>7. ASSUME NEW q \in Endpoint, q # p
      PROVE  Steady(s, t, q)
  <2>1. (q \in t.known <=> q \in s.known) /\ t.session[q] = s.session[q]
    BY <1>3, <1>4, <1>7
  <2> QED BY <1>4, <1>5, <2>1 DEF Steady, AlikeCalls
<1>8. p \notin room \cap Encrypting
  BY <1>1 DEF Proper, IInv, RoomOK
<1>9. Hung(s) => Hung(t)
  BY <1>5 DEF AlikeCalls
<1> QED BY <1>1, <1>2, <1>5, <1>6, <1>7, <1>8, <1>9, TakenHolds DEF s

(* The link does not depend on what the other has freed.                   *)
LEMMA InvitedLinks ==
  ASSUME NEW s, NEW t, NEW q, NEW r, NEW a, NEW b, NEW v, NEW q2, Link(s, t, q, r, a, b),
         Shrunk(q, q2), q[1].type = "off",
         v.session[a] \in {t.session[a], NoSession}, v.enabled = t.enabled,
         SwitchesOn(v) <=> SwitchesOn(t), a \in v.known <=> a \in t.known
  PROVE  Link(s, v, q2, r, a, b)
<1>1. Ordered(s, q2, r, a, b)
  BY DEF Link, Ordered, Going, IsInit, IsAck, Shrunk
<1>2. Knows(s, v, q2, r, a, b)
  BY DEF Link, Knows, Greets, IsOn, Shrunk
<1> QED BY <1>1, <1>2 DEF Link

(* The other has switched off.                                             *)
LEMMA MovesHeardOff ==
  ASSUME NEW s, NEW t, NEW x, NEW q, NEW r, NEW r2,
         NEW e \in Endpoint, NEW p \in Endpoint, NEW odd,
         Shrunk(r, r2), r[1].type = "off", AlikeCalls(s, t),
         t.session[p] = IF s.enabled THEN NoSession ELSE s.session[p],
         t.inits[p] = s.inits[p], t.pending[p] = s.pending[p], t.enabled = s.enabled,
         p \in t.known <=> p \in s.known, p \in t.asked <=> p \in s.asked,
         odd \/ s.session[p] = NoSession \/ (s.enabled /\ ~Expects(x, e, s.session[p]))
  PROVE  Moves(s, t, x, q, r, q, r2, e, p, odd)
<1>1. /\ Undone(t) <=> Undone(s)
      /\ SwitchesOn(t) <=> SwitchesOn(s)
      /\ SwitchesOff(t) <=> SwitchesOff(s)
  BY DEF AlikeCalls
<1>2. ASSUME Link(s, x, q, r, e, p)
      PROVE  /\ Link(t, x, q, r2, e, p)
             /\ Agree(s, x, q, r, e, p) /\ ~odd => Agree(t, x, q, r2, e, p)
  <2>1. Link(s, x, q, r2, e, p)
    BY <1>2, InviterIsLate
  <2>2. t.session[p] \in {s.session[p], NoSession}
    OBVIOUS
  <2>3. Link(t, x, q, r2, e, p)
    BY <2>1, <2>2, InviterLinks
  <2>4. ASSUME ~odd
        PROVE  s.session[p] # NoSession => s.enabled /\ x.session[e] # s.session[p]
    BY <2>4 DEF Expects
  <2>5. CASE ~odd
    BY <1>1, <1>2, <2>4, <2>5, InviterHearsOff
  <2> QED BY <2>3, <2>5
<1>3. ASSUME Link(x, s, r, q, p, e)
      PROVE  /\ Link(x, t, r2, q, p, e)
             /\ Agree(x, s, r, q, p, e) /\ ~odd => Agree(x, t, r2, q, p, e)
  <2>1. t.session[p] \in {s.session[p], NoSession}
    OBVIOUS
  <2>2. Link(x, t, r2, q, p, e)
    BY <1>1, <1>3, <2>1, InvitedLinks
  <2>3. ASSUME ~odd
        PROVE  /\ s.session[p] # NoSession => s.enabled /\ x.session[e] # s.session[p]
               /\ \A n \in Nat : s.session[p] = <<p, e, n>> => x.pending[e] # n
    <3>1. CASE s.session[p] = NoSession
      BY <3>1, SessionAssumption DEF Session
    <3>2. CASE s.enabled /\ ~Expects(x, e, s.session[p])
      <4>1. \A n : <<p, e, n>>[3] = n
        OBVIOUS
      <4> QED BY <3>2, <4>1 DEF Expects
    <3> QED BY <2>3, <3>1, <3>2
  <2>4. CASE ~odd
    BY <1>1, <1>3, <2>3, <2>4, InvitedHearsOff
  <2> QED BY <2>2, <2>4
<1> QED BY <1>2, <1>3 DEF Moves

LEMMA PropertyChangedHolds ==
  ASSUME IInv, SInv, NEW e \in Endpoint, NEW p \in Endpoint, PropertyChanged(e, p)
  PROVE  SInv'
<1> DEFINE s == ep[e]
           on == Head(net[p][e]).type = "on"
           odd == ~on /\ s.session[p] # NoSession
                    /\ (~s.enabled \/ Expects(ep[p], e, s.session[p]))
           session == [q \in Endpoint |-> IF q \in {p} THEN NoSession ELSE s.session[q]]
           t == Noted(s, e, p, on)
<1>1. /\ net[p][e] # <<>> /\ Head(net[p][e]) = net[p][e][1]
      /\ Head(net[p][e]).type \in {"on", "off"}
      /\ Idle(s) /\ p \in room \cup left /\ e # p
      /\ EpOK(s, e) /\ CallsOK(s) /\ AskedOK(s) /\ Sees(s, e)
      /\ s \in StateWith(s.ctx, s.old)
  BY Arrives DEF PropertyChanged
<1>2. /\ Deliver(e, p, t, Nothing)
      /\ orphan' = IF odd THEN orphan \cup {{e, p}} ELSE orphan
  BY DEF PropertyChanged
<1>3. /\ orphan \subseteq orphan' /\ (odd => {e, p} \in orphan')
      /\ (on => net[p][e][1].type = "on") /\ (~on => net[p][e][1].type = "off")
  BY <1>1, <1>2
<1>4. s.asked \in SUBSET Endpoint /\ s.enabled \in BOOLEAN
  BY <1>1, TypedFields DEF EpOK
<1>5. \A q \in Endpoint : session[q] = IF q \in {p} THEN NoSession ELSE s.session[q]
  OBVIOUS
<1>6. /\ ~s.enabled => t = s
      /\ s.enabled /\ ~on => t = [s EXCEPT !.session = session]
      /\ s.enabled /\ on /\ e < p => t = [s EXCEPT !.asked = s.asked \cup {p}]
      /\ s.enabled /\ on /\ ~(e < p) => t = s
  BY <1>4 DEF Noted, ClearSession
<1> HIDE DEF t, session, s, on, odd
<1>7. /\ t.inits = s.inits /\ t.pending = s.pending /\ t.known = s.known /\ t.calls = s.calls
      /\ t.enabling = s.enabling /\ t.index = s.index
      /\ t.reqs = s.reqs /\ t.starting = s.starting
      /\ t.session = IF s.enabled /\ ~on THEN session ELSE s.session
      /\ t.asked = IF s.enabled /\ on /\ e < p THEN s.asked \cup {p} ELSE s.asked
  <2>1. CASE ~s.enabled
    BY <1>6, <2>1
  <2>2. CASE s.enabled /\ ~on
    BY <1>1, <1>6, <2>2 DEF StateWith
  <2>3. CASE s.enabled /\ on /\ e < p
    BY <1>1, <1>6, <2>3 DEF StateWith
  <2>4. CASE s.enabled /\ on /\ ~(e < p)
    BY <1>6, <2>4
  <2> QED BY <2>1, <2>2, <2>3, <2>4
<1>8. t.enabled = s.enabled
  <2>1. CASE ~s.enabled
    BY <1>6, <2>1
  <2>2. CASE s.enabled /\ ~on
    BY <1>1, <1>6, <2>2 DEF StateWith
  <2>3. CASE s.enabled /\ on /\ e < p
    BY <1>1, <1>6, <2>3 DEF StateWith
  <2>4. CASE s.enabled /\ on /\ ~(e < p)
    BY <1>6, <2>4
  <2> QED BY <2>1, <2>2, <2>3, <2>4
<1>9. CallsOK(t) /\ AlikeCalls(s, t) /\ Safe(t)
  <2>1. t.reqs \subseteq s.reqs
    BY <1>7
  <2> QED BY <1>1, <1>7, <1>8, <2>1, CallsKept, IdleSafe
<1>10. AskedOK(t)
  BY <1>9 DEF AskedOK
<1>11. Sees(t, e)
  <2>1. \A q \in t.asked : e < q /\ q \in room \cup left
    BY <1>1, <1>7 DEF Sees
  <2>2. \A q \in Endpoint : q \notin room \cup left => t.session[q] = NoSession
    BY <1>1, <1>5, <1>7 DEF Sees
  <2> QED BY <1>1, <1>7, <2>1, <2>2 DEF Sees
<1>12. ASSUME NEW q \in Endpoint, q # p
       PROVE  Steady(s, t, q)
  <2>1. (q \in t.asked <=> q \in s.asked) /\ t.session[q] = s.session[q]
    BY <1>5, <1>7, <1>12
  <2> QED BY <1>7, <1>8, <1>9, <2>1 DEF Steady, AlikeCalls
<1>13. ASSUME NEW r2, Shrunk(net[p][e], r2)
       PROVE  Moves(s, t, ep[p], net[e][p], net[p][e], net[e][p], r2, e, p, {e, p} \in orphan')
  <2>1. CASE on
    <3>1. Neutral(net[p][e][1]) /\ net[p][e][1].type = "on"
      BY <1>3, <2>1 DEF Neutral
    <3>2. t.session = s.session
      BY <1>7, <2>1
    <3>3. /\ p \in s.asked => p \in t.asked
          /\ p \in t.asked => p \in s.asked \/ s.enabled
          /\ e < p /\ s.enabled => p \in t.asked
      BY <1>7, <2>1
    <3> QED BY <1>1, <1>7, <1>8, <1>9, <1>13, <3>1, <3>2, <3>3, MovesHeard
  <2>2. CASE ~on
    <3>1. net[p][e][1].type = "off"
      BY <1>3, <2>2
    <3>2. t.session[p] = IF s.enabled THEN NoSession ELSE s.session[p]
      BY <1>5, <1>7, <2>2
    <3>3. t.asked = s.asked
      BY <1>7, <2>2
    <3>4. \/ {e, p} \in orphan' \/ s.session[p] = NoSession
          \/ s.enabled /\ ~Expects(ep[p], e, s.session[p])
      BY <1>3, <2>2 DEF odd
    <3> QED BY <1>7, <1>8, <1>9, <1>13, <3>1, <3>2, <3>3, <3>4, MovesHeardOff
  <2> QED BY <2>1, <2>2
<1>14. Hung(s) => Hung(t)
  BY <1>9 DEF AlikeCalls
<1> QED BY <1>1, <1>2, <1>3, <1>9, <1>10, <1>11, <1>12, <1>13, <1>14, TakenHolds DEF s

(* The letter k to p, and nothing else.                                    *)
Letter(mail, p, k) == mail = [q \in Endpoint |-> IF q \in {p} THEN <<k>> ELSE <<>>]

(* What arrives is answered by the letter k.                               *)
LEMMA AnsweredHolds ==
  ASSUME IInv, SInv, NEW e \in Endpoint, NEW p \in Endpoint, net[p][e] # <<>>, NEW t,
         NEW mail, NEW k \in Message, Letter(mail, p, k), Proper(k, e, p),
         Deliver(e, p, t, mail), orphan \subseteq orphan',
         CallsOK(t), AskedOK(t), Sees(t, e), Hung(ep[e]) => Hung(t),
         \A q \in Endpoint : q # p => Steady(ep[e], t, q),
         p \in room \cap Encrypting => \A q2, r2 :
           Shrunk(net[p][e], r2) /\ Grown(net[e][p], q2, k) =>
             Moves(ep[e], t, ep[p], net[e][p], net[p][e], q2, r2, e, p, {e, p} \in orphan')
  PROVE  SInv'
<1>1. <<k>> \in Seq(Message) /\ <<>> \in Seq(Message) /\ <<k>>[1] = k /\ <<k>> # <<>>
  OBVIOUS
<1>2. \A q \in Endpoint : mail[q] = IF q \in {p} THEN <<k>> ELSE <<>>
  BY DEF Letter
<1>3. mail \in [Endpoint -> Seq(Message)] /\ Single(mail)
  <2>1. mail \in [Endpoint -> Seq(Message)]
    BY <1>1 DEF Letter
  <2>2. Single(mail)
    BY <1>2 DEF Single
  <2> QED BY <2>1, <2>2
<1>4. (\A q \in Endpoint : q # p => mail[q] = <<>>) /\ mail[p] = <<k>> /\ mail[p] # <<>>
  BY <1>1, <1>2
<1>5. ASSUME NEW m, mail[p] = <<m>>
      PROVE  m = k
  <2>1. <<m>>[1] = m
    OBVIOUS
  <2> QED BY <1>1, <1>4, <1>5, <2>1
<1>6. \A m : mail[p] = <<m>> => Proper(m, e, p)
  BY <1>5
<1>7. ASSUME p \in room \cap Encrypting, NEW q2, NEW r2, Shrunk(net[p][e], r2),
             \/ mail[p] = <<>> /\ q2 = net[e][p]
             \/ \E m : mail[p] = <<m>> /\ Grown(net[e][p], q2, m)
      PROVE  Moves(ep[e], t, ep[p], net[e][p], net[p][e], q2, r2, e, p, {e, p} \in orphan')
  <2>1. Grown(net[e][p], q2, k)
    BY <1>4, <1>5, <1>7
  <2> QED BY <1>7, <2>1
<1> QED BY <1>3, <1>4, <1>6, <1>7, DeliverHolds

(* An invitation arrives.                                                  *)
LEMMA MovesAccepted ==
  ASSUME NEW s, NEW t, NEW x, NEW q, NEW r, NEW q2, NEW r2, NEW e, NEW p, NEW odd, NEW k,
         ~(e < p), Shrunk(r, r2), r[1].type = "session-init", AlikeCalls(s, t), ~SwitchesOff(s),
         \/ t = s /\ s.session[p] # NoSession /\ q2 = q
         \/ /\ s.session[p] = NoSession /\ Grown(q, q2, k)
            /\ k.type = "session-ack" /\ k.n = r[1].n /\ k.session = t.session[p]
            /\ t.session[p] = <<p, e, r[1].n>> /\ t.session[p] # NoSession
            /\ t.enabled = s.enabled /\ t.known = s.known
  PROVE  Moves(s, t, x, q, r, q2, r2, e, p, odd)
<1>1. /\ Undone(t) <=> Undone(s)
      /\ SwitchesOn(t) <=> SwitchesOn(s)
      /\ ~SwitchesOff(t)
  BY DEF AlikeCalls
<1>2. Link(x, s, r, q, p, e) =>
        Link(x, t, r2, q2, p, e) /\ (Agree(x, s, r, q, p, e) => Agree(x, t, r2, q2, p, e))
  <2>1. CASE t = s /\ s.session[p] # NoSession /\ q2 = q
    BY <2>1, InvitedIgnores
  <2>2. CASE /\ s.session[p] = NoSession /\ Grown(q, q2, k)
             /\ k.type = "session-ack" /\ k.n = r[1].n /\ k.session = t.session[p]
             /\ t.session[p] = <<p, e, r[1].n>> /\ t.session[p] # NoSession
             /\ t.enabled = s.enabled /\ t.known = s.known
    BY <1>1, <2>2, InvitedAccepts
  <2> QED BY <2>1, <2>2
<1> QED BY <1>2 DEF Moves

LEMMA SessionInitHolds ==
  ASSUME IInv, SInv, NEW e \in Endpoint, NEW p \in Endpoint, SessionInit(e, p)
  PROVE  SInv'
<1> DEFINE s == ep[e]
           m == Head(net[p][e])
           sid == <<p, e, m.n>>
           session == [s.session EXCEPT ![p] = sid]
           t == [s EXCEPT !.session = session]
           k == KeyInfo("session-ack", s, sid, m.n)
           mail == Mail({p}, LAMBDA q : k)
<1>1. /\ net[p][e] # <<>> /\ m = net[p][e][1] /\ m.type = "session-init"
      /\ Idle(s) /\ p \in room \cup left /\ e # p /\ Proper(m, p, e)
      /\ EpOK(s, e) /\ CallsOK(s) /\ AskedOK(s) /\ Sees(s, e)
      /\ s \in StateWith(s.ctx, s.old)
  BY Arrives DEF SessionInit
<1>2. m.n \in Nat /\ p < e /\ ~(e < p) /\ orphan' = orphan
  <2>1. m.n \in Nat
    BY <1>1, PickedUp
  <2>2. p < e /\ e \in Nat /\ p \in Nat
    BY <1>1, ExchangeAssumption DEF Proper
  <2> QED BY <2>1, <2>2 DEF SessionInit
<1>3. ~SwitchesOff(s) /\ AlikeCalls(s, s)
  BY <1>1, IdleSwitched DEF AlikeCalls
<1>4. CASE s.session[p] # NoSession
  <2>1. Deliver(e, p, s, Nothing)
    BY <1>4 DEF SessionInit
  <2>2. \A q \in Endpoint : Steady(s, s, q)
    BY <1>3 DEF Steady, AlikeCalls
  <2>3. ASSUME NEW r2, Shrunk(net[p][e], r2)
        PROVE  Moves(s, s, ep[p], net[e][p], net[p][e], net[e][p], r2, e, p, {e, p} \in orphan')
    <3> HIDE DEF s, m
    <3>1. net[p][e][1].type = "session-init"
      BY <1>1
    <3> QED BY <1>2, <1>3, <1>4, <2>3, <3>1, MovesAccepted
  <2> QED BY <1>1, <1>2, <2>1, <2>2, <2>3, TakenHolds
<1>5. CASE s.session[p] = NoSession
  <2>1. sid \in Session /\ sid # NoSession
    BY <1>2, SessionAssumption DEF Session
  <2>2. Deliver(e, p, t, mail)
    <3>1. [s EXCEPT !.session[p] = sid] = t
      BY <1>1 DEF StateWith
    <3> HIDE DEF t, mail
    <3>2. Deliver(e, p, [s EXCEPT !.session[p] = sid], mail)
      BY <1>5 DEF SessionInit, mail
    <3> QED BY <3>1, <3>2
  <2>3. k \in Message /\ k.type = "session-ack" /\ k.session = sid /\ k.n = m.n
    <3>1. MessageOK(k, e, s.index)
      BY <1>1, <1>2, <2>1, KeyInfoOK DEF KeyTypes, EpOK
    <3> QED BY <3>1 DEF MessageOK, KeyInfo
  <2>4. Letter(mail, p, k)
    BY DEF Mail, Letter
  <2>5. session[p] = sid /\ \A q \in Endpoint : q # p => session[q] = s.session[q]
    <3>1. s.session \in [Endpoint -> Session \cup {NoSession}]
      BY <1>1, TypedFields DEF EpOK
    <3> QED BY <3>1
  <2> HIDE DEF session, k, mail
  <2>6. /\ t.session = session /\ t.inits = s.inits /\ t.pending = s.pending
        /\ t.known = s.known /\ t.asked = s.asked /\ t.calls = s.calls
        /\ t.enabling = s.enabling /\ t.enabled = s.enabled /\ t.index = s.index
        /\ t.reqs = s.reqs /\ t.starting = s.starting
    BY <1>1 DEF StateWith
  <2> HIDE DEF t, s
  <2>7. CallsOK(t) /\ AlikeCalls(s, t) /\ AskedOK(t)
    <3>1. t.reqs \subseteq s.reqs /\ t.asked \subseteq s.asked
      BY <2>6
    <3> QED BY <1>1, <2>6, <3>1, CallsKept, IdleAsked
  <2>8. Sees(t, e)
    BY <1>1, <2>5, <2>6 DEF Sees
  <2>9. ASSUME NEW q \in Endpoint, q # p
        PROVE  Steady(s, t, q)
    <3>1. (q \in t.asked <=> q \in s.asked) /\ t.session[q] = s.session[q]
      BY <2>5, <2>6, <2>9
    <3> QED BY <2>6, <2>7, <3>1 DEF Steady, AlikeCalls
  <2>10. ASSUME NEW q2, NEW r2, Shrunk(net[p][e], r2), Grown(net[e][p], q2, k)
         PROVE  Moves(s, t, ep[p], net[e][p], net[p][e], q2, r2, e, p, {e, p} \in orphan')
    <3>1. /\ net[p][e][1].type = "session-init"
          /\ k.n = net[p][e][1].n /\ k.session = t.session[p]
          /\ t.session[p] = <<p, e, net[p][e][1].n>> /\ t.session[p] # NoSession
      BY <1>1, <2>1, <2>3, <2>5, <2>6
    <3> QED BY <1>2, <1>3, <1>5, <2>3, <2>6, <2>7, <2>10, <3>1, MovesAccepted
  <2>11. Proper(k, e, p)
    BY <1>2, <2>3 DEF Proper
  <2>12. Hung(s) => Hung(t)
    BY <2>7 DEF AlikeCalls
  <2> QED BY <1>1, <1>2, <2>2, <2>3, <2>4, <2>7, <2>8, <2>9, <2>10, <2>11, <2>12,
             AnsweredHolds DEF s
<1> QED BY <1>4, <1>5

(* The state s goes to t, in which requests may be answered.               *)
Answered(s, t) ==
  /\ Same(s, t) /\ t.pending = s.pending /\ t.calls = s.calls /\ t.enabling = s.enabling
  /\ t.starting = s.starting /\ t.index = s.index /\ t.reqs \subseteq s.reqs

(* A key, or its confirmation, arrives.                                    *)
LEMMA HeardHolds ==
  ASSUME IInv, SInv, NEW e \in Endpoint, NEW p \in Endpoint,
         Next1(e, p, {"key-info"}) \/ Next1(e, p, {"key-info-ack"}),
         NEW t, Answered(ep[e], t), orphan' = orphan, NEW k, NEW mail,
         \/ Deliver(e, p, t, Nothing)
         \/ /\ k \in Message /\ k.type = "key-info-ack" /\ Letter(mail, p, k)
            /\ Deliver(e, p, t, mail)
  PROVE  SInv'
<1> DEFINE s == ep[e]
<1>1. /\ net[p][e] # <<>> /\ Head(net[p][e]) = net[p][e][1]
      /\ Head(net[p][e]).type \in {"key-info", "key-info-ack"}
      /\ Idle(s) /\ EpOK(s, e) /\ CallsOK(s) /\ Sees(s, e)
  <2>1. CASE Next1(e, p, {"key-info"})
    BY <2>1, Arrives
  <2>2. CASE Next1(e, p, {"key-info-ack"})
    BY <2>2, Arrives
  <2> QED BY <2>1, <2>2
<1> HIDE DEF s
<1>2. Same(s, t) /\ Answered(s, t)
  BY DEF Answered, s
<1>3. t.enabled = s.enabled
  BY <1>2 DEF Same
<1>4. CallsOK(t) /\ AlikeCalls(s, t) /\ AskedOK(t)
  <2>1. t.asked \subseteq s.asked
    BY <1>2 DEF Same
  <2> QED BY <1>1, <1>2, <1>3, <2>1, CallsKept, IdleAsked DEF Answered
<1>5. Sees(t, e)
  BY <1>1, <1>2, SameSees
<1>6. \A q \in Endpoint : Steady(s, t, q)
  BY <1>2, <1>4, SameSteady
<1>7. ASSUME NEW r2, Shrunk(net[p][e], r2)
      PROVE  Moves(s, t, ep[p], net[e][p], net[p][e], net[e][p], r2, e, p, {e, p} \in orphan')
  <2>1. /\ Neutral(net[p][e][1]) /\ net[p][e][1].type # "on" /\ net[p][e][1].type # "joined"
    BY <1>1 DEF Neutral
  <2>2. /\ t.session[p] = s.session[p] /\ t.inits[p] = s.inits[p] /\ t.pending[p] = s.pending[p]
        /\ t.known = s.known /\ t.asked = s.asked
    BY <1>2 DEF Answered, Same
  <2> QED BY <1>1, <1>3, <1>4, <1>7, <2>1, <2>2, MovesHeard
<1>8. Hung(s) => Hung(t)
  BY <1>4 DEF AlikeCalls
<1>9. CASE Deliver(e, p, t, Nothing)
  BY <1>1, <1>4, <1>5, <1>6, <1>7, <1>8, <1>9, TakenHolds DEF s
<1>10. CASE k \in Message /\ k.type = "key-info-ack" /\ Letter(mail, p, k) /\ Deliver(e, p, t, mail)
  <2>1. Proper(k, e, p) /\ Neutral(k)
    BY <1>10 DEF Proper, Neutral
  <2>2. ASSUME NEW q2, NEW r2, Shrunk(net[p][e], r2), Grown(net[e][p], q2, k)
        PROVE  Moves(s, t, ep[p], net[e][p], net[p][e], q2, r2, e, p, {e, p} \in orphan')
    BY <1>7, <2>1, <2>2, MovesMurmurs
  <2> QED BY <1>1, <1>4, <1>5, <1>6, <1>8, <1>10, <2>1, <2>2, AnsweredHolds DEF s
<1> QED BY <1>9, <1>10

LEMMA LearnAnswers ==
  ASSUME NEW s, NEW ctx, NEW old, s \in StateWith(ctx, old), NEW p, NEW m
  PROVE  Answered(s, Learn(s, p, m))
<1>1. CASE s.lastKey[p] = m.key
  <2>1. Learn(s, p, m) = s
    BY <1>1 DEF Learn
  <2> QED BY <2>1 DEF Answered, Same
<1>2. CASE s.lastKey[p] # m.key
  <2> DEFINE lastKey == [s.lastKey EXCEPT ![p] = m.key]
             ring == [s.ctx EXCEPT ![p] = SetKeys(s.ctx[p], m.key, m.index)]
             t == [s EXCEPT !.lastKey = lastKey, !.ctx = ring]
  <2>1. Learn(s, p, m) = t
    BY <1>2 DEF Learn, StateWith
  <2> HIDE DEF lastKey, ring
  <2>2. Answered(s, t)
    BY DEF StateWith, Answered, Same
  <2> QED BY <2>1, <2>2
<1> QED BY <1>1, <1>2

LEMMA KeyInfoReceivedHolds ==
  ASSUME IInv, SInv, NEW e \in Endpoint, NEW p \in Endpoint, KeyInfoReceived(e, p)
  PROVE  SInv'
<1> DEFINE s == ep[e]
           m == Head(net[p][e])
           t == Learn(s, p, m)
           k == KeyInfo("key-info-ack", s, m.session, m.n)
           mail == Mail({p}, LAMBDA q : k)
<1>1. Next1(e, p, {"key-info"}) /\ net[p][e] # <<>> /\ m.type = "key-info"
  BY DEF KeyInfoReceived, Next1
<1>2. /\ EpOK(s, e) /\ m.session \in Session /\ m.n \in Nat
      /\ s \in StateWith(s.ctx, s.old)
  BY <1>1, PickedUp DEF KeyTypes, EpOK, Typed
<1>3. CASE Deliver(e, p, s, Nothing) /\ orphan' = orphan
  <2>1. Answered(s, s)
    BY <1>2 DEF Answered, Same
  <2> QED BY <1>1, <1>3, <2>1, HeardHolds
<1>4. CASE Deliver(e, p, t, mail) /\ orphan' = orphan
  <2>1. k \in Message /\ k.type = "key-info-ack"
    <3>1. MessageOK(k, e, s.index)
      BY <1>2, KeyInfoOK DEF KeyTypes, EpOK
    <3> QED BY <3>1 DEF MessageOK, KeyInfo
  <2>2. Letter(mail, p, k)
    BY DEF Mail, Letter
  <2> HIDE DEF k, mail, m
  <2>3. Answered(s, t)
    BY <1>2, LearnAnswers
  <2> HIDE DEF t
  <2> QED BY <1>1, <1>4, <2>1, <2>2, <2>3, HeardHolds
<1> QED BY <1>3, <1>4 DEF KeyInfoReceived, Hears

LEMMA KeyInfoAckHolds ==
  ASSUME IInv, SInv, NEW e \in Endpoint, NEW p \in Endpoint, KeyInfoAck(e, p)
  PROVE  SInv'
<1> DEFINE s == ep[e]
           m == Head(net[p][e])
           told == IF m.index < 0 THEN s ELSE Learn(s, p, m)
           reqs == {r \in told.reqs : ~(r.kind = "key" /\ r.to = p /\ r.n = m.n)}
           t == [told EXCEPT !.reqs = reqs]
<1>1. Next1(e, p, {"key-info-ack"}) /\ net[p][e] # <<>> /\ m.type = "key-info-ack"
  BY DEF KeyInfoAck, Next1
<1>2. /\ EpOK(s, e) /\ e # p /\ m.key \in Key \cup {NoKey} /\ s \in StateWith(s.ctx, s.old)
      /\ Answered(s, s)
  BY <1>1, PickedUp DEF KeyTypes, EpOK, Typed, Answered, Same
<1>3. CASE Deliver(e, p, s, Nothing) /\ orphan' = orphan
  BY <1>1, <1>2, <1>3, HeardHolds
<1>4. CASE Deliver(e, p, t, Nothing) /\ orphan' = orphan
  <2> HIDE DEF m, s
  <2>1. Answered(s, told) /\ told \in StateWith(told.ctx, told.old)
    <3>1. Answered(s, Learn(s, p, m))
      BY <1>2, LearnAnswers
    <3>2. Typed(Learn(s, p, m), e)
      BY <1>2, LearnOK DEF EpOK
    <3> QED BY <1>2, <3>1, <3>2 DEF Typed
  <2> HIDE DEF told
  <2>2. reqs \subseteq told.reqs
    OBVIOUS
  <2> HIDE DEF reqs
  <2>3. Answered(told, t)
    BY <2>1, <2>2 DEF StateWith, Answered, Same
  <2> HIDE DEF t
  <2>4. Answered(s, t)
    <3>1. t.enabled = s.enabled
      BY <2>1, <2>3 DEF Answered, Same
    <3>2. \A q \in Endpoint : t.pending[q] \in {s.pending[q], 0}
      BY <2>1, <2>3 DEF Answered
    <3> QED BY <2>1, <2>3, <3>1, <3>2 DEF Answered, Same
  <2> QED BY <1>1, <1>4, <2>4, HeardHolds DEF s
<1> QED BY <1>3, <1>4 DEF KeyInfoAck, Hears

(* The answer to the pending invitation opens the session.                 *)
LEMMA MovesOpened ==
  ASSUME NEW s, NEW t, NEW x, NEW q, NEW r, NEW r2, NEW e, NEW p, NEW odd,
         ~(p < e), Shrunk(r, r2), r[1].type = "session-ack", AlikeCalls(s, t),
         s.session[p] = NoSession, r[1].n = s.pending[p],
         t.session[p] = r[1].session, t.inits[p] = s.inits[p], t.pending[p] = 0,
         t.enabled = s.enabled, t.known = s.known, t.asked = s.asked
  PROVE  Moves(s, t, x, q, r, q, r2, e, p, odd)
<1>1. Undone(t) <=> Undone(s)
  BY DEF AlikeCalls
<1>2. Link(s, x, q, r, e, p) =>
        Link(t, x, q, r2, e, p) /\ (Agree(s, x, q, r, e, p) => Agree(t, x, q, r2, e, p))
  BY <1>1, InviterOpens
<1> QED BY <1>2 DEF Moves

(* The key that comes with it touches nothing else.                        *)
LEMMA KeyTaken ==
  ASSUME NEW s, NEW ctx, NEW old, s \in StateWith(ctx, old), NEW p, NEW m, NEW t,
         t = [s EXCEPT !.lastKey[p] = m.key, !.ctx[p] = SetKeys(@, m.key, m.index)]
  PROVE  Rests(s, t)
<1> DEFINE lastKey == [s.lastKey EXCEPT ![p] = m.key]
           ring == [s.ctx EXCEPT ![p] = SetKeys(s.ctx[p], m.key, m.index)]
           u == [s EXCEPT !.lastKey = lastKey, !.ctx = ring]
<1>1. t = u
  BY DEF StateWith
<1> HIDE DEF lastKey, ring
<1>2. Rests(s, u)
  BY DEF StateWith, Rests, Same
<1> QED BY <1>1, <1>2

LEMMA SessionAckHolds ==
  ASSUME IInv, SInv, NEW e \in Endpoint, NEW p \in Endpoint, SessionAck(e, p)
  PROVE  SInv'
<1> DEFINE s == ep[e]
           m == Head(net[p][e])
           mine == {r \in s.reqs : r.kind = "init" /\ r.to = p /\ r.n = m.n}
           session == [s.session EXCEPT ![p] = m.session]
           pending == [s.pending EXCEPT ![p] = 0]
           open == [s EXCEPT !.session = session, !.pending = pending, !.reqs = s.reqs \ mine]
           t == IF m.key = NoKey THEN open
                ELSE [open EXCEPT !.lastKey[p] = m.key, !.ctx[p] = SetKeys(@, m.key, m.index)]
           k == KeyInfo("key-info", s, m.session, 0)
           letter == Mail({p}, LAMBDA q : k)
<1>1. /\ net[p][e] # <<>> /\ m = net[p][e][1] /\ m.type = "session-ack"
      /\ Idle(s) /\ p \in room \cup left /\ e # p /\ Proper(m, p, e)
      /\ EpOK(s, e) /\ CallsOK(s) /\ AskedOK(s) /\ Sees(s, e)
      /\ s \in StateWith(s.ctx, s.old)
  BY Arrives DEF SessionAck
<1>2. /\ m.session \in Session /\ ~(p < e) /\ orphan' = orphan
      /\ s.session[p] = NoSession /\ m.n = s.pending[p]
  <2>1. m.session \in Session
    BY <1>1, PickedUp DEF KeyTypes
  <2>2. e < p /\ e \in Nat /\ p \in Nat
    BY <1>1, ExchangeAssumption DEF Proper
  <2> QED BY <2>1, <2>2 DEF SessionAck, Hears
<1>3. /\ s.session \in [Endpoint -> Session \cup {NoSession}]
      /\ s.pending \in [Endpoint -> Nat] /\ s.reqs \in SUBSET Request
  BY <1>1, TypedFields DEF EpOK
<1>4. Deliver(e, p, t, letter) \/ Deliver(e, p, t, Nothing)
  <2>1. open = [s EXCEPT !.session[p] = m.session, !.pending[p] = 0, !.reqs = @ \ mine]
    BY <1>1 DEF StateWith
  <2>2. Deliver(e, p, t, IF \E r \in mine : r.by = 0 THEN letter ELSE Nothing)
    BY <2>1 DEF SessionAck
  <2> HIDE DEF t, mine, letter
  <2> QED BY <2>2
<1>5. k \in Message /\ k.type = "key-info"
  <2>1. MessageOK(k, e, s.index)
    BY <1>1, <1>2, KeyInfoOK DEF KeyTypes, EpOK
  <2> QED BY <2>1 DEF MessageOK, KeyInfo
<1>6. Letter(letter, p, k)
  BY DEF Mail, Letter
<1>7. /\ session[p] = m.session /\ \A q \in Endpoint : q # p => session[q] = s.session[q]
      /\ pending[p] = 0 /\ \A q \in Endpoint : q # p => pending[q] = s.pending[q]
      /\ s.reqs \ mine \subseteq s.reqs
  BY <1>3
<1> HIDE DEF session, pending, mine, k, letter
<1>8. /\ open.session = session /\ open.inits = s.inits /\ open.pending = pending
      /\ open.known = s.known /\ open.asked = s.asked /\ open.calls = s.calls
      /\ open.enabling = s.enabling /\ open.enabled = s.enabled /\ open.index = s.index
      /\ open.reqs \subseteq s.reqs /\ open.starting = s.starting
  BY <1>1, <1>7 DEF StateWith
<1>9. Rests(open, t) /\ t.pending = open.pending
  <2>1. session \in [Endpoint -> Session \cup {NoSession}] /\ pending \in [Endpoint -> Nat]
    BY <1>2, <1>3 DEF session, pending
  <2>2. s.reqs \ mine \in SUBSET Request
    BY <1>3
  <2>3. open \in StateWith(s.ctx, s.old)
    BY <1>1, <2>1, <2>2 DEF StateWith
  <2> HIDE DEF open, m
  <2>4. Rests(open, open)
    BY DEF Rests, Same
  <2>5. CASE m.key = NoKey
    BY <2>4, <2>5
  <2>6. CASE m.key # NoKey
    <3>1. t = [open EXCEPT !.lastKey[p] = m.key, !.ctx[p] = SetKeys(@, m.key, m.index)]
      BY <2>6
    <3>2. t.pending = open.pending
      BY <3>1
    <3>3. Rests(open, t)
      BY <2>3, <3>1, KeyTaken
    <3> QED BY <3>2, <3>3
  <2> QED BY <2>5, <2>6
<1> HIDE DEF open, t, s
<1>10. t.enabled = s.enabled
  BY <1>8, <1>9 DEF Rests, Same
<1>11. /\ t.session = session /\ t.inits = s.inits /\ t.pending = pending
       /\ t.known = s.known /\ t.asked = s.asked /\ t.calls = s.calls
       /\ t.enabling = s.enabling /\ t.index = s.index
       /\ t.reqs \subseteq s.reqs /\ t.starting = s.starting
  BY <1>8, <1>9 DEF Rests, Same
<1>12. CallsOK(t) /\ AlikeCalls(s, t) /\ AskedOK(t)
  <2>1. t.asked \subseteq s.asked
    BY <1>11
  <2> QED BY <1>1, <1>10, <1>11, <2>1, CallsKept, IdleAsked
<1>13. Sees(t, e)
  BY <1>1, <1>7, <1>11 DEF Sees
<1>14. ASSUME NEW q \in Endpoint, q # p
       PROVE  Steady(s, t, q)
  <2>1. t.session[q] = s.session[q] /\ t.pending[q] = s.pending[q]
    BY <1>7, <1>11, <1>14
  <2>2. (q \in t.asked <=> q \in s.asked) /\ (q \in t.known <=> q \in s.known)
    BY <1>11
  <2> QED BY <1>10, <1>11, <1>12, <2>1, <2>2 DEF Steady, AlikeCalls
<1>15. ASSUME NEW r2, Shrunk(net[p][e], r2)
       PROVE  Moves(s, t, ep[p], net[e][p], net[p][e], net[e][p], r2, e, p, {e, p} \in orphan')
  <2>1. /\ net[p][e][1].type = "session-ack" /\ net[p][e][1].n = s.pending[p]
        /\ t.session[p] = net[p][e][1].session /\ t.pending[p] = 0 /\ t.inits[p] = s.inits[p]
    BY <1>1, <1>2, <1>7, <1>11
  <2> QED BY <1>2, <1>10, <1>11, <1>12, <1>15, <2>1, MovesOpened
<1>16. Hung(s) => Hung(t)
  BY <1>12 DEF AlikeCalls
<1>17. CASE Deliver(e, p, t, Nothing)
  BY <1>1, <1>2, <1>12, <1>13, <1>14, <1>15, <1>16, <1>17, TakenHolds DEF s
<1>18. CASE Deliver(e, p, t, letter)
  <2>1. Proper(k, e, p) /\ Neutral(k)
    BY <1>5 DEF Proper, Neutral
  <2>2. ASSUME NEW q2, NEW r2, Shrunk(net[p][e], r2), Grown(net[e][p], q2, k)
        PROVE  Moves(s, t, ep[p], net[e][p], net[p][e], q2, r2, e, p, {e, p} \in orphan')
    BY <1>15, <2>1, <2>2, MovesMurmurs
  <2> QED BY <1>1, <1>2, <1>5, <1>6, <1>12, <1>13, <1>14, <1>16, <1>18, <2>1, <2>2,
             AnsweredHolds DEF s
<1> QED BY <1>4, <1>17, <1>18

LEMMA LateSessionAckHolds ==
  ASSUME IInv, SInv, NEW e \in Endpoint, NEW p \in Endpoint, LateSessionAck(e, p)
  PROVE  SInv'
<1> DEFINE s == ep[e]
<1>1. /\ net[p][e] # <<>> /\ Head(net[p][e]) = net[p][e][1]
      /\ Head(net[p][e]).type = "session-ack" /\ e # p /\ Proper(Head(net[p][e]), p, e)
      /\ CallsOK(s) /\ AskedOK(s) /\ Sees(s, e)
  BY Arrives DEF LateSessionAck
<1>2. Deliver(e, p, s, Nothing) /\ orphan \subseteq orphan' /\ {e, p} \in orphan'
  BY DEF LateSessionAck
<1>3. ~(p < e)
  <2>1. e < p /\ e \in Nat /\ p \in Nat
    BY <1>1, ExchangeAssumption DEF Proper
  <2> QED BY <2>1
<1>4. \A q \in Endpoint : Steady(s, s, q)
  BY DEF Steady
<1>5. ASSUME NEW r2, Shrunk(net[p][e], r2)
      PROVE  Moves(s, s, ep[p], net[e][p], net[p][e], net[e][p], r2, e, p, {e, p} \in orphan')
  <2>1. net[p][e][1].type \in {"session-ack", "off"}
    BY <1>1
  <2>2. Link(s, ep[p], net[e][p], net[p][e], e, p) => Link(s, ep[p], net[e][p], r2, e, p)
    BY <1>5, <2>1, InviterIsLate
  <2> QED BY <1>2, <1>3, <2>2 DEF Moves
<1> HIDE DEF s
<1> QED BY <1>1, <1>2, <1>4, <1>5, TakenHolds DEF s

-----------------------------------------------------------------------------
(***************************************************************************)
(* Who joins and who leaves.                                               *)
(***************************************************************************)

(* Nothing is between two when one of them has just come.                  *)
LEMMA FreshPair ==
  ASSUME NEW t, NEW x, NEW q, NEW r, NEW e, NEW p,
         1 \in DOMAIN q, \A i \in DOMAIN q : q[i].type = "joined", DOMAIN r = {},
         p \in t.known, t.session[p] = NoSession, t.enabled = FALSE,
         t.inits[p] = 0, t.pending[p] = 0,
         x.session[e] = NoSession, x.inits[e] = 0, x.pending[e] = 0
  PROVE  /\ Link(t, x, q, r, e, p) /\ Agree(t, x, q, r, e, p)
         /\ Link(x, t, r, q, p, e) /\ Agree(x, t, r, q, p, e)
<1>1. /\ \A i : ~IsInit(q, i) /\ ~IsAck(q, i) /\ ~IsOff(q, i) /\ ~IsOn(q, i)
      /\ \A i : ~IsInit(r, i) /\ ~IsAck(r, i) /\ ~IsOff(r, i) /\ ~IsOn(r, i)
      /\ Greets(q)
  BY DEF IsInit, IsAck, IsOff, IsOn, Greets
<1>2. Link(t, x, q, r, e, p)
  <2>1. Ordered(t, q, r, e, p)
    BY <1>1 DEF Ordered
  <2>2. Knows(t, x, q, r, e, p)
    BY <1>1 DEF Knows
  <2> QED BY <2>1, <2>2 DEF Link
<1>3. Link(x, t, r, q, p, e)
  <2>1. Ordered(x, r, q, p, e)
    BY <1>1 DEF Ordered
  <2>2. Knows(x, t, r, q, p, e)
    BY <1>1 DEF Knows
  <2> QED BY <2>1, <2>2 DEF Link
<1>4. Agree(t, x, q, r, e, p)
  BY <1>1 DEF Agree, Holds1, Holds2, Frees, Answers, Asks, Waits, Tells, Invites
<1>5. Agree(x, t, r, q, p, e)
  BY <1>1 DEF Agree, Holds1, Holds2, Frees, Answers, Asks, Waits, Tells, Invites
<1> QED BY <1>2, <1>3, <1>4, <1>5

(* Who has made no call yet, and what New says of it.                      *)
LEMMA NewHolds ==
  ASSUME NEW t, t.calls = <<>>, t.enabling = 0, t.starting = 0, t.enabled = FALSE,
         t.reqs = {}, t.asked = {}
  PROVE  CallsOK(t) /\ AskedOK(t)
<1>1. DOMAIN <<>> = {}
  OBVIOUS
<1> QED BY <1>1 DEF CallsOK, AskedOK

LEMMA NewFields ==
  /\ New.calls = <<>> /\ New.enabling = 0 /\ New.starting = 0 /\ New.enabled = FALSE
  /\ New.reqs = {} /\ New.asked = {} /\ New.known = {}
  /\ \A p \in Endpoint : New.session[p] = NoSession /\ New.inits[p] = 0 /\ New.pending[p] = 0
BY DEF New

(* What is about neither joining nor leaving stays as it is.               *)
LEMMA OthersKept ==
  ASSUME SInv, NEW a \in room \cap Encrypting, NEW b \in room \cap Encrypting, a < b,
         ep'[a] = ep[a], ep'[b] = ep[b], net'[a][b] = net[a][b], net'[b][a] = net[b][a],
         {a, b} \in orphan => {a, b} \in orphan'
  PROVE  (Linked(a, b) /\ Agreed(a, b))'
<1>1. Linked(a, b) /\ Agreed(a, b)
  BY DEF SInv, PairsOK
<1> QED BY <1>1 DEF Linked, Agreed

LEMMA JoinHolds ==
  ASSUME IInv, SInv, NEW e \in Endpoint, Join(e)
  PROVE  SInv'
<1> DEFINE mail == Mail(room, LAMBDA p : [type |-> "joined", n |-> 0])
           t == [New EXCEPT !.known = room]
<1>1. /\ RoomOK /\ room \subseteq Endpoint /\ Endpoint \subseteq Nat
      /\ net \in Nets /\ NetGood(net, room \cap Encrypting, left, ep)
      /\ ep = [q \in Endpoint |-> ep[q]]
  BY ExchangeAssumption DEF IInv, RoomOK, NetOK, NetGood
<1>2. /\ e \notin room /\ e \notin left /\ room' = room \cup {e} /\ left' = left
      /\ orphan' = orphan /\ net' = Send(net, e, mail)
      /\ ep' = IF e \in Encrypting THEN [ep EXCEPT ![e].known = room] ELSE ep
  BY DEF Join
<1>3. ep[e] = New
  BY <1>1, <1>2 DEF RoomOK
<1>4. /\ mail \in [Endpoint -> Seq(Message)] /\ Single(mail)
      /\ \A p \in room : \E m : mail[p] = <<m>> /\ m.type = "joined"
  <2>1. Plain(mail, room, "joined")
    BY DEF Mail, Plain
  <2> HIDE DEF mail
  <2> QED BY <1>1, <2>1, PlainMail
<1> HIDE DEF mail
<1>5. Posted(net, net', e, mail)
  BY <1>1, <1>2, <1>4, Posts
<1>6. /\ \A q \in Endpoint : q # e => net'[q] = net[q]
      /\ \A p \in Endpoint : p \notin room \cap Encrypting => net'[e][p] = <<>>
      /\ \A p \in Endpoint : net[e][p] = <<>> /\ net[p][e] = <<>>
  BY <1>1, <1>2, <1>5 DEF Posted, SInv, LettersOK, NetGood
<1>7. ASSUME NEW p \in room \cap Encrypting
      PROVE  1 \in DOMAIN net'[e][p] /\ \A i \in DOMAIN net'[e][p] : net'[e][p][i].type = "joined"
  <2>1. PICK m : mail[p] = <<m>> /\ m.type = "joined"
    BY <1>4, <1>7
  <2>2. PICK k : mail[p] = <<k>> /\ Grown(net[e][p], net'[e][p], k)
    <3>1. <<m>> # <<>>
      OBVIOUS
    <3> QED BY <1>5, <1>7, <2>1, <3>1 DEF Posted
  <2>3. k = m
    <3>1. <<m>>[1] = m /\ <<k>>[1] = k
      OBVIOUS
    <3> QED BY <2>1, <2>2, <3>1
  <2>4. net[e][p] = <<>> /\ DOMAIN <<>> = {} /\ p \in Endpoint
    BY <1>1, <1>6, <1>7
  <2>5. PICK n \in Nat \ {0} : DOMAIN net'[e][p] = {n} /\ net'[e][p][n] = m
    BY <2>2, <2>3, <2>4 DEF Grown
  <2>6. n = 1
    <3>1. net'[e][p] = net[e][p] \o mail[p]
      BY <1>1, <1>2, <1>7, <2>4 DEF Send, Nets
    <3>2. <<>> \o <<m>> = <<m>> /\ DOMAIN <<m>> = {1}
      OBVIOUS
    <3> QED BY <2>1, <2>4, <2>5, <3>1, <3>2
  <2> QED BY <2>1, <2>5, <2>6
<1>8. /\ t.known = room /\ t.session = New.session /\ t.inits = New.inits
      /\ t.pending = New.pending /\ t.asked = New.asked /\ t.calls = New.calls
      /\ t.enabling = New.enabling /\ t.enabled = New.enabled /\ t.reqs = New.reqs
      /\ t.starting = New.starting
  BY DEF New
<1>9. /\ \A q \in Endpoint : q # e => ep'[q] = ep[q]
      /\ ep'[e] = New \/ ep'[e] = t
      /\ e \in Encrypting => ep'[e] = t
  BY <1>1, <1>2, <1>3
<1> HIDE DEF t
<1>10. StatesOK'
  <2>1. \A q \in Endpoint : CallsOK(ep[q]) /\ AskedOK(ep[q]) /\ Sees(ep[q], q)
    BY DEF SInv, StatesOK
  <2>2. ASSUME NEW q \in Endpoint
        PROVE  /\ CallsOK(ep'[q]) /\ AskedOK(ep'[q])
               /\ \A p \in ep'[q].asked : q < p
               /\ ep'[q].known \subseteq room \cup {e} \cup left
               /\ ep'[q].asked \subseteq room \cup {e} \cup left
               /\ \A p \in Endpoint : p \notin room \cup {e} \cup left =>
                    ep'[q].session[p] = NoSession /\ ep'[q].pending[p] = 0 /\ ep'[q].inits[p] = 0
    <3>1. CASE q = e
      <4> DEFINE y == ep'[e]
      <4>1. /\ y.known \subseteq room /\ y.session = New.session /\ y.inits = New.inits
            /\ y.pending = New.pending /\ y.asked = New.asked /\ y.calls = New.calls
            /\ y.enabling = New.enabling /\ y.enabled = New.enabled /\ y.reqs = New.reqs
            /\ y.starting = New.starting
        BY <1>8, <1>9, NewFields
      <4> HIDE DEF y
      <4>2. CallsOK(y) /\ AskedOK(y)
        BY <4>1, NewFields, NewHolds
      <4> QED BY <3>1, <4>1, <4>2, NewFields DEF y
    <3>2. CASE q # e
      <4>1. ep'[q] = ep[q]
        BY <1>9, <3>2
      <4> QED BY <2>1, <4>1 DEF Sees
    <3> QED BY <3>1, <3>2
  <2> QED BY <1>2, <2>2 DEF StatesOK, Sees
<1>11. LettersOK'
  <2>1. ASSUME NEW p \in Endpoint
        PROVE  \A i \in DOMAIN net'[e][p] : Proper(net'[e][p][i], e, p)
    <3>1. CASE p \notin room \cap Encrypting
      <4>1. net'[e][p] = <<>> /\ DOMAIN <<>> = {}
        BY <1>6, <3>1
      <4> QED BY <4>1
    <3>2. CASE p \in room \cap Encrypting
      BY <1>7, <3>2 DEF Proper
    <3> QED BY <3>1, <3>2
  <2>2. \A q, w \in Endpoint : \A i \in DOMAIN net'[q][w] : Proper(net'[q][w][i], q, w)
    BY <1>6, <2>1 DEF SInv, LettersOK
  <2>3. \A q, w \in Endpoint : q \notin room' \cup left' => net'[q][w] = <<>>
    BY <1>2, <1>6 DEF SInv, LettersOK
  <2>4. \A m, q, w : Proper(m, q, w) => Proper(m, q, w)'
    BY <1>2 DEF Proper
  <2> QED BY <2>2, <2>3, <2>4 DEF LettersOK, Proper
<1>12. ASSUME NEW p \in room \cap Encrypting, e \in Encrypting
       PROVE  (Linked(e, p) /\ Agreed(e, p) /\ Linked(p, e) /\ Agreed(p, e))'
  <2>1. p \in Endpoint /\ p # e /\ ep'[p] = ep[p] /\ ep'[e] = t /\ net'[p][e] = <<>>
        /\ DOMAIN <<>> = {}
    BY <1>1, <1>2, <1>6, <1>9, <1>12
  <2>2. ep[p].session[e] = NoSession /\ ep[p].inits[e] = 0 /\ ep[p].pending[e] = 0
    BY <1>2, <2>1 DEF SInv, StatesOK, Sees
  <2>3. p \in t.known /\ t.session[p] = NoSession /\ t.enabled = FALSE
        /\ t.inits[p] = 0 /\ t.pending[p] = 0
    BY <1>8, <1>12, <2>1, NewFields
  <2>4. /\ Link(t, ep[p], net'[e][p], net'[p][e], e, p)
        /\ Agree(t, ep[p], net'[e][p], net'[p][e], e, p)
        /\ Link(ep[p], t, net'[p][e], net'[e][p], p, e)
        /\ Agree(ep[p], t, net'[p][e], net'[e][p], p, e)
    BY <1>7, <1>12, <2>1, <2>2, <2>3, FreshPair
  <2> QED BY <2>1, <2>4 DEF Linked, Agreed
<1>13. PairsOK'
  <2> SUFFICES ASSUME NEW a \in room' \cap Encrypting, NEW b \in room' \cap Encrypting, a < b
               PROVE  (Linked(a, b) /\ Agreed(a, b))'
    BY DEF PairsOK
  <2>1. a \in Endpoint /\ b \in Endpoint /\ a # b
    BY <1>1, <1>2
  <2>2. CASE a = e
    BY <1>2, <1>12, <2>1, <2>2
  <2>3. CASE b = e
    BY <1>2, <1>12, <2>1, <2>3
  <2>4. CASE a # e /\ b # e
    <3>1. a \in room \cap Encrypting /\ b \in room \cap Encrypting
      BY <1>2, <2>4
    <3>2. /\ ep'[a] = ep[a] /\ ep'[b] = ep[b] /\ net'[a][b] = net[a][b] /\ net'[b][a] = net[b][a]
      BY <1>6, <1>9, <2>1, <2>4
    <3> QED BY <1>2, <3>1, <3>2, OthersKept
  <2> QED BY <2>2, <2>3, <2>4
<1> QED BY <1>10, <1>11, <1>13 DEF SInv

LEMMA LeaveHolds ==
  ASSUME IInv, SInv, NEW e \in Endpoint, Leave(e)
  PROVE  SInv'
<1> DEFINE m == [type |-> "left", n |-> 0]
           R == room \cap Encrypting
<1>1. /\ RoomOK /\ room \subseteq Endpoint /\ Endpoint \subseteq Nat
      /\ net \in Nets /\ NetGood(net, room \cap Encrypting, left, ep)
      /\ ep = [q \in Endpoint |-> ep[q]]
  BY ExchangeAssumption DEF IInv, RoomOK, NetOK, NetGood
<1>2. /\ room' = room \ {e} /\ left' = left \cup {e} /\ e \in room
      /\ ep' = [ep EXCEPT ![e] = New] /\ orphan' = {x \in orphan : e \notin x}
  BY DEF Leave
<1>3. \A p \in Endpoint : net[p] \in [Endpoint -> Seq(Message)]
  BY <1>1 DEF Nets
<1>4. /\ \A q \in Endpoint : net'[e][q] = IF q \in R \ {e} THEN Append(net[e][q], m) ELSE <<>>
      /\ \A p, q \in Endpoint : p # e => net'[p][q] = IF q = e THEN <<>> ELSE net[p][q]
  BY <1>3 DEF Leave
<1>5. m \in Message /\ m.type = "left"
  BY DEF Message
<1> HIDE DEF m
<1>6. /\ \A q \in Endpoint : q # e => ep'[q] = ep[q]
      /\ ep'[e] = New /\ room' \cup left' = room \cup left
  BY <1>1, <1>2
<1>7. StatesOK'
  <2>1. \A q \in Endpoint : CallsOK(ep[q]) /\ AskedOK(ep[q]) /\ Sees(ep[q], q)
    BY DEF SInv, StatesOK
  <2>2. ASSUME NEW q \in Endpoint
        PROVE  /\ CallsOK(ep'[q]) /\ AskedOK(ep'[q])
               /\ \A p \in ep'[q].asked : q < p
               /\ ep'[q].known \subseteq room \cup left /\ ep'[q].asked \subseteq room \cup left
               /\ \A p \in Endpoint : p \notin room \cup left =>
                    ep'[q].session[p] = NoSession /\ ep'[q].pending[p] = 0 /\ ep'[q].inits[p] = 0
    <3>1. CASE q = e
      <4>1. ep'[q] = New
        BY <1>6, <3>1
      <4>2. CallsOK(New) /\ AskedOK(New)
        BY NewFields, NewHolds
      <4> QED BY <4>1, <4>2, NewFields
    <3>2. CASE q # e
      <4>1. ep'[q] = ep[q]
        BY <1>6, <3>2
      <4> QED BY <2>1, <4>1 DEF Sees
    <3> QED BY <3>1, <3>2
  <2> QED BY <1>6, <2>2 DEF StatesOK, Sees
<1>8. LettersOK'
  <2> DEFINE Apt(k, q, w) == /\ k.type = "session-init" => q < w
                             /\ k.type = "session-ack" => w < q
                             /\ k.type = "left" => q \in left'
  <2>1. DOMAIN <<>> = {}
    OBVIOUS
  <2>2. \A k, q, w : Proper(k, q, w) => Apt(k, q, w)
    BY <1>2 DEF Proper
  <2>3. \A q : Apt(m, e, q)
    BY <1>2, <1>5
  <2>4. \A q, w \in Endpoint : \A i \in DOMAIN net[q][w] : Apt(net[q][w][i], q, w)
    BY <2>2 DEF SInv, LettersOK
  <2> HIDE DEF Apt
  <2>5. ASSUME NEW q \in Endpoint
        PROVE  \A i \in DOMAIN net'[e][q] : Apt(net'[e][q][i], e, q)
    <3>1. CASE q \in R \ {e}
      <4>1. net'[e][q] = Append(net[e][q], m) /\ net[e][q] \in Seq(Message)
        BY <1>3, <1>4, <3>1
      <4>2. Grown(net[e][q], net'[e][q], m)
        <5> DEFINE c == net[e][q]
        <5>1. Grown(c, c \o <<m>>, m)
          BY <1>5, <4>1, GrowsOne
        <5>2. Append(c, m) = c \o <<m>>
          BY <4>1
        <5> QED BY <4>1, <5>1, <5>2
      <4> QED BY <2>3, <2>4, <4>2 DEF Grown
    <3>2. CASE q \notin R \ {e}
      BY <1>4, <2>1, <3>2
    <3> QED BY <3>1, <3>2
  <2>6. ASSUME NEW q \in Endpoint, NEW w \in Endpoint
        PROVE  \A i \in DOMAIN net'[q][w] : Apt(net'[q][w][i], q, w)
    <3>1. CASE q = e
      BY <2>5, <3>1
    <3>2. CASE q # e /\ w = e
      <4>1. net'[q][w] = <<>>
        BY <1>4, <3>2
      <4> QED BY <2>1, <4>1
    <3>3. CASE q # e /\ w # e
      <4>1. net'[q][w] = net[q][w]
        BY <1>4, <3>3
      <4> QED BY <2>4, <4>1
    <3> QED BY <3>1, <3>2, <3>3
  <2>7. ASSUME NEW q \in Endpoint, NEW w \in Endpoint, q \notin room \cup left
        PROVE  net'[q][w] = <<>>
    <3>1. net[q][w] = <<>> /\ q # e
      BY <1>2, <2>7 DEF SInv, LettersOK
    <3> QED BY <1>4, <3>1
  <2> QED BY <1>6, <2>6, <2>7 DEF LettersOK, Proper, Apt
<1>9. PairsOK'
  <2> SUFFICES ASSUME NEW a \in room' \cap Encrypting, NEW b \in room' \cap Encrypting, a < b
               PROVE  (Linked(a, b) /\ Agreed(a, b))'
    BY DEF PairsOK
  <2>1. a \in Endpoint /\ b \in Endpoint /\ a # e /\ b # e /\ a \in R /\ b \in R
    BY <1>1, <1>2
  <2>2. {a, b} \in orphan => {a, b} \in orphan'
    BY <1>2, <2>1
  <2>3. /\ ep'[a] = ep[a] /\ ep'[b] = ep[b] /\ net'[a][b] = net[a][b] /\ net'[b][a] = net[b][a]
    BY <1>4, <1>6, <2>1
  <2> QED BY <2>1, <2>2, <2>3, OthersKept
<1> QED BY <1>7, <1>8, <1>9 DEF SInv

-----------------------------------------------------------------------------
(***************************************************************************)
(* The inductive invariant, and what follows from it.                      *)
(***************************************************************************)

LEMMA InitSInv == Init => SInv
<1> SUFFICES ASSUME Init PROVE SInv
  OBVIOUS
<1>1. /\ \A e \in Endpoint : ep[e] = New /\ \A p \in Endpoint : net[e][p] = <<>>
      /\ room = {} /\ DOMAIN <<>> = {}
  BY DEF Init
<1>2. StatesOK
  <2>1. CallsOK(New) /\ AskedOK(New)
    BY NewFields, NewHolds
  <2>2. \A e \in Endpoint : Sees(New, e)
    BY NewFields DEF Sees
  <2> QED BY <1>1, <2>1, <2>2 DEF StatesOK
<1>3. LettersOK
  BY <1>1 DEF LettersOK
<1>4. PairsOK
  BY <1>1 DEF PairsOK
<1> QED BY <1>2, <1>3, <1>4 DEF SInv

LEMMA ContinueHolds ==
  ASSUME IInv, SInv, NEW e \in Endpoint, Continue(e)
  PROVE  SInv'
<1>1. ASSUME NEW i, TurnOn(e, i)
      PROVE  SInv'
  <2>1. CASE ep[e].starting = 0
    BY <1>1, <2>1, TurnOnInvites
  <2>2. CASE ep[e].starting # 0
    BY <1>1, <2>2, TurnOnHangs
  <2> QED BY <2>1, <2>2
<1>2. ASSUME NEW i, TurnOff(e, i)
      PROVE  SInv'
  BY <1>2, TurnOffHolds
<1>3. ASSUME NEW i, Switched(e, i)
      PROVE  SInv'
  BY <1>3, SwitchedHolds
<1>4. ASSUME KeyMade(e)
      PROVE  SInv'
  BY <1>4, KeyMadeHolds
<1>5. ASSUME NEW n, Rotated(e, n)
      PROVE  SInv'
  BY <1>5, RotatedHolds
<1>6. ASSUME NEW p \in Endpoint, InviteAsked(e, p)
      PROVE  SInv'
  BY <1>6, InviteAskedHolds
<1> QED BY <1>1, <1>2, <1>3, <1>4, <1>5, <1>6 DEF Continue

LEMMA TimerHolds ==
  ASSUME IInv, SInv, NEW e \in Endpoint, Timer(e)
  PROVE  SInv'
BY RotateHolds, RatchetKeyHolds, RatchetDoneHolds, TimeoutHolds DEF Timer

LEMMA ReceiveHolds ==
  ASSUME IInv, SInv, NEW e \in Endpoint, NEW p \in Endpoint, Receive(e, p)
  PROVE  SInv'
BY ParticipantJoinedHolds, ParticipantLeftHolds, PropertyChangedHolds, SessionInitHolds,
   SessionAckHolds, LateSessionAckHolds, KeyInfoReceivedHolds, KeyInfoAckHolds DEF Receive

LEMMA NextSInv == IInv /\ SInv /\ [Next]_vars => SInv'
<1> SUFFICES ASSUME IInv, SInv, [Next]_vars PROVE SInv'
  OBVIOUS
<1>1. CASE Next
  <2>1. PICK e \in Endpoint :
          \/ Continue(e) \/ Timer(e) \/ Join(e) \/ Leave(e)
          \/ \E want \in BOOLEAN : SetEnabled(e, want)
          \/ \E p \in Endpoint : Receive(e, p) \/ Frame(e, p)
    BY <1>1 DEF Next
  <2>2. CASE Continue(e)
    BY <2>2, ContinueHolds
  <2>3. CASE Timer(e)
    BY <2>3, TimerHolds
  <2>4. CASE Join(e)
    BY <2>4, JoinHolds
  <2>5. CASE Leave(e)
    BY <2>5, LeaveHolds
  <2>6. ASSUME NEW want \in BOOLEAN, SetEnabled(e, want)
        PROVE  SInv'
    BY <2>6, SetEnabledHolds
  <2>7. ASSUME NEW p \in Endpoint, Receive(e, p)
        PROVE  SInv'
    BY <2>7, ReceiveHolds
  <2>8. ASSUME NEW p \in Endpoint, Frame(e, p)
        PROVE  SInv'
    BY <2>8, FrameHolds
  <2> QED BY <2>1, <2>2, <2>3, <2>4, <2>5, <2>6, <2>7, <2>8
<1>2. CASE UNCHANGED vars
  <2>1. ep' = ep /\ net' = net /\ room' = room /\ left' = left /\ orphan' = orphan
    BY <1>2 DEF vars
  <2>2. StatesOK'
    BY <2>1 DEF SInv, StatesOK, Sees
  <2>3. LettersOK'
    BY <2>1 DEF SInv, LettersOK, Proper
  <2>4. PairsOK'
    BY <2>1 DEF SInv, PairsOK, Linked, Agreed
  <2> QED BY <2>2, <2>3, <2>4 DEF SInv
<1> QED BY <1>1, <1>2

(* Of two between whom nothing is under way, the inviter holds the session *)
(* of the other.                                                           *)
LEMMA QuietAgree ==
  ASSUME NEW s, NEW t, NEW q, NEW r, NEW a, NEW b, Agree(s, t, q, r, a, b),
         DOMAIN q = {}, DOMAIN r = {}, s.enabled, t.enabled, s.asked = {},
         ~Undone(t), ~SwitchesOn(t)
  PROVE  s.session[b] # NoSession /\ s.session[b] = t.session[a]
<1>1. \A i : ~IsInit(q, i) /\ ~IsAck(r, i) /\ ~IsOn(r, i) /\ ~IsOff(r, i)
  BY DEF IsInit, IsAck, IsOn, IsOff
<1>2. s.session[b] # NoSession
  BY <1>1 DEF Agree, Invites, Going
<1> QED BY <1>1, <1>2 DEF Agree, Holds1

(* Nothing of a call is left to do when everything of e's is through.      *)
LEMMA SettledCalls ==
  ASSUME NEW e \in Endpoint, Settled(e), CallsOK(ep[e])
  PROVE  /\ ~Hung(ep[e]) /\ ~Undone(ep[e]) /\ ~SwitchesOn(ep[e]) /\ ep[e].asked = {}
<1>1. ep[e].asked = {} /\ \A i \in DOMAIN ep[e].calls : ep[e].calls[i].phase = "done"
  BY DEF Settled
<1>2. ~Hung(ep[e]) /\ ~SwitchesOn(ep[e])
  BY <1>1 DEF Hung, SwitchesOn
<1>3. ~Undone(ep[e])
  BY <1>1 DEF Undone, CallsOK
<1> QED BY <1>1, <1>2, <1>3

LEMMA InvariantAgrees == IInv /\ SInv => SessionsAgree
<1> SUFFICES ASSUME IInv, SInv,
                    NEW e \in room, NEW p \in room, e # p, {e, p} \notin orphan,
                    ep[e].enabled, ep[p].enabled, Quiet(e, p)
             PROVE  ep[e].session[p] # NoSession /\ ep[e].session[p] = ep[p].session[e]
  BY DEF SessionsAgree
<1>1. e \in Endpoint /\ p \in Endpoint /\ Endpoint \subseteq Nat
  BY ExchangeAssumption DEF IInv, RoomOK
<1>2. e \in Encrypting /\ p \in Encrypting
  <2>1. ep[e] # New /\ ep[p] # New
    BY NewFields
  <2> QED BY <1>1, <2>1 DEF IInv, RoomOK
<1>3. /\ ~Hung(ep[e]) /\ ~Undone(ep[e]) /\ ~SwitchesOn(ep[e]) /\ ep[e].asked = {}
      /\ ~Hung(ep[p]) /\ ~Undone(ep[p]) /\ ~SwitchesOn(ep[p]) /\ ep[p].asked = {}
  BY <1>1, SettledCalls DEF Quiet, SInv, StatesOK
<1>4. net[e][p] = <<>> /\ net[p][e] = <<>> /\ DOMAIN <<>> = {}
  BY DEF Quiet
<1>5. CASE e < p
  <2>1. Agree(ep[e], ep[p], net[e][p], net[p][e], e, p)
    BY <1>2, <1>3, <1>5 DEF SInv, PairsOK, Agreed
  <2> QED BY <1>3, <1>4, <2>1, QuietAgree
<1>6. CASE p < e
  <2>1. Agree(ep[p], ep[e], net[p][e], net[e][p], p, e)
    <3>1. {p, e} = {e, p}
      OBVIOUS
    <3> QED BY <1>2, <1>3, <1>6, <3>1 DEF SInv, PairsOK, Agreed
  <2>2. ep[p].session[e] # NoSession /\ ep[p].session[e] = ep[e].session[p]
    BY <1>3, <1>4, <2>1, QuietAgree
  <2> QED BY <2>2
<1> QED BY <1>1, <1>5, <1>6

(* Two participants who both encrypt, with nothing under way between them, *)
(* hold the same session, unless one of them kept a session that the other *)
(* had freed: whatever the order of joining, of the calls of setEnabled on *)
(* either side and of the timeouts of requests, and whichever of           *)
(* session-init, its answer and presence comes first (_sendSessionInit,    *)
(* _onEndpointMessageReceived, clearParticipantSession,                    *)
(* _onParticipantPropertyChanged).                                         *)
THEOREM SessionsAgreed == Spec => []SessionsAgree
BY InitSInv, Inductive, NextSInv, InvariantAgrees, PTL DEF Spec
===============================================================================
