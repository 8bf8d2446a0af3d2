--------------------------- MODULE BridgeLinkProofs ---------------------------
(***************************************************************************)
(* Proofs about BridgeLink and ReceiveVideo, for every set of endpoints,   *)
(* heights and constraints, every deployment and every bound.              *)
(***************************************************************************)
EXTENDS BridgeLink, TLAPS, SequenceTheorems, FiniteSetTheorems

-----------------------------------------------------------------------------
(* The inductive invariant.                                                *)

(* Channels and sockets belong together: RTC's channel was not closed      *)
(* here, a channel's socket is its own and not gone, and one that was      *)
(* closed here has neither a socket nor a timer.                           *)
LinkOK ==
    /\ rtc # 0 => ~chan[rtc].byClient
    /\ \A c \in DOMAIN chan :
         /\ chan[c].ref # 0 =>
              /\ chan[c].ref \in DOMAIN sock
              /\ sock[chan[c].ref].of = c /\ sock[chan[c].ref].state # "gone"
         /\ chan[c].byClient => chan[c].ref = 0 /\ ~chan[c].timer
    /\ \A i \in DOMAIN sock :
         /\ sock[i].of \in DOMAIN chan
         /\ sock[i].state = "connecting" => sock[i].told = Unasked

(* A channel over a socket that may retry is ready to, or waits for one to *)
(* open; while it waits its own socket, if it has one, is not open yet.    *)
RetryOK ==
    \A c \in DOMAIN chan :
      /\ mode = "websocket" /\ ~chan[c].byClient => chan[c].retries \/ chan[c].once
      /\ chan[c].timer => chan[c].once
      /\ chan[c].once /\ chan[c].ref # 0 => sock[chan[c].ref].state = "connecting"

(* The second half of ChannelComesBack.                                    *)
RtcComesBack ==
    rtc # 0 /\ mode = "websocket" =>
        \/ chan[rtc].timer
        \/ chan[rtc].ref # 0 /\ chan[rtc].retries
        \/ chan[rtc].crossed

(* There is no session without the room, no more of its transport being    *)
(* replaced than was asked for, and, the first half of ChannelComesBack, a *)
(* channel unless the transport is being replaced or could not be.         *)
SessionOK ==
    /\ Present => room
    /\ jvb.replacing <= jvb.replaces
    /\ Present => rtc # 0 \/ jvb.replacing > 0 \/ jvb.broken

(* As long as the application names values only, the controller holds      *)
(* those, and its object shows them; the height lags behind until there is *)
(* a session.                                                              *)
ValuesOK ==
    "own" \notin asked.ways =>
      /\ ctl.lastN = asked.lastN /\ ctl.rvcLastN = asked.lastN
      /\ ctl.selected = asked.view.shown /\ ctl.height = asked.view.height
      /\ jvb.state = "started" => ctl.rvcHeight = ctl.height
      /\ ctl.obj = Updated(ctl).obj
      /\ ctl.selected = {} => ctl.obj.view = NoView

(* As long as it sets constraints only, the object is the last of them,    *)
(* but for the lastN of a session that started since.                      *)
OwnOK ==
    "values" \notin asked.ways =>
      /\ ctl.selected = {}
      /\ asked.ways # {} =>
           \E n \in {asked.own.lastN, ctl.rvcLastN} : ctl.obj = [asked.own EXCEPT !.lastN = n]

(* What is not kept for the channel is as it was in the beginning.         *)
UnsentOK ==
    ~ctl.cached => ctl.obj = Unasked /\ ctl.rvcLastN = Unlimited /\ ctl.selected = {}

(* The bridge at the other end of an open channel was told the object.     *)
ToldOK ==
    IsOpen(rtc) /\ asked.ways # {"values", "own"} => sock[chan[rtc].ref].told = ctl.obj

LinkType ==
    chan \in Seq(Channel) /\ sock \in Seq(Socket) /\ rtc \in {0, Len(chan)}

LinkInv == LinkType /\ LinkOK /\ RetryOK /\ RtcComesBack

WishInv == ValuesOK /\ OwnOK /\ UnsentOK

IInv == TypeOK /\ LinkInv /\ SessionOK /\ WishInv /\ ToldOK /\ FailureHandled

-----------------------------------------------------------------------------
(* Lemmas about the operators on sockets and channels.                     *)

LEMMA Replaced ==
    ASSUME NEW S, NEW s \in Seq(S), NEW i \in DOMAIN s, NEW x \in S, NEW t,
           t = [s EXCEPT ![i] = x]
    PROVE  /\ t \in Seq(S) /\ Len(t) = Len(s) /\ DOMAIN t = DOMAIN s
           /\ t[i] = x /\ \A j \in DOMAIN s \ {i} : t[j] = s[j]
    BY ExceptSeq, LenProperties

LEMMA Appended ==
    ASSUME NEW S, NEW s \in Seq(S), NEW x \in S, NEW t, t = Append(s, x)
    PROVE  /\ t \in Seq(S) /\ Len(t) = Len(s) + 1
           /\ Len(s) \in Nat /\ Len(t) \notin DOMAIN s
           /\ DOMAIN t = DOMAIN s \union {Len(t)}
           /\ t[Len(t)] = x /\ \A j \in DOMAIN s : t[j] = s[j]
<1>1. t \in Seq(S) /\ Len(t) = Len(s) + 1 /\ Len(s) \in Nat
  BY AppendProperties, LenProperties
<1>2. DOMAIN t = 1 .. Len(t) /\ DOMAIN s = 1 .. Len(s)
  BY <1>1, LenProperties
<1>3. \A j \in DOMAIN s : t[j] = s[j]
  BY <1>2, AppendProperties
<1>4. t[Len(t)] = x
  BY <1>1, AppendProperties
<1>5. QED
  BY <1>1, <1>2, <1>3, <1>4

LEMMA SequenceDomains ==
    ASSUME LinkType
    PROVE  /\ Len(chan) \in Nat /\ DOMAIN chan = 1 .. Len(chan)
           /\ \A c \in DOMAIN chan : chan[c] \in Channel
           /\ Len(sock) \in Nat /\ DOMAIN sock = 1 .. Len(sock)
           /\ \A i \in DOMAIN sock : sock[i] \in Socket
           /\ rtc # 0 => rtc \in DOMAIN chan
    BY DEF LinkType

LEMMA UnaskedType == Unasked \in Constraints
    BY ReceiveVideoAssumption DEF Unasked, Constraints, View, NoView, Unlimited

(* What is told changes at most for the socket of RTC's channel.           *)
LEMMA ToldFields ==
    ASSUME LinkType, NEW ss \in Seq(Socket), NEW k \in Controller,
           OpenIn(ss, rtc) => chan[rtc].ref \in DOMAIN ss
    PROVE  /\ Told(ss, k) \in Seq(Socket) /\ Len(Told(ss, k)) = Len(ss)
           /\ DOMAIN Told(ss, k) = DOMAIN ss
           /\ \A i \in DOMAIN ss :
                /\ Told(ss, k)[i].of = ss[i].of /\ Told(ss, k)[i].state = ss[i].state
                /\ Told(ss, k)[i].told =
                     IF OpenIn(ss, rtc) /\ k.cached /\ i = chan[rtc].ref
                     THEN k.obj ELSE ss[i].told
<1>1. CASE OpenIn(ss, rtc) /\ k.cached
  <2> DEFINE r == chan[rtc].ref
             x == [ss[r] EXCEPT !.told = k.obj]
  <2>1. r \in 1 .. Len(ss) /\ ss[r] \in Socket /\ k.obj \in Constraints
    BY <1>1 DEF Controller
  <2>2. x \in Socket /\ x.of = ss[r].of /\ x.state = ss[r].state /\ x.told = k.obj
    BY <2>1 DEF Socket
  <2>3. Told(ss, k) = [ss EXCEPT ![r] = x]
    BY <1>1 DEF Told
  <2> HIDE DEF x, r
  <2>4. /\ Told(ss, k) \in Seq(Socket) /\ Len(Told(ss, k)) = Len(ss)
        /\ \A j \in 1 .. Len(ss) : Told(ss, k)[j] = IF j = r THEN x ELSE ss[j]
    BY <2>1, <2>2, <2>3, ExceptSeq
  <2>5. QED
    BY <1>1, <2>1, <2>2, <2>4 DEF r
<1>2. CASE ~(OpenIn(ss, rtc) /\ k.cached)
  BY <1>2 DEF Told
<1>3. QED
  BY <1>1, <1>2

LEMMA WithoutSocketFields ==
    ASSUME LinkType, NEW i \in DOMAIN sock
    PROVE  /\ WithoutSocket(i) \in Seq(Socket) /\ Len(WithoutSocket(i)) = Len(sock)
           /\ DOMAIN WithoutSocket(i) = DOMAIN sock
           /\ WithoutSocket(i)[i].of = sock[i].of
           /\ WithoutSocket(i)[i].state = "gone" /\ WithoutSocket(i)[i].told = Unasked
           /\ \A j \in DOMAIN sock \ {i} : WithoutSocket(i)[j] = sock[j]
<1> DEFINE x == [sock[i] EXCEPT !.state = "gone", !.told = Unasked]
<1>1. i \in 1 .. Len(sock) /\ sock[i] \in Socket
  BY SequenceDomains
<1>2. x \in Socket
  BY <1>1, UnaskedType DEF Socket
<1>5. x.of = sock[i].of /\ x.state = "gone" /\ x.told = Unasked
  BY <1>1 DEF Socket
<1>3. WithoutSocket(i) = [sock EXCEPT ![i] = x]
  BY DEF WithoutSocket
<1> HIDE DEF x
<1>4. /\ WithoutSocket(i) \in Seq(Socket) /\ Len(WithoutSocket(i)) = Len(sock)
      /\ \A j \in 1 .. Len(sock) : WithoutSocket(i)[j] = IF j = i THEN x ELSE sock[j]
  BY <1>1, <1>2, <1>3, ExceptSeq DEF LinkType
<1>6. QED
  BY <1>1, <1>2, <1>4, <1>5, SequenceDomains, LenProperties DEF LinkType

(* An operator that is defined on one channel at a time.                   *)
LEMMA ChannelMap ==
    ASSUME NEW f, LinkType, f = [c \in DOMAIN chan |-> f[c]],
           \A c \in DOMAIN chan : f[c] \in Channel
    PROVE  f \in Seq(Channel) /\ Len(f) = Len(chan) /\ DOMAIN f = DOMAIN chan
<1>1. DOMAIN chan = 1 .. Len(chan) /\ Len(chan) \in Nat
  BY SequenceDomains
<1>2. f \in [1 .. Len(chan) -> Channel]
  BY <1>1
<1>3. f \in Seq(Channel)
  BY <1>1, <1>2, SeqDef
<1>4. DOMAIN f = 1 .. Len(f) /\ Len(f) \in Nat
  BY <1>3, LenProperties
<1>5. QED
  BY <1>1, <1>2, <1>3, <1>4

-----------------------------------------------------------------------------
(* Every step keeps LinkInv.                                               *)

(* Telling, and every step that leaves the sockets where they are.         *)
LEMMA SameLink ==
    ASSUME LinkInv, UNCHANGED <<mode, rtc, chan>>,
           sock' \in Seq(Socket), DOMAIN sock' = DOMAIN sock,
           \A i \in DOMAIN sock :
              /\ sock'[i].of = sock[i].of /\ sock'[i].state = sock[i].state
              /\ sock[i].state = "connecting" => sock'[i].told = sock[i].told
    PROVE  LinkInv'
<1>1. LinkType'
  BY DEF LinkInv, LinkType
<1>2. LinkOK'
  BY DEF LinkInv, LinkOK
<1>3. RetryOK'
  BY DEF LinkInv, LinkOK, RetryOK
<1>4. RtcComesBack'
  BY DEF LinkInv, RtcComesBack
<1>5. QED
  BY <1>1, <1>2, <1>3, <1>4 DEF LinkInv

LEMMA ToldLink ==
    ASSUME LinkInv, UNCHANGED <<mode, rtc, chan>>, NEW k \in Controller,
           sock' = Told(sock, k)
    PROVE  LinkInv'
<1>1. OpenIn(sock, rtc) => chan[rtc].ref \in DOMAIN sock
  BY SequenceDomains DEF LinkInv, LinkOK, OpenIn
<1>2. sock \in Seq(Socket) /\ LinkType
  BY DEF LinkInv, LinkType
<1>3. /\ sock' \in Seq(Socket) /\ DOMAIN sock' = DOMAIN sock
      /\ \A i \in DOMAIN sock :
           /\ sock'[i].of = sock[i].of /\ sock'[i].state = sock[i].state
           /\ sock'[i].told = IF OpenIn(sock, rtc) /\ k.cached /\ i = chan[rtc].ref
                              THEN k.obj ELSE sock[i].told
  BY <1>1, <1>2, ToldFields
<1>4. \A i \in DOMAIN sock : sock[i].state = "connecting" => sock'[i].told = sock[i].told
  BY <1>3 DEF OpenIn
<1>5. QED
  BY <1>3, <1>4, SameLink

LEMMA NewChannelLink ==
    ASSUME LinkInv, InitializeBridgeChannel, UNCHANGED mode
    PROVE  LinkInv' /\ rtc' # 0 /\ ~IsOpen(rtc)'
<1> DEFINE x == NewChannel(Len(sock) + 1)
           y == [of |-> rtc', state |-> "connecting", told |-> Unasked]
<1>1. LinkType
  BY DEF LinkInv
<1>2. Len(sock) \in Nat /\ Len(chan) \in Nat
  BY <1>1, SequenceDomains
<1>3. x \in Channel /\ y \in Socket
  BY <1>2, UnaskedType DEF NewChannel, Channel, Socket, InitializeBridgeChannel
<1>4. /\ chan' \in Seq(Channel) /\ rtc' = Len(chan') /\ rtc' \notin DOMAIN chan
      /\ DOMAIN chan' = DOMAIN chan \union {rtc'}
      /\ chan'[rtc'] = x /\ \A c \in DOMAIN chan : chan'[c] = chan[c]
  <2>1. chan' = Append(chan, x) /\ rtc' = Len(chan) + 1
    BY DEF InitializeBridgeChannel
  <2> HIDE DEF x
  <2>2. QED
    BY <2>1, <1>1, <1>3, Appended DEF LinkType
<1>5. /\ sock' \in Seq(Socket) /\ Len(sock) + 1 \notin DOMAIN sock
      /\ DOMAIN sock' = DOMAIN sock \union {Len(sock) + 1}
      /\ sock'[Len(sock) + 1] = y /\ \A i \in DOMAIN sock : sock'[i] = sock[i]
  <2>1. sock' = Append(sock, y)
    BY DEF InitializeBridgeChannel
  <2> HIDE DEF y
  <2>2. QED
    BY <2>1, <1>1, <1>3, Appended DEF LinkType
<1>6. /\ x.ref = Len(sock) + 1 /\ (x.retries <=> mode = "websocket") /\ ~x.byClient
      /\ ~x.timer /\ ~x.once /\ y.of = rtc' /\ y.state = "connecting" /\ y.told = Unasked
  BY DEF NewChannel
<1>7. rtc' # 0 /\ Len(sock) + 1 # 0
  BY <1>2 DEF InitializeBridgeChannel
<1> HIDE DEF x, y
<1>8. LinkOK'
  <2>1. \A c \in DOMAIN chan' :
          /\ chan'[c].ref # 0 =>
               /\ chan'[c].ref \in DOMAIN sock'
               /\ sock'[chan'[c].ref].of = c /\ sock'[chan'[c].ref].state # "gone"
          /\ chan'[c].byClient => chan'[c].ref = 0 /\ ~chan'[c].timer
    BY <1>4, <1>5, <1>6 DEF LinkInv, LinkOK
  <2>2. \A i \in DOMAIN sock' :
          /\ sock'[i].of \in DOMAIN chan'
          /\ sock'[i].state = "connecting" => sock'[i].told = Unasked
    BY <1>4, <1>5, <1>6 DEF LinkInv, LinkOK
  <2>3. QED
    BY <2>1, <2>2, <1>4, <1>6 DEF LinkOK
<1>9. RetryOK'
  BY <1>4, <1>5, <1>6 DEF LinkInv, LinkOK, RetryOK
<1>10. RtcComesBack'
  BY <1>4, <1>6, <1>7 DEF RtcComesBack
<1>11. ~IsOpen(rtc)'
  BY <1>4, <1>5, <1>6 DEF IsOpen, OpenIn
<1>12. QED
  BY <1>4, <1>5, <1>7, <1>8, <1>9, <1>10, <1>11 DEF LinkInv, LinkType

(* The socket of RTC's channel goes, and no other.                         *)
LEMMA GoneFields ==
    ASSUME LinkInv
    PROVE  /\ Gone(rtc) \in Seq(Socket) /\ DOMAIN Gone(rtc) = DOMAIN sock
           /\ \A i \in DOMAIN sock :
                /\ Gone(rtc)[i].of = sock[i].of
                /\ IF rtc # 0 /\ i = chan[rtc].ref
                   THEN Gone(rtc)[i].state = "gone" /\ Gone(rtc)[i].told = Unasked
                   ELSE Gone(rtc)[i] = sock[i]
<1>1. LinkType
  BY DEF LinkInv
<1>2. CASE rtc = 0 \/ chan[rtc].ref = 0
  <2>1. Gone(rtc) = sock
    BY <1>2 DEF Gone
  <2>2. 0 \notin DOMAIN sock
    BY <1>1, SequenceDomains
  <2>3. QED
    BY <1>1, <1>2, <2>1, <2>2 DEF LinkType
<1>3. CASE rtc # 0 /\ chan[rtc].ref # 0
  <2>1. chan[rtc].ref \in DOMAIN sock
    BY <1>1, <1>3, SequenceDomains DEF LinkInv, LinkOK
  <2>2. Gone(rtc) = WithoutSocket(chan[rtc].ref)
    BY <1>3 DEF Gone
  <2>3. QED
    BY <1>1, <1>3, <2>1, <2>2, WithoutSocketFields
<1>4. QED
  BY <1>2, <1>3

LEMMA ClosedLink ==
    ASSUME LinkInv, CloseBridgeChannel, UNCHANGED mode
    PROVE  LinkInv' /\ rtc' = 0 /\ ~IsOpen(rtc)'
<1>1. LinkType /\ rtc' = 0 /\ sock' = Gone(rtc)
  BY DEF LinkInv, CloseBridgeChannel, CloseChannel
<1>2. CASE rtc = 0
  <2>1. chan' = chan /\ sock' = sock
    BY <1>2 DEF CloseBridgeChannel, CloseChannel, Gone
  <2>2. QED
    BY <1>1, <1>2, <2>1 DEF LinkInv, LinkType, LinkOK, RetryOK, RtcComesBack, IsOpen, OpenIn
<1>3. CASE rtc # 0
  <2> DEFINE x == [chan[rtc] EXCEPT !.byClient = TRUE, !.timer = FALSE, !.retries = FALSE,
                                    !.ref = 0]
  <2>1. rtc \in DOMAIN chan /\ chan[rtc] \in Channel
    BY <1>1, <1>3, SequenceDomains
  <2>2. /\ x \in Channel /\ x.byClient /\ ~x.timer /\ ~x.retries /\ x.ref = 0
        /\ (x.once <=> chan[rtc].once)
    BY <2>1 DEF Channel
  <2>3. chan' = [chan EXCEPT ![rtc] = x]
    BY <1>3 DEF CloseBridgeChannel, CloseChannel
  <2> HIDE DEF x
  <2>4. /\ chan' \in Seq(Channel) /\ Len(chan') = Len(chan) /\ DOMAIN chan' = DOMAIN chan
        /\ chan'[rtc] = x /\ \A c \in DOMAIN chan \ {rtc} : chan'[c] = chan[c]
    BY <1>1, <2>1, <2>2, <2>3, Replaced DEF LinkType
  <2>5. /\ sock' \in Seq(Socket) /\ DOMAIN sock' = DOMAIN sock
        /\ \A i \in DOMAIN sock :
             /\ sock'[i].of = sock[i].of
             /\ IF i = chan[rtc].ref
                THEN sock'[i].state = "gone" /\ sock'[i].told = Unasked
                ELSE sock'[i] = sock[i]
    BY <1>1, <1>3, GoneFields
  <2>6. LinkOK'
    BY <1>1, <2>1, <2>2, <2>4, <2>5 DEF LinkInv, LinkOK
  <2>7. RetryOK'
    BY <1>1, <2>1, <2>2, <2>4, <2>5 DEF LinkInv, LinkOK, RetryOK
  <2>8. QED
    BY <1>1, <2>4, <2>5, <2>6, <2>7 DEF LinkInv, LinkType, RtcComesBack, IsOpen, OpenIn
<1>4. QED
  BY <1>2, <1>3

(* The peer connection goes: a data channel goes with it.                  *)
LEMMA CarrierLink ==
    ASSUME LinkInv, PeerConnectionCloses, UNCHANGED mode, rtc' \in {0, rtc}
    PROVE  LinkInv' /\ (IsOpen(rtc)' => rtc' = rtc /\ UNCHANGED <<chan, sock>>)
<1>1. LinkType
  BY DEF LinkInv
<1>2. CASE mode = "websocket" \/ rtc = 0
  <2>1. UNCHANGED <<chan, sock>>
    BY <1>2 DEF PeerConnectionCloses, Gone
  <2>2. QED
    BY <1>1, <1>2, <2>1 DEF LinkInv, LinkType, LinkOK, RetryOK, RtcComesBack, IsOpen, OpenIn
<1>3. CASE mode # "websocket" /\ rtc # 0
  <2> DEFINE x == [chan[rtc] EXCEPT !.ref = 0]
  <2>1. rtc \in DOMAIN chan /\ chan[rtc] \in Channel
    BY <1>1, <1>3, SequenceDomains
  <2>2. /\ x \in Channel /\ x.ref = 0 /\ (x.once <=> chan[rtc].once)
        /\ (x.timer <=> chan[rtc].timer) /\ (x.byClient <=> chan[rtc].byClient)
    BY <2>1 DEF Channel
  <2>3. chan' = [chan EXCEPT ![rtc] = x] /\ sock' = Gone(rtc)
    BY <1>3 DEF PeerConnectionCloses
  <2> HIDE DEF x
  <2>4. /\ chan' \in Seq(Channel) /\ Len(chan') = Len(chan) /\ DOMAIN chan' = DOMAIN chan
        /\ chan'[rtc] = x /\ \A c \in DOMAIN chan \ {rtc} : chan'[c] = chan[c]
    BY <1>1, <2>1, <2>2, <2>3, Replaced DEF LinkType
  <2>5. /\ sock' \in Seq(Socket) /\ DOMAIN sock' = DOMAIN sock
        /\ \A i \in DOMAIN sock :
             /\ sock'[i].of = sock[i].of
             /\ IF i = chan[rtc].ref
                THEN sock'[i].state = "gone" /\ sock'[i].told = Unasked
                ELSE sock'[i] = sock[i]
    BY <1>1, <1>3, <2>3, GoneFields
  <2>6. LinkOK'
    BY <1>1, <1>3, <2>1, <2>2, <2>4, <2>5, SMTT(30) DEF LinkInv, LinkOK
  <2>7. RetryOK'
    BY <1>1, <1>3, <2>1, <2>2, <2>4, <2>5 DEF LinkInv, LinkOK, RetryOK
  <2>8. rtc' \in {0, Len(chan')}
    BY <1>1, <2>4 DEF LinkType
  <2>9. ~IsOpen(rtc)'
    BY <2>2, <2>4 DEF IsOpen, OpenIn
  <2>10. QED
    BY <1>3, <2>4, <2>5, <2>6, <2>7, <2>8, <2>9 DEF LinkInv, LinkType, RtcComesBack
<1>4. QED
  BY <1>2, <1>3

(* The socket that opens, before the bridge is told anything over it.      *)
LEMMA OpenedSocket ==
    ASSUME LinkType, NEW i \in DOMAIN sock, NEW ss, ss = [sock EXCEPT ![i].state = "open"]
    PROVE  /\ ss \in Seq(Socket) /\ DOMAIN ss = DOMAIN sock
           /\ ss[i].of = sock[i].of /\ ss[i].state = "open" /\ ss[i].told = sock[i].told
           /\ \A j \in DOMAIN sock \ {i} : ss[j] = sock[j]
<1> DEFINE x == [sock[i] EXCEPT !.state = "open"]
<1>1. sock[i] \in Socket
  BY SequenceDomains
<1>2. x \in Socket /\ x.of = sock[i].of /\ x.state = "open" /\ x.told = sock[i].told
  BY <1>1 DEF Socket
<1>3. ss = [sock EXCEPT ![i] = x]
  OBVIOUS
<1> HIDE DEF x
<1>4. QED
  BY <1>2, <1>3, Replaced, SMTT(30) DEF LinkType

LEMMA SocketOpensLink ==
    ASSUME LinkInv, ctl \in Controller, NEW i \in DOMAIN sock, SocketOpens(i)
    PROVE  LinkInv' /\ \A c \in DOMAIN chan : chan'[c].ref = chan[c].ref
<1> DEFINE ss == [sock EXCEPT ![i].state = "open"]
           f == [c \in DOMAIN chan |->
                   [Opened(chan[c]) EXCEPT !.crossed = chan[c].ref # i /\ (@ \/ chan[c].once)]]
<1>1. LinkType /\ sock[i].state = "connecting" /\ UNCHANGED <<mode, rtc>>
  BY DEF LinkInv, SocketOpens, conf
<1>2. /\ ss \in Seq(Socket) /\ DOMAIN ss = DOMAIN sock
      /\ ss[i].of = sock[i].of /\ ss[i].state = "open" /\ ss[i].told = sock[i].told
      /\ \A j \in DOMAIN sock \ {i} : ss[j] = sock[j]
  BY <1>1, OpenedSocket
<1>3. sock' = Told(ss, ctl) /\ chan' = f
  BY DEF SocketOpens
<1> HIDE DEF ss
<1>4. /\ sock' \in Seq(Socket) /\ DOMAIN sock' = DOMAIN sock
      /\ \A j \in DOMAIN sock :
           /\ sock'[j].of = sock[j].of
           /\ sock'[j].state = IF j = i THEN "open" ELSE sock[j].state
           /\ sock'[j].state = "connecting" => sock'[j].told = sock[j].told
  <2>1. OpenIn(ss, rtc) => chan[rtc].ref \in DOMAIN ss
    BY <1>1, <1>2, SequenceDomains DEF LinkInv, LinkOK, OpenIn
  <2>2. /\ sock' \in Seq(Socket) /\ DOMAIN sock' = DOMAIN ss
        /\ \A j \in DOMAIN ss :
             /\ sock'[j].of = ss[j].of /\ sock'[j].state = ss[j].state
             /\ sock'[j].told = IF OpenIn(ss, rtc) /\ ctl.cached /\ j = chan[rtc].ref
                                THEN ctl.obj ELSE ss[j].told
    BY <1>1, <1>2, <1>3, <2>1, ToldFields
  <2>3. \A j \in DOMAIN ss : ss[j].state = "connecting" => sock'[j].told = ss[j].told
    BY <2>2 DEF OpenIn
  <2>4. QED
    BY <1>2, <2>2, <2>3
<1>5. \A c \in DOMAIN chan :
        /\ chan[c] \in Channel /\ f[c] \in Channel
        /\ f[c].ref = chan[c].ref /\ (f[c].byClient <=> chan[c].byClient)
        /\ f[c].retries <=> chan[c].retries \/ chan[c].once
        /\ f[c].timer <=> chan[c].timer /\ ~chan[c].once
        /\ ~f[c].once
        /\ f[c].crossed <=> chan[c].ref # i /\ (chan[c].crossed \/ chan[c].once)
  <2>1. SUFFICES ASSUME NEW c \in DOMAIN chan
                 PROVE  /\ chan[c] \in Channel /\ f[c] \in Channel
                        /\ f[c].ref = chan[c].ref /\ (f[c].byClient <=> chan[c].byClient)
                        /\ f[c].retries <=> chan[c].retries \/ chan[c].once
                        /\ f[c].timer <=> chan[c].timer /\ ~chan[c].once
                        /\ ~f[c].once
                        /\ f[c].crossed <=> chan[c].ref # i /\ (chan[c].crossed \/ chan[c].once)
    OBVIOUS
  <2>2. chan[c] \in Channel
    BY <1>1, SequenceDomains
  <2>3. f[c] = [Opened(chan[c]) EXCEPT !.crossed = chan[c].ref # i /\ (@ \/ chan[c].once)]
    OBVIOUS
  <2> HIDE DEF f
  <2>4. CASE chan[c].once
    BY <2>2, <2>3, <2>4 DEF Opened, Channel
  <2>5. CASE ~chan[c].once
    BY <2>2, <2>3, <2>5 DEF Opened, Channel
  <2>6. QED
    BY <2>4, <2>5
<1>6. chan' \in Seq(Channel) /\ Len(chan') = Len(chan) /\ DOMAIN chan' = DOMAIN chan
  <2>1. f = [c \in DOMAIN chan |-> f[c]]
    OBVIOUS
  <2>2. \A c \in DOMAIN chan : f[c] \in Channel
    BY <1>5
  <2> HIDE DEF f
  <2>3. QED
    BY <1>1, <1>3, <2>1, <2>2, ChannelMap
<1> HIDE DEF f
<1>7. LinkOK'
  BY <1>1, <1>3, <1>4, <1>5, <1>6, SequenceDomains, SMTT(30) DEF LinkInv, LinkOK, RetryOK
<1>8. RetryOK'
  BY <1>1, <1>3, <1>5, <1>6 DEF LinkInv, RetryOK
<1>9. RtcComesBack'
  <2>1. SUFFICES ASSUME rtc # 0, mode = "websocket"
                 PROVE  (chan'[rtc].ref # 0 /\ chan'[rtc].retries) \/ chan'[rtc].crossed
    BY <1>1 DEF RtcComesBack
  <2>2. rtc \in DOMAIN chan /\ i # 0
    BY <1>1, <2>1, SequenceDomains
  <2>3. chan[rtc].retries \/ chan[rtc].once
    BY <2>1, <2>2 DEF LinkInv, LinkOK, RetryOK
  <2>4. chan[rtc].timer => chan[rtc].once
    BY <2>1, <2>2 DEF LinkInv, LinkOK, RetryOK
  <2>5. QED
    BY <1>3, <1>5, <2>1, <2>2, <2>3, <2>4 DEF LinkInv, RtcComesBack
<1>10. QED
  BY <1>1, <1>3, <1>4, <1>5, <1>6, <1>7, <1>8, <1>9 DEF LinkInv, LinkType

LEMMA SocketClosesLink ==
    ASSUME LinkInv, NEW i \in DOMAIN sock, SocketCloses(i)
    PROVE  LinkInv' /\ (IsOpen(rtc)' => IsOpen(rtc) /\ sock'[chan'[rtc].ref] = sock[chan[rtc].ref])
<1> DEFINE c == sock[i].of
           ch == chan[c]
           retry == mode = "websocket" /\ ~ch.byClient /\ ch.retries
           x == [ref |-> 0, retries |-> ch.retries /\ ~retry, byClient |-> ch.byClient,
                 timer |-> ch.timer \/ retry, once |-> ch.once \/ retry,
                 crossed |-> ch.crossed \/ ch.ref \notin {0, i}]
<1>1. LinkType /\ UNCHANGED <<mode, rtc>> /\ c \in DOMAIN chan
  BY DEF LinkInv, LinkOK, SocketCloses, conf
<1>2. ch \in Channel /\ x \in Channel
  <2>1. ch \in Channel
    BY <1>1, SequenceDomains
  <2>2. QED
    BY <2>1 DEF Channel
<1>3. /\ sock' \in Seq(Socket) /\ DOMAIN sock' = DOMAIN sock
      /\ sock'[i].of = c /\ sock'[i].state = "gone"
      /\ \A j \in DOMAIN sock \ {i} : sock'[j] = sock[j]
  BY <1>1, WithoutSocketFields DEF SocketCloses
<1>4. /\ chan' \in Seq(Channel) /\ Len(chan') = Len(chan) /\ DOMAIN chan' = DOMAIN chan
      /\ chan'[c] = x /\ \A d \in DOMAIN chan \ {c} : chan'[d] = chan[d]
  <2>1. chan' = [chan EXCEPT ![c] = x]
    BY DEF SocketCloses
  <2> HIDE DEF x, ch, c
  <2>2. QED
    BY <1>1, <1>2, <2>1, Replaced DEF LinkType
<1>5. /\ x.ref = 0 /\ (x.byClient <=> ch.byClient)
      /\ x.retries <=> ch.retries /\ ~retry
      /\ x.timer <=> ch.timer \/ retry
      /\ x.once <=> ch.once \/ retry
      /\ x.crossed <=> ch.crossed \/ ch.ref \notin {0, i}
      /\ retry <=> mode = "websocket" /\ ~ch.byClient /\ ch.retries
  OBVIOUS
<1> HIDE DEF x, retry
<1>6. LinkOK'
  <2>1. rtc' # 0 => ~chan'[rtc'].byClient
    BY <1>1, <1>4, <1>5, SequenceDomains DEF LinkInv, LinkOK
  <2>2. ASSUME NEW d \in DOMAIN chan'
        PROVE  /\ chan'[d].ref # 0 =>
                    /\ chan'[d].ref \in DOMAIN sock'
                    /\ sock'[chan'[d].ref].of = d /\ sock'[chan'[d].ref].state # "gone"
               /\ chan'[d].byClient => chan'[d].ref = 0 /\ ~chan'[d].timer
    <3>1. CASE d = c
      BY <1>1, <1>4, <1>5, <3>1 DEF LinkInv, LinkOK
    <3>2. CASE d # c
      BY <1>1, <1>3, <1>4, <3>2, <2>2, SMTT(30) DEF LinkInv, LinkOK
    <3>3. QED
      BY <3>1, <3>2
  <2>3. ASSUME NEW j \in DOMAIN sock'
        PROVE  /\ sock'[j].of \in DOMAIN chan'
               /\ sock'[j].state = "connecting" => sock'[j].told = Unasked
    BY <1>1, <1>3, <1>4, <2>3 DEF LinkInv, LinkOK
  <2>4. QED
    BY <2>1, <2>2, <2>3 DEF LinkOK
<1>7. RetryOK'
  <2>1. SUFFICES ASSUME NEW d \in DOMAIN chan'
                 PROVE  /\ mode = "websocket" /\ ~chan'[d].byClient =>
                             chan'[d].retries \/ chan'[d].once
                        /\ chan'[d].timer => chan'[d].once
                        /\ chan'[d].once /\ chan'[d].ref # 0 =>
                             sock'[chan'[d].ref].state = "connecting"
    BY <1>1 DEF RetryOK
  <2>2. CASE d = c
    BY <1>1, <1>4, <1>5, <2>2 DEF LinkInv, RetryOK
  <2>3. CASE d # c
    BY <1>1, <1>3, <1>4, <2>1, <2>3 DEF LinkInv, LinkOK, RetryOK
  <2>4. QED
    BY <2>2, <2>3
<1>8. RtcComesBack'
  <2>1. SUFFICES ASSUME rtc # 0, mode = "websocket", rtc = c
                 PROVE  x.timer \/ x.crossed
    BY <1>1, <1>4, SequenceDomains DEF RtcComesBack, LinkInv
  <2>2. ch.retries \/ ch.once
    BY <1>1, <2>1 DEF LinkInv, LinkOK, RetryOK
  <2>3. ~ch.byClient
    BY <2>1 DEF LinkInv, LinkOK
  <2>4. QED
    BY <1>5, <2>1, <2>2, <2>3 DEF LinkInv, RtcComesBack
<1>9. ASSUME IsOpen(rtc)'
      PROVE  IsOpen(rtc) /\ sock'[chan'[rtc].ref] = sock[chan[rtc].ref]
  <2>1. rtc # 0 /\ rtc \in DOMAIN chan
    BY <1>1, <1>9, SequenceDomains DEF IsOpen, OpenIn
  <2>2. rtc # c
    BY <1>1, <1>4, <1>5, <1>9 DEF IsOpen, OpenIn
  <2>3. chan'[rtc] = chan[rtc] /\ chan[rtc].ref # 0
    BY <1>1, <1>4, <1>9, <2>1, <2>2 DEF IsOpen, OpenIn
  <2>4. chan[rtc].ref \in DOMAIN sock /\ chan[rtc].ref # i
    BY <2>1, <2>2, <2>3 DEF LinkInv, LinkOK
  <2>5. QED
    BY <1>1, <1>3, <1>9, <2>1, <2>3, <2>4 DEF IsOpen, OpenIn
<1>10. LinkType'
  BY <1>1, <1>3, <1>4 DEF LinkType
<1>11. QED
  BY <1>6, <1>7, <1>8, <1>9, <1>10 DEF LinkInv

LEMMA RetryLink ==
    ASSUME LinkInv, NEW c \in DOMAIN chan, Retry(c)
    PROVE  LinkInv' /\ (IsOpen(rtc)' => IsOpen(rtc) /\ sock'[chan'[rtc].ref] = sock[chan[rtc].ref])
<1>1. LinkType /\ UNCHANGED <<mode, rtc>> /\ chan[c].timer
  BY DEF LinkInv, Retry, conf
<1>2. chan[c] \in Channel /\ Len(sock) \in Nat /\ c # 0
  BY <1>1, SequenceDomains
<1>3. chan[c].once /\ ~chan[c].byClient
  BY <1>1 DEF LinkInv, LinkOK, RetryOK
<1>4. ~IsOpen(c)
  BY <1>1, <1>3 DEF LinkInv, RetryOK, IsOpen, OpenIn
<1> DEFINE n == Len(sock) + 1
           x == [chan[c] EXCEPT !.ref = n]
           y == [of |-> c, state |-> "connecting", told |-> Unasked]
<1>5. /\ x \in Channel /\ y \in Socket /\ n \in Nat /\ n # 0
      /\ x.ref = n /\ (x.retries <=> chan[c].retries) /\ (x.byClient <=> chan[c].byClient)
      /\ (x.timer <=> chan[c].timer) /\ (x.once <=> chan[c].once)
      /\ (x.crossed <=> chan[c].crossed)
      /\ y.of = c /\ y.state = "connecting" /\ y.told = Unasked
  <2>1. n \in Nat /\ n # 0 /\ c \in Nat
    BY <1>1, <1>2, SequenceDomains
  <2> HIDE DEF n
  <2>2. x \in Channel /\ y \in Socket
    BY <1>2, <2>1, UnaskedType DEF Channel, Socket
  <2>3. QED
    BY <1>2, <2>1, <2>2 DEF Channel
<1>6. chan' = [chan EXCEPT ![c] = x] /\ sock' = Append(sock, y)
  BY <1>4 DEF Retry
<1> HIDE DEF x, y
<1>7. /\ chan' \in Seq(Channel) /\ Len(chan') = Len(chan) /\ DOMAIN chan' = DOMAIN chan
      /\ chan'[c] = x /\ \A d \in DOMAIN chan \ {c} : chan'[d] = chan[d]
  BY <1>1, <1>5, <1>6, Replaced DEF LinkType
<1>8. /\ sock' \in Seq(Socket) /\ n \notin DOMAIN sock
      /\ DOMAIN sock' = DOMAIN sock \union {n}
      /\ sock'[n] = y /\ \A i \in DOMAIN sock : sock'[i] = sock[i]
  BY <1>1, <1>5, <1>6, Appended DEF LinkType
<1> HIDE DEF n
<1>9. LinkOK'
  <2>1. rtc' # 0 => ~chan'[rtc'].byClient
    BY <1>1, <1>5, <1>7, SequenceDomains DEF LinkInv, LinkOK
  <2>2. ASSUME NEW d \in DOMAIN chan'
        PROVE  /\ chan'[d].ref # 0 =>
                    /\ chan'[d].ref \in DOMAIN sock'
                    /\ sock'[chan'[d].ref].of = d /\ sock'[chan'[d].ref].state # "gone"
               /\ chan'[d].byClient => chan'[d].ref = 0 /\ ~chan'[d].timer
    <3>1. CASE d = c
      BY <1>3, <1>5, <1>7, <1>8, <3>1
    <3>2. CASE d # c
      BY <1>7, <1>8, <3>2, <2>2 DEF LinkInv, LinkOK
    <3>3. QED
      BY <3>1, <3>2
  <2>3. ASSUME NEW j \in DOMAIN sock'
        PROVE  /\ sock'[j].of \in DOMAIN chan'
               /\ sock'[j].state = "connecting" => sock'[j].told = Unasked
    BY <1>5, <1>7, <1>8, <2>3 DEF LinkInv, LinkOK
  <2>4. QED
    BY <2>1, <2>2, <2>3 DEF LinkOK
<1>10. RetryOK'
  BY <1>1, <1>3, <1>5, <1>7, <1>8 DEF LinkInv, LinkOK, RetryOK
<1>11. RtcComesBack'
  BY <1>1, <1>5, <1>7, SequenceDomains DEF LinkInv, RtcComesBack
<1>12. LinkType'
  BY <1>1, <1>7, <1>8 DEF LinkType
<1>13. ASSUME IsOpen(rtc)'
       PROVE  IsOpen(rtc) /\ sock'[chan'[rtc].ref] = sock[chan[rtc].ref]
  <2>1. rtc # 0 /\ rtc \in DOMAIN chan
    BY <1>1, <1>13, SequenceDomains DEF IsOpen, OpenIn
  <2>2. rtc # c
    BY <1>1, <1>5, <1>7, <1>8, <1>13 DEF IsOpen, OpenIn
  <2>3. chan'[rtc] = chan[rtc] /\ chan[rtc].ref # 0
    BY <1>1, <1>7, <1>13, <2>1, <2>2 DEF IsOpen, OpenIn
  <2>4. chan[rtc].ref \in DOMAIN sock
    BY <2>1, <2>3 DEF LinkInv, LinkOK
  <2>5. QED
    BY <1>1, <1>8, <1>13, <2>1, <2>3, <2>4 DEF IsOpen, OpenIn
<1>14. QED
  BY <1>9, <1>10, <1>11, <1>12, <1>13 DEF LinkInv

-----------------------------------------------------------------------------
(* Lemmas about the receive video controller.                              *)

LEMMA StageInHeight == OnStage \in Height
    BY ReceiveVideoAssumption DEF OnStage

LEMMA ViewTypes ==
    /\ NoView \in View
    /\ \A ids \in SUBSET Endpoint, h \in Height : [shown |-> ids, height |-> h] \in View
    BY DEF NoView, View

LEMMA SameConstraints ==
    ASSUME NEW a \in Constraints, NEW b \in Constraints,
           a.lastN = b.lastN, a.view = b.view
    PROVE  a = b
    BY DEF Constraints

(* Reading the constraints changes the object only, and reading them again *)
(* changes nothing.                                                        *)
LEMMA UpdatedFields ==
    ASSUME NEW c \in Controller
    PROVE  /\ Updated(c) \in Controller
           /\ Updated(c).lastN = c.lastN /\ Updated(c).height = c.height
           /\ Updated(c).rvcLastN = c.rvcLastN /\ Updated(c).rvcHeight = c.rvcHeight
           /\ Updated(c).selected = c.selected /\ (Updated(c).cached <=> c.cached)
           /\ Updated(c).obj \in Constraints
           /\ Updated(c).obj.lastN = c.rvcLastN
           /\ Updated(c).obj.view = IF c.selected = {} THEN c.obj.view
                                   ELSE [shown |-> c.selected, height |-> c.rvcHeight]
<1> DEFINE view == IF c.selected = {} THEN c.obj.view
                   ELSE [shown |-> c.selected, height |-> c.rvcHeight]
           obj == [c.obj EXCEPT !.lastN = c.rvcLastN, !.view = view]
<1>1. /\ c.obj \in Constraints /\ c.rvcLastN \in LastN /\ c.rvcHeight \in Height
      /\ c.selected \in SUBSET Endpoint
  BY DEF Controller
<1>2. view \in View
  BY <1>1, ViewTypes DEF Constraints
<1> HIDE DEF view
<1>3. obj \in Constraints /\ obj.lastN = c.rvcLastN /\ obj.view = view
  BY <1>1, <1>2 DEF Constraints
<1>4. Updated(c) = [c EXCEPT !.obj = obj]
  BY <1>1 DEF Updated, view, Constraints, Controller
<1> HIDE DEF obj
<1>5. Updated(c) \in Controller
  BY <1>3, <1>4 DEF Controller
<1>6. QED
  BY <1>3, <1>4, <1>5 DEF view, Controller

LEMMA SentFields ==
    ASSUME NEW c \in Controller
    PROVE  /\ Sent(c) \in Controller
           /\ Sent(c).lastN = c.lastN /\ Sent(c).height = c.height
           /\ Sent(c).rvcLastN = c.rvcLastN /\ Sent(c).rvcHeight = c.rvcHeight
           /\ Sent(c).selected = c.selected /\ Sent(c).cached
           /\ Sent(c).obj = Updated(c).obj
<1>1. Updated(c) \in Controller
  BY UpdatedFields
<1>2. Sent(c) \in Controller
  BY <1>1 DEF Sent, Controller
<1>3. QED
  BY <1>1, <1>2, UpdatedFields DEF Sent, Controller

(* The object is up to date when it shows the controller's values.         *)
LEMMA UpToDate ==
    ASSUME NEW c \in Controller
    PROVE  c.obj = Updated(c).obj <=>
             /\ c.obj.lastN = c.rvcLastN
             /\ c.selected # {} => c.obj.view = [shown |-> c.selected, height |-> c.rvcHeight]
<1>1. c.obj \in Constraints
  BY DEF Controller
<1>2. QED
  BY <1>1, UpdatedFields, SameConstraints

LEMMA Idempotent ==
    ASSUME NEW c \in Controller
    PROVE  /\ Updated(c).obj = Updated(Updated(c)).obj
           /\ Sent(c).obj = Updated(Sent(c)).obj
<1>1. ASSUME NEW d \in Controller, d.selected = c.selected, d.rvcLastN = c.rvcLastN,
             d.rvcHeight = c.rvcHeight, d.obj = Updated(c).obj
      PROVE  d.obj = Updated(d).obj
  <2>1. /\ d.obj.lastN = d.rvcLastN
        /\ d.selected # {} => d.obj.view = [shown |-> d.selected, height |-> d.rvcHeight]
    BY <1>1, UpdatedFields
  <2>2. QED
    BY <2>1, UpToDate
<1>2. Updated(c).obj = Updated(Updated(c)).obj
  <2> DEFINE d == Updated(c)
  <2>1. /\ d \in Controller /\ d.selected = c.selected /\ d.rvcLastN = c.rvcLastN
        /\ d.rvcHeight = c.rvcHeight /\ d.obj = Updated(c).obj
    BY UpdatedFields
  <2> HIDE DEF d
  <2>2. d.obj = Updated(d).obj
    BY <2>1, <1>1
  <2>3. QED
    BY <2>2 DEF d
<1>3. Sent(c).obj = Updated(Sent(c)).obj
  <2> DEFINE d == Sent(c)
  <2>1. /\ d \in Controller /\ d.selected = c.selected /\ d.rvcLastN = c.rvcLastN
        /\ d.rvcHeight = c.rvcHeight /\ d.obj = Updated(c).obj
    BY SentFields
  <2> HIDE DEF d
  <2>2. d.obj = Updated(d).obj
    BY <2>1, <1>1
  <2>3. QED
    BY <2>2 DEF d
<1>4. QED
  BY <1>2, <1>3

LEMMA LastNFields ==
    ASSUME NEW c \in Controller, NEW n \in LastN
    PROVE  LET d == WithLastN(c, n) IN
           /\ d \in Controller /\ d.lastN = n /\ d.height = c.height
           /\ d.rvcHeight = c.rvcHeight /\ d.selected = c.selected
           /\ IF c.lastN # n /\ c.rvcLastN # n
              THEN d.cached /\ d.rvcLastN = n /\ d.obj = Updated(d).obj
                   /\ (c.selected = {} => d.obj.view = c.obj.view)
              ELSE d.rvcLastN = c.rvcLastN /\ d.obj = c.obj /\ (d.cached <=> c.cached)
<1> DEFINE e == [c EXCEPT !.lastN = n, !.rvcLastN = n]
<1>1. CASE c.lastN # n /\ c.rvcLastN # n
  <2>1. /\ e \in Controller /\ e.lastN = n /\ e.rvcLastN = n /\ e.height = c.height
        /\ e.rvcHeight = c.rvcHeight /\ e.selected = c.selected /\ e.obj = c.obj
    BY DEF Controller
  <2>2. WithLastN(c, n) = Sent(e)
    BY <1>1 DEF WithLastN
  <2> HIDE DEF e
  <2>3. Sent(e).obj = Updated(Sent(e)).obj
    BY <2>1, Idempotent
  <2>4. c.selected = {} => Sent(e).obj.view = c.obj.view
    BY <2>1, SentFields, UpdatedFields, ZenonT(60)
  <2>5. QED
    BY <1>1, <2>1, <2>2, <2>3, <2>4, SentFields
<1>2. CASE c.lastN = n
  BY <1>2 DEF WithLastN
<1>3. CASE c.lastN # n /\ c.rvcLastN = n
  BY <1>3 DEF WithLastN, Controller
<1>4. QED
  BY <1>1, <1>2, <1>3

LEMMA SelectedFields ==
    ASSUME NEW c \in Controller, NEW ids \in SUBSET Endpoint
    PROVE  LET d == WithSelected(c, ids) IN
           /\ d \in Controller /\ d.lastN = c.lastN /\ d.height = c.height
           /\ d.rvcLastN = c.rvcLastN /\ d.rvcHeight = c.rvcHeight
           /\ d.selected = IF ids = {} THEN c.selected ELSE ids
           /\ d.obj = Updated(d).obj
           /\ d.selected = {} => d.obj.view = c.obj.view
           /\ d.obj # Updated(c).obj => d.cached
           /\ c.cached => d.cached
<1> DEFINE e == IF ids = {} THEN c ELSE [c EXCEPT !.selected = ids]
           d == Updated(e)
<1>1. /\ e \in Controller /\ e.lastN = c.lastN /\ e.height = c.height
      /\ e.rvcLastN = c.rvcLastN /\ e.rvcHeight = c.rvcHeight /\ e.obj = c.obj
      /\ e.selected = (IF ids = {} THEN c.selected ELSE ids) /\ (e.cached <=> c.cached)
  BY DEF Controller
<1>2. WithSelected(c, ids) = IF d.obj = Updated(c).obj THEN d ELSE Sent(d)
  BY DEF WithSelected
<1> HIDE DEF e
<1>3. /\ d \in Controller /\ d.lastN = c.lastN /\ d.height = c.height
      /\ d.rvcLastN = c.rvcLastN /\ d.rvcHeight = c.rvcHeight
      /\ d.selected = (IF ids = {} THEN c.selected ELSE ids) /\ (d.cached <=> c.cached)
      /\ d.selected = {} => d.obj.view = c.obj.view
  BY <1>1, UpdatedFields
<1>4. d.obj = Updated(d).obj
  BY <1>1, Idempotent
<1> HIDE DEF d
<1>5. CASE d.obj = Updated(c).obj
  <2>1. WithSelected(c, ids) = d
    BY <1>2, <1>5
  <2>2. QED
    BY <1>3, <1>4, <1>5, <2>1
<1>6. CASE d.obj # Updated(c).obj
  <2>1. Sent(d).obj = d.obj /\ Sent(d).obj = Updated(Sent(d)).obj
    BY <1>3, <1>4, SentFields, Idempotent
  <2>2. QED
    BY <1>2, <1>3, <1>6, <2>1, SentFields
<1>7. QED
  BY <1>5, <1>6

LEMMA HeightFields ==
    ASSUME NEW c \in Controller, NEW h \in Height, NEW session \in BOOLEAN
    PROVE  LET d == WithHeight(c, h, session) IN
           /\ d \in Controller /\ d.lastN = c.lastN /\ d.height = h
           /\ d.rvcLastN = c.rvcLastN /\ d.selected = c.selected
           /\ session => d.rvcHeight = h
           /\ IF d.rvcHeight # c.rvcHeight
              THEN d.cached /\ d.obj = Updated(d).obj
                   /\ (c.selected = {} => d.obj.view = c.obj.view)
              ELSE d.obj = c.obj /\ (d.cached <=> c.cached)
<1> DEFINE e == [c EXCEPT !.height = h, !.rvcHeight = h]
<1>1. CASE session /\ c.rvcHeight # h
  <2>1. /\ e \in Controller /\ e.lastN = c.lastN /\ e.height = h /\ e.rvcHeight = h
        /\ e.rvcLastN = c.rvcLastN /\ e.selected = c.selected /\ e.obj = c.obj
    BY DEF Controller
  <2>2. WithHeight(c, h, session) = Sent(e)
    BY <1>1 DEF WithHeight
  <2> HIDE DEF e
  <2>3. Sent(e).obj = Updated(Sent(e)).obj
    BY <2>1, Idempotent
  <2>4. c.selected = {} => Sent(e).obj.view = c.obj.view
    BY <2>1, SentFields, UpdatedFields, ZenonT(60)
  <2>5. QED
    BY <1>1, <2>1, <2>2, <2>3, <2>4, SentFields, ZenonT(60)
<1>2. CASE ~(session /\ c.rvcHeight # h)
  BY <1>2 DEF WithHeight, Controller
<1>3. QED
  BY <1>1, <1>2

LEMMA ConstraintsFields ==
    ASSUME NEW c \in Controller, NEW own \in Constraints
    PROVE  LET d == WithConstraints(c, own) IN
           /\ d \in Controller /\ d.height = c.height /\ d.rvcLastN = c.rvcLastN
           /\ d.rvcHeight = c.rvcHeight /\ d.selected = c.selected
           /\ d.obj = own
           /\ IF c.obj = own THEN d = c ELSE d.cached
<1>1. CASE c.obj = own
  BY <1>1 DEF WithConstraints
<1>2. CASE c.obj # own
  <2>1. own.lastN \in LastN
    BY DEF Constraints
  <2>2. WithConstraints(c, own)
          = [c EXCEPT !.obj = own, !.lastN = own.lastN, !.cached = TRUE]
    BY <1>2 DEF WithConstraints
  <2>3. QED
    BY <1>2, <2>1, <2>2 DEF Controller
<1>3. QED
  BY <1>1, <1>2

LEMMA StartedFields ==
    ASSUME NEW c \in Controller
    PROVE  LET d == MediaSessionStarted(c) IN
           /\ d \in Controller /\ d.lastN = c.lastN /\ d.height = c.height
           /\ d.rvcLastN = c.rvcLastN /\ d.rvcHeight = c.height
           /\ d.selected = c.selected /\ d.cached
           /\ d.obj = Updated(d).obj
           /\ c.selected = {} => d.obj.view = c.obj.view
<1> DEFINE e == [c EXCEPT !.rvcHeight = c.height]
<1>1. /\ e \in Controller /\ e.lastN = c.lastN /\ e.height = c.height
      /\ e.rvcLastN = c.rvcLastN /\ e.rvcHeight = c.height
      /\ e.selected = c.selected /\ e.obj = c.obj
  BY DEF Controller
<1>2. MediaSessionStarted(c) = Sent(e)
  BY DEF MediaSessionStarted
<1> HIDE DEF e
<1>3. Sent(e).obj = Updated(Sent(e)).obj
  BY <1>1, Idempotent
<1>4. c.selected = {} => Sent(e).obj.view = c.obj.view
  BY <1>1, SentFields, UpdatedFields, ZenonT(60)
<1>5. QED
  BY <1>1, <1>2, <1>3, <1>4, SentFields

-----------------------------------------------------------------------------
(* Every step keeps LinkInv, put together.                                 *)

LEMMA EndedLink ==
    ASSUME LinkInv, OnCallEnded, UNCHANGED mode
    PROVE  LinkInv' /\ rtc' = 0 /\ ~IsOpen(rtc)'
<1>1. CASE mode = "websocket"
  BY <1>1, ClosedLink DEF OnCallEnded
<1>2. CASE mode # "websocket"
  BY <1>2, CarrierLink DEF OnCallEnded, IsOpen, OpenIn
<1>3. QED
  BY <1>1, <1>2

(* What an ask leaves of the controller and the sockets.                   *)
LEMMA AskedControllers ==
    ASSUME TypeOK
    PROVE  /\ \A n \in LastN : WithLastN(ctl, n) \in Controller
           /\ \A ids \in SUBSET Endpoint : WithSelected(ctl, ids) \in Controller
           /\ \A h \in Height : WithHeight(ctl, h, jvb.state # "none") \in Controller
           /\ \A own \in Own : WithConstraints(ctl, own) \in Controller
           /\ MediaSessionStarted(ctl) \in Controller
<1>1. ctl \in Controller /\ (jvb.state # "none") \in BOOLEAN /\ Own \subseteq Constraints
  BY BridgeLinkAssumption DEF TypeOK
<1>2. \A n \in LastN : WithLastN(ctl, n) \in Controller
  BY <1>1, LastNFields
<1>3. \A ids \in SUBSET Endpoint : WithSelected(ctl, ids) \in Controller
  BY <1>1, SelectedFields
<1>4. \A h \in Height : WithHeight(ctl, h, jvb.state # "none") \in Controller
  BY <1>1, HeightFields
<1>5. \A own \in Own : WithConstraints(ctl, own) \in Controller
  BY <1>1, ConstraintsFields
<1>6. MediaSessionStarted(ctl) \in Controller
  BY <1>1, StartedFields
<1>7. QED
  BY <1>2, <1>3, <1>4, <1>5, <1>6

LEMMA LinkStep ==
    ASSUME IInv, [Next]_vars
    PROVE  LinkInv'
<1>1. LinkInv /\ TypeOK /\ LinkType /\ ctl \in Controller
  BY DEF IInv, LinkInv, TypeOK
<1>2. ASSUME UNCHANGED <<mode, rtc, chan, sock>>
      PROVE  LinkInv'
  BY <1>1, <1>2, SameLink DEF LinkType
<1>3. ASSUME NEW k \in Controller, UNCHANGED <<mode, rtc, chan>>, sock' \in {sock, Told(sock, k)}
      PROVE  LinkInv'
  BY <1>1, <1>2, <1>3, ToldLink
<1>4. ASSUME NEW i \in DOMAIN sock, SocketOpens(i)
      PROVE  LinkInv'
  BY <1>1, <1>4, SocketOpensLink
<1>5. ASSUME NEW i \in DOMAIN sock, SocketCloses(i)
      PROVE  LinkInv'
  BY <1>1, <1>5, SocketClosesLink
<1>6. ASSUME NEW c \in DOMAIN chan, Retry(c)
      PROVE  LinkInv'
  BY <1>1, <1>6, RetryLink
<1>7. CASE SessionInitiate
  BY <1>1, <1>7, NewChannelLink DEF SessionInitiate, conf
<1>8. CASE MediaStarted
  BY <1>1, <1>3, <1>8, AskedControllers DEF MediaStarted, conf
<1>9. CASE SessionTerminate
  BY <1>1, <1>9, EndedLink DEF SessionTerminate, conf
<1>10. CASE TransportReplace
  BY <1>1, <1>10, ClosedLink DEF TransportReplace, conf
<1>11. CASE TransportReplaced
  BY <1>1, <1>11, NewChannelLink DEF TransportReplaced, conf
<1>12. CASE TransportFails
  BY <1>2, <1>12 DEF TransportFails, conf, link
<1>13. CASE Leave
  BY <1>1, <1>13, ClosedLink DEF Leave, conf
<1>14. CASE IceConnected \/ IceDisconnected \/ IceFailed
  BY <1>2, <1>14 DEF IceConnected, IceDisconnected, IceFailed, conf, link
<1>15. ASSUME NEW t \in DOMAIN task, Pong(t) \/ NoPong(t)
       PROVE  LinkInv'
  BY <1>2, <1>15 DEF Pong, NoPong, conf, link
<1>16. ASSUME NEW t \in DOMAIN task, ActOnIceFailed(t)
       PROVE  LinkInv'
  <2>1. UNCHANGED <<mode, rtc>>
    BY <1>16 DEF ActOnIceFailed, conf
  <2>2. PeerConnectionCloses \/ UNCHANGED <<chan, sock>>
    BY <1>16 DEF ActOnIceFailed
  <2>3. QED
    BY <1>1, <1>2, <2>1, <2>2, CarrierLink
<1>17. ASSUME NEW n \in LastN, SetLastN(n)
       PROVE  LinkInv'
  <2>1. UNCHANGED <<mode, rtc, chan>> /\ ctl' = WithLastN(ctl, n)
        /\ sock' \in {sock, Told(sock, ctl')}
    BY <1>17 DEF SetLastN, Ask, conf
  <2>2. QED
    BY <1>1, <1>3, <2>1, AskedControllers
<1>18. ASSUME NEW ids \in SUBSET Endpoint, SelectEndpoints(ids)
       PROVE  LinkInv'
  <2>1. UNCHANGED <<mode, rtc, chan>> /\ ctl' = WithSelected(ctl, ids)
        /\ sock' \in {sock, Told(sock, ctl')}
    BY <1>18 DEF SelectEndpoints, Ask, conf
  <2>2. QED
    BY <1>1, <1>3, <2>1, AskedControllers
<1>19. ASSUME NEW h \in Height, SetPreferredReceiveMaxFrameHeight(h)
       PROVE  LinkInv'
  <2>1. UNCHANGED <<mode, rtc, chan>> /\ ctl' = WithHeight(ctl, h, jvb.state # "none")
        /\ sock' \in {sock, Told(sock, ctl')}
    BY <1>19 DEF SetPreferredReceiveMaxFrameHeight, Ask, conf
  <2>2. QED
    BY <1>1, <1>3, <2>1, AskedControllers
<1>20. ASSUME NEW own \in Own, SetReceiverConstraints(own)
       PROVE  LinkInv'
  <2>1. UNCHANGED <<mode, rtc, chan>> /\ ctl' = WithConstraints(ctl, own)
        /\ sock' \in {sock, Told(sock, ctl')}
    BY <1>20 DEF SetReceiverConstraints, Ask, conf
  <2>2. QED
    BY <1>1, <1>3, <2>1, AskedControllers
<1>21. CASE UNCHANGED vars
  BY <1>2, <1>21 DEF vars
<1>22. QED
  BY <1>4, <1>5, <1>6, <1>7, <1>8, <1>9, <1>10, <1>11, <1>12, <1>13, <1>14, <1>15, <1>16,
     <1>17, <1>18, <1>19, <1>20, <1>21 DEF Next

-----------------------------------------------------------------------------
(* Every step keeps SessionOK and FailureHandled.                          *)

SessionType == jvb \in Session /\ task \in Seq({"pinging", "canceled", "waiting", "done"})

SessionInv == SessionType /\ SessionOK /\ FailureHandled

LEMMA CancelledType ==
    ASSUME SessionType
    PROVE  Cancelled(task) \in Seq({"pinging", "canceled", "waiting", "done"})
<1> DEFINE S == {"pinging", "canceled", "waiting", "done"}
           last == Len(task)
<1>1. CASE task = <<>> \/ task[last] \notin {"pinging", "waiting"}
  BY <1>1 DEF Cancelled, SessionType
<1>2. CASE task # <<>> /\ task[last] \in {"pinging", "waiting"}
  <2>1. last \in DOMAIN task /\ "done" \in S /\ "canceled" \in S /\ task \in Seq(S)
    BY <1>2, EmptySeq, LenProperties DEF SessionType
  <2>2. \A x \in S : [task EXCEPT ![last] = x] \in Seq(S)
    BY <2>1, Replaced
  <2>3. \E x \in S : Cancelled(task) = [task EXCEPT ![last] = x]
    BY <1>2, <2>1 DEF Cancelled
  <2>4. QED
    BY <2>2, <2>3
<1>3. QED
  BY <1>1, <1>2

(* A step that leaves the session alone, or only starts its media.         *)
LEMMA SameSession ==
    ASSUME SessionInv, UNCHANGED <<room, task>>, rtc # 0 => rtc' # 0,
           jvb' \in Session, Present' => Present, jvb'.ice = jvb.ice,
           jvb'.handled <=> jvb.handled,
           jvb'.replacing = jvb.replacing, jvb'.replaces = jvb.replaces,
           jvb'.broken <=> jvb.broken
    PROVE  SessionInv'
    BY DEF SessionInv, SessionType, SessionOK, FailureHandled

LEMMA HandlingStep ==
    ASSUME SessionInv, NEW t \in DOMAIN task, UNCHANGED rtc,
           Pong(t) \/ NoPong(t) \/ ActOnIceFailed(t)
    PROVE  SessionInv'
<1> DEFINE S == {"pinging", "canceled", "waiting", "done"}
<1>1. jvb \in Session /\ task \in Seq(S) /\ room' = room
  BY DEF SessionInv, SessionType, Pong, NoPong, ActOnIceFailed
<1>2. CASE Pong(t)
  <2> DEFINE x == IF task[t] = "canceled" THEN "done" ELSE "waiting"
  <2>1. x \in S /\ task' = [task EXCEPT ![t] = x] /\ jvb' = jvb
        /\ task[t] \in {"pinging", "canceled"}
    BY <1>2 DEF Pong
  <2>2. /\ task' \in Seq(S) /\ DOMAIN task' = DOMAIN task
        /\ task'[t] = x /\ \A u \in DOMAIN task \ {t} : task'[u] = task[u]
    BY <1>1, <2>1, Replaced
  <2>3. \A u \in DOMAIN task : task[u] \in {"pinging", "waiting"} =>
                                task'[u] \in {"pinging", "waiting"}
    BY <2>1, <2>2
  <2>4. QED
    BY <1>1, <2>1, <2>2, <2>3 DEF SessionInv, SessionType, SessionOK, FailureHandled, Present
<1>3. CASE NoPong(t)
  <2>1. task' = [task EXCEPT ![t] = "done"] /\ "done" \in S
        /\ jvb' = [jvb EXCEPT !.handled = @ \/ jvb.ice = "failed"]
    BY <1>3 DEF NoPong
  <2>2. task' \in Seq(S)
    BY <1>1, <2>1, Replaced
  <2>3. /\ jvb' \in Session /\ jvb'.state = jvb.state /\ jvb'.ice = jvb.ice
        /\ jvb'.handled <=> jvb.handled \/ jvb.ice = "failed"
        /\ jvb'.replacing = jvb.replacing /\ jvb'.replaces = jvb.replaces
        /\ jvb'.broken <=> jvb.broken
    BY <1>1, <2>1 DEF Session
  <2>4. QED
    BY <1>1, <2>2, <2>3 DEF SessionInv, SessionType, SessionOK, FailureHandled, Present
<1>4. CASE ActOnIceFailed(t)
  <2>1. task' = [task EXCEPT ![t] = "done"] /\ "done" \in S
    BY <1>4 DEF ActOnIceFailed
  <2>2. task' \in Seq(S)
    BY <1>1, <2>1, Replaced
  <2>3. CASE jvb' = [jvb EXCEPT !.state = "ended"]
    <3>1. jvb' \in Session /\ jvb'.state = "ended"
          /\ jvb'.replacing = jvb.replacing /\ jvb'.replaces = jvb.replaces
      BY <1>1, <2>3 DEF Session
    <3>2. QED
      BY <2>2, <3>1 DEF SessionInv, SessionType, SessionOK, FailureHandled, Present
  <2>4. CASE jvb' = SendIceFailedNotification
    <3>1. /\ jvb' \in Session /\ jvb'.state = jvb.state /\ jvb'.ice = jvb.ice
          /\ jvb'.handled <=> jvb.handled \/ (room /\ jvb.ice = "failed")
          /\ jvb'.replacing = jvb.replacing /\ jvb'.replaces = jvb.replaces
          /\ jvb'.broken <=> jvb.broken
      BY <1>1, <2>4 DEF Session, SendIceFailedNotification
    <3>2. QED
      BY <1>1, <2>2, <3>1 DEF SessionInv, SessionType, SessionOK, FailureHandled, Present
  <2>5. QED
    BY <1>4, <2>3, <2>4 DEF ActOnIceFailed
<1>5. QED
  BY <1>2, <1>3, <1>4

LEMMA SessionStep ==
    ASSUME IInv, [Next]_vars
    PROVE  SessionInv' /\ room' \in BOOLEAN
<1> DEFINE S == {"pinging", "canceled", "waiting", "done"}
<1>1. /\ SessionInv /\ jvb \in Session /\ task \in Seq(S) /\ room \in BOOLEAN
      /\ SessionType /\ LinkInv /\ {MaxSessions, MaxReplaces} \subseteq Nat
  BY BridgeLinkAssumption DEF IInv, TypeOK, SessionInv, SessionType
<1>2. ASSUME UNCHANGED <<room, jvb, task>>, rtc # 0 => rtc' # 0
      PROVE  SessionInv' /\ room' \in BOOLEAN
  BY <1>1, <1>2, SameSession DEF Present
<1>3. ASSUME NEW i \in DOMAIN sock, SocketOpens(i) \/ SocketCloses(i)
      PROVE  SessionInv' /\ room' \in BOOLEAN
  BY <1>2, <1>3 DEF SocketOpens, SocketCloses
<1>4. ASSUME NEW c \in DOMAIN chan, Retry(c)
      PROVE  SessionInv' /\ room' \in BOOLEAN
  BY <1>2, <1>4 DEF Retry
<1>5. CASE SessionInitiate
  <2>1. rtc' # 0 /\ room /\ room' /\ task' = task
    BY <1>1, <1>5, NewChannelLink DEF SessionInitiate, conf
  <2>2. /\ jvb' \in Session /\ jvb'.ice = "new" /\ jvb'.replacing <= jvb'.replaces
    <3>1. jvb.sessions + 1 \in 0 .. MaxSessions /\ 0 \in 0 .. MaxReplaces
      BY <1>1, <1>5 DEF SessionInitiate, Session
    <3>2. jvb' \in Session
      BY <1>1, <1>5, <3>1 DEF SessionInitiate, Session
    <3>3. jvb'.ice = "new" /\ jvb'.replacing = 0 /\ jvb'.replaces = jvb.replaces
      BY <1>1, <1>5 DEF SessionInitiate, Session
    <3>4. jvb.replaces \in 0 .. MaxReplaces /\ MaxReplaces \in Nat
      BY <1>1 DEF Session
    <3>5. QED
      BY <3>2, <3>3, <3>4
  <2>3. QED
    BY <1>1, <2>1, <2>2 DEF SessionInv, SessionType, SessionOK, FailureHandled
<1>6. CASE MediaStarted
  <2>1. /\ jvb' \in Session /\ jvb'.ice = jvb.ice /\ (jvb'.handled <=> jvb.handled)
        /\ jvb'.replacing = jvb.replacing /\ jvb'.replaces = jvb.replaces
        /\ (jvb'.broken <=> jvb.broken) /\ Present
    BY <1>1, <1>6 DEF MediaStarted, Session, Present
  <2>2. QED
    BY <1>1, <1>6, <2>1, SameSession DEF MediaStarted
<1>7. CASE SessionTerminate
  <2>1. jvb' \in Session /\ jvb'.state = "none" /\ UNCHANGED <<room, task>>
        /\ jvb'.replacing = jvb.replacing /\ jvb'.replaces = jvb.replaces
    BY <1>1, <1>7 DEF SessionTerminate, Session
  <2>2. QED
    BY <1>1, <2>1 DEF SessionInv, SessionType, SessionOK, FailureHandled, Present
<1>8. CASE TransportReplace
  <2>1. jvb.replacing + 1 \in 0 .. MaxReplaces /\ jvb.replaces + 1 \in 0 .. MaxReplaces
    BY <1>1, <1>8 DEF TransportReplace, Session, SessionInv, SessionOK
  <2>2. /\ jvb' \in Session /\ UNCHANGED <<room, task>>
        /\ jvb'.state = jvb.state /\ jvb'.ice = jvb.ice /\ (jvb'.handled <=> jvb.handled)
        /\ jvb'.replacing = jvb.replacing + 1 /\ jvb'.replaces = jvb.replaces + 1
    BY <1>1, <1>8, <2>1 DEF TransportReplace, Session
  <2>3. jvb'.replacing <= jvb'.replaces /\ jvb'.replacing > 0
    BY <1>1, <2>1, <2>2 DEF SessionInv, SessionOK, Session
  <2>4. QED
    BY <1>1, <2>2, <2>3 DEF SessionInv, SessionType, SessionOK, FailureHandled, Present
<1>9. CASE TransportReplaced
  <2>1. rtc' # 0 /\ jvb.replacing - 1 \in 0 .. MaxReplaces
    BY <1>1, <1>9, NewChannelLink DEF TransportReplaced, Session, conf
  <2>2. /\ jvb' \in Session /\ UNCHANGED <<room, task>>
        /\ jvb'.state = jvb.state /\ jvb'.ice = "new"
        /\ jvb'.replacing = jvb.replacing - 1 /\ jvb'.replaces = jvb.replaces
    BY <1>1, <1>9, <2>1 DEF TransportReplaced, Session
  <2>3. jvb'.replacing <= jvb'.replaces
    BY <1>1, <2>2 DEF SessionInv, SessionOK, Session
  <2>4. QED
    BY <1>1, <2>1, <2>2, <2>3 DEF SessionInv, SessionType, SessionOK, FailureHandled, Present
<1>10. CASE TransportFails
  <2>1. jvb.replacing - 1 \in 0 .. MaxReplaces /\ rtc' = rtc
    BY <1>1, <1>10 DEF TransportFails, Session, link
  <2>2. /\ jvb' \in Session /\ UNCHANGED <<room, task>>
        /\ jvb'.state = jvb.state /\ jvb'.ice = jvb.ice /\ (jvb'.handled <=> jvb.handled)
        /\ jvb'.replacing = jvb.replacing - 1 /\ jvb'.replaces = jvb.replaces
        /\ (jvb'.broken <=> rtc = 0)
    BY <1>1, <1>10, <2>1 DEF TransportFails, Session
  <2>3. jvb'.replacing <= jvb'.replaces
    BY <1>1, <2>2 DEF SessionInv, SessionOK, Session
  <2>4. QED
    BY <1>1, <2>1, <2>2, <2>3 DEF SessionInv, SessionType, SessionOK, FailureHandled, Present
<1>11. CASE Leave
  <2>1. jvb' \in Session /\ jvb'.state = "none" /\ room' = FALSE /\ task' = Cancelled(task)
        /\ jvb'.replacing = jvb.replacing /\ jvb'.replaces = jvb.replaces
    BY <1>1, <1>11 DEF Leave, Session
  <2>2. QED
    BY <1>1, <2>1, CancelledType
       DEF SessionInv, SessionType, SessionOK, FailureHandled, Present
<1>12. CASE IceConnected
  <2>1. /\ jvb' \in Session /\ UNCHANGED <<room, rtc>> /\ task' \in {task, Cancelled(task)}
        /\ jvb'.state = jvb.state /\ jvb'.ice = "connected"
        /\ jvb'.replacing = jvb.replacing /\ jvb'.replaces = jvb.replaces
        /\ (jvb'.broken <=> jvb.broken)
    BY <1>1, <1>12 DEF IceConnected, Session, link
  <2>2. QED
    BY <1>1, <2>1, CancelledType
       DEF SessionInv, SessionType, SessionOK, FailureHandled, Present
<1>13. CASE IceDisconnected
  <2>1. /\ jvb' \in Session /\ UNCHANGED <<room, rtc, task>>
        /\ jvb'.state = jvb.state /\ jvb'.ice = "disconnected"
        /\ jvb'.replacing = jvb.replacing /\ jvb'.replaces = jvb.replaces
        /\ (jvb'.broken <=> jvb.broken)
    BY <1>1, <1>13 DEF IceDisconnected, Session, link
  <2>2. QED
    BY <1>1, <2>1 DEF SessionInv, SessionType, SessionOK, FailureHandled, Present
<1>14. CASE IceFailed
  <2>1. /\ jvb' \in Session /\ UNCHANGED <<room, rtc>> /\ task' = Append(task, "pinging")
        /\ jvb'.state = jvb.state
        /\ jvb'.replacing = jvb.replacing /\ jvb'.replaces = jvb.replaces
        /\ (jvb'.broken <=> jvb.broken)
    BY <1>1, <1>14 DEF IceFailed, Session, link
  <2>2. task' \in Seq(S) /\ Len(task') \in DOMAIN task' /\ task'[Len(task')] = "pinging"
    BY <1>1, <2>1, Appended
  <2>3. QED
    BY <1>1, <2>1, <2>2 DEF SessionInv, SessionType, SessionOK, FailureHandled, Present
<1>15. ASSUME NEW t \in DOMAIN task, Pong(t) \/ NoPong(t) \/ ActOnIceFailed(t)
       PROVE  SessionInv' /\ room' \in BOOLEAN
  <2>1. UNCHANGED <<rtc, room>>
    BY <1>15 DEF Pong, NoPong, ActOnIceFailed, link
  <2>2. QED
    BY <1>1, <1>15, <2>1, HandlingStep
<1>16. ASSUME NEW c, NEW way, NEW what, Ask(c, way, what)
       PROVE  SessionInv' /\ room' \in BOOLEAN
  BY <1>2, <1>16 DEF Ask
<1>17. CASE UNCHANGED vars
  BY <1>2, <1>17 DEF vars
<1>18. QED
  BY <1>3, <1>4, <1>5, <1>6, <1>7, <1>8, <1>9, <1>10, <1>11, <1>12, <1>13, <1>14, <1>15,
     <1>16, <1>17
     DEF Next, SetLastN, SelectEndpoints, SetPreferredReceiveMaxFrameHeight,
         SetReceiverConstraints

-----------------------------------------------------------------------------
(* Every step keeps WishInv and ToldOK.                                    *)

WishType == ctl \in Controller /\ asked \in Request

LEMMA SameWish ==
    ASSUME WishType, WishInv, UNCHANGED wish,
           jvb'.state = "started" => jvb.state = "started"
    PROVE  WishType' /\ WishInv'
<1>1. UNCHANGED <<ctl, asked>>
  BY DEF wish
<1>2. Updated(ctl)' = Updated(ctl)
  BY <1>1 DEF Updated
<1>3. ValuesOK'
  BY <1>1, <1>2 DEF WishInv, ValuesOK
<1>4. OwnOK' /\ UnsentOK'
  BY <1>1 DEF WishInv, OwnOK, UnsentOK
<1>5. QED
  BY <1>1, <1>3, <1>4 DEF WishType, WishInv

(* What the application asked for, after one more call of it.              *)
LEMMA AskedFields ==
    ASSUME asked \in Request, NEW way \in {"values", "own"}, NEW what \in Request, NEW c,
           what.ways = asked.ways, what.calls = asked.calls,
           Ask(c, way, what)
    PROVE  /\ asked' \in Request /\ ctl' = c /\ UNCHANGED <<mode, jvb, rtc, chan>>
           /\ asked'.lastN = what.lastN /\ asked'.view = what.view /\ asked'.own = what.own
           /\ asked'.ways = asked.ways \union {way}
<1>1. asked.calls + 1 \in 0 .. MaxCalls /\ MaxCalls \in Nat
  BY BridgeLinkAssumption DEF Ask, Request
<1>2. asked.ways \union {way} \in SUBSET {"values", "own"}
  BY DEF Request
<1>3. asked' = [what EXCEPT !.calls = asked.calls + 1, !.ways = asked.ways \union {way}]
  BY DEF Ask, Request
<1>4. asked' \in Request
  BY <1>1, <1>2, <1>3 DEF Request
<1>5. QED
  BY <1>3, <1>4 DEF Ask, Request, conf

LEMMA SetLastNWish ==
    ASSUME WishType, WishInv, NEW n \in LastN, SetLastN(n)
    PROVE  /\ WishType' /\ WishInv' /\ asked.ways \subseteq asked'.ways
           /\ "values" \in asked'.ways /\ UNCHANGED <<mode, rtc, chan>>
           /\ "own" \notin asked.ways => sock' = Told(sock, ctl') /\ ctl'.cached
<1> DEFINE what == [asked EXCEPT !.lastN = n]
<1>1. ctl \in Controller /\ asked \in Request /\ asked.lastN # n
  BY DEF WishType, SetLastN
<1>2. /\ what \in Request /\ what.lastN = n /\ what.view = asked.view
      /\ what.own = asked.own /\ what.ways = asked.ways /\ what.calls = asked.calls
  BY <1>1 DEF Request
<1>3. Ask(WithLastN(ctl, n), "values", what)
  BY DEF SetLastN
<1> HIDE DEF what
<1>4. /\ asked' \in Request /\ ctl' = WithLastN(ctl, n) /\ UNCHANGED <<mode, jvb, rtc, chan>>
      /\ asked'.lastN = n /\ asked'.view = asked.view /\ asked'.own = asked.own
      /\ asked'.ways = asked.ways \union {"values"}
  BY <1>1, <1>2, <1>3, AskedFields
<1>5. /\ ctl' \in Controller /\ ctl'.lastN = n /\ ctl'.height = ctl.height
      /\ ctl'.rvcHeight = ctl.rvcHeight /\ ctl'.selected = ctl.selected
      /\ IF ctl.lastN # n /\ ctl.rvcLastN # n
         THEN ctl'.cached /\ ctl'.rvcLastN = n /\ ctl'.obj = Updated(ctl').obj
              /\ (ctl.selected = {} => ctl'.obj.view = ctl.obj.view)
         ELSE ctl'.rvcLastN = ctl.rvcLastN /\ ctl'.obj = ctl.obj /\ (ctl'.cached <=> ctl.cached)
  BY <1>1, <1>4, LastNFields
<1>6. "own" \notin asked.ways => ctl.lastN # n /\ ctl.rvcLastN # n
  BY <1>1 DEF WishInv, ValuesOK
<1>7. ValuesOK'
  BY <1>4, <1>5, <1>6 DEF WishInv, ValuesOK
<1>8. OwnOK'
  BY <1>4 DEF OwnOK
<1>9. UnsentOK'
  BY <1>5 DEF WishInv, UnsentOK
<1>10. "own" \notin asked.ways => sock' = Told(sock, ctl') /\ ctl'.cached
  BY <1>1, <1>5, <1>6 DEF SetLastN
<1>11. QED
  BY <1>4, <1>5, <1>7, <1>8, <1>9, <1>10 DEF WishType, WishInv

LEMMA SelectEndpointsWish ==
    ASSUME WishType, WishInv, NEW ids \in SUBSET Endpoint, SelectEndpoints(ids)
    PROVE  /\ WishType' /\ WishInv' /\ asked.ways \subseteq asked'.ways
           /\ "values" \in asked'.ways /\ UNCHANGED <<mode, rtc, chan>>
           /\ "own" \notin asked.ways =>
                \/ sock' = Told(sock, ctl') /\ ctl'.cached
                \/ sock' = sock /\ ctl'.obj = ctl.obj
<1> DEFINE what == IF ids = {} THEN asked ELSE [asked EXCEPT !.view.shown = ids]
<1>1. ctl \in Controller /\ asked \in Request
  BY DEF WishType
<1>2. /\ what \in Request /\ what.lastN = asked.lastN
      /\ what.view.shown = (IF ids = {} THEN asked.view.shown ELSE ids)
      /\ what.view.height = asked.view.height
      /\ what.own = asked.own /\ what.ways = asked.ways /\ what.calls = asked.calls
  <2>1. CASE ids = {}
    BY <1>1, <2>1
  <2>2. CASE ids # {}
    BY <1>1, <2>2 DEF Request
  <2>3. QED
    BY <2>1, <2>2
<1>3. Ask(WithSelected(ctl, ids), "values", what)
  BY DEF SelectEndpoints
<1> HIDE DEF what
<1>4. /\ asked' \in Request /\ ctl' = WithSelected(ctl, ids)
      /\ UNCHANGED <<mode, jvb, rtc, chan>>
      /\ asked'.lastN = asked.lastN /\ asked'.view = what.view /\ asked'.own = asked.own
      /\ asked'.ways = asked.ways \union {"values"}
  BY <1>1, <1>2, <1>3, AskedFields
<1>5. /\ ctl' \in Controller /\ ctl'.lastN = ctl.lastN /\ ctl'.height = ctl.height
      /\ ctl'.rvcLastN = ctl.rvcLastN /\ ctl'.rvcHeight = ctl.rvcHeight
      /\ ctl'.selected = (IF ids = {} THEN ctl.selected ELSE ids)
      /\ ctl'.obj = Updated(ctl').obj
      /\ ctl'.selected = {} => ctl'.obj.view = ctl.obj.view
      /\ ctl'.obj # Updated(ctl).obj => ctl'.cached
      /\ ctl.cached => ctl'.cached
  BY <1>1, <1>4, SelectedFields
<1>6. "own" \notin asked.ways => ctl.obj = Updated(ctl).obj
  BY DEF WishInv, ValuesOK
<1>7. ValuesOK'
  BY <1>2, <1>4, <1>5 DEF WishInv, ValuesOK
<1>8. OwnOK'
  BY <1>4 DEF OwnOK
<1>9. UnsentOK'
  <2>1. SUFFICES ASSUME ~ctl'.cached
                 PROVE  ctl'.obj = Unasked /\ ctl'.rvcLastN = Unlimited /\ ctl'.selected = {}
    BY DEF UnsentOK
  <2>2. ctl.obj = Unasked /\ ctl.rvcLastN = Unlimited /\ ctl.selected = {}
    BY <1>5, <2>1 DEF WishInv, UnsentOK
  <2>3. Unasked.lastN = Unlimited /\ Unasked.view.shown = {}
    BY DEF Unasked, NoView
  <2>4. ctl.obj = Updated(ctl).obj
    BY <1>1, <2>2, <2>3, UpToDate
  <2>5. ctl'.obj = Unasked
    BY <1>5, <2>1, <2>2, <2>4
  <2>6. ids = {}
    <3>1. SUFFICES ASSUME ids # {} PROVE FALSE
      OBVIOUS
    <3>2. ctl'.selected = ids /\ ctl'.obj.view = [shown |-> ids, height |-> ctl'.rvcHeight]
      BY <1>5, <3>1, UpToDate
    <3>3. QED
      BY <2>3, <2>5, <3>1, <3>2
  <2>7. QED
    BY <1>5, <2>2, <2>5, <2>6
<1>10. "own" \notin asked.ways =>
          \/ sock' = Told(sock, ctl') /\ ctl'.cached
          \/ sock' = sock /\ ctl'.obj = ctl.obj
  BY <1>5, <1>6 DEF SelectEndpoints
<1>11. QED
  BY <1>4, <1>5, <1>7, <1>8, <1>9, <1>10 DEF WishType, WishInv

LEMMA SetHeightWish ==
    ASSUME WishType, WishInv, NEW h \in Height, SetPreferredReceiveMaxFrameHeight(h)
    PROVE  /\ WishType' /\ WishInv' /\ asked.ways \subseteq asked'.ways
           /\ "values" \in asked'.ways /\ UNCHANGED <<mode, rtc, chan>>
           /\ \/ sock' = Told(sock, ctl') /\ ctl'.cached
              \/ sock' = sock /\ ctl'.obj = ctl.obj
<1> DEFINE what == [asked EXCEPT !.view.height = h]
           session == jvb.state # "none"
<1>1. ctl \in Controller /\ asked \in Request /\ session \in BOOLEAN
  BY DEF WishType
<1>2. /\ what \in Request /\ what.lastN = asked.lastN
      /\ what.view.shown = asked.view.shown /\ what.view.height = h
      /\ what.own = asked.own /\ what.ways = asked.ways /\ what.calls = asked.calls
  BY <1>1 DEF Request
<1>3. Ask(WithHeight(ctl, h, session), "values", what)
  BY DEF SetPreferredReceiveMaxFrameHeight
<1> HIDE DEF what
<1>4. /\ asked' \in Request /\ ctl' = WithHeight(ctl, h, session)
      /\ UNCHANGED <<mode, jvb, rtc, chan>>
      /\ asked'.lastN = asked.lastN /\ asked'.view = what.view /\ asked'.own = asked.own
      /\ asked'.ways = asked.ways \union {"values"}
  BY <1>1, <1>2, <1>3, AskedFields
<1>5. jvb'.state = "started" => session
  BY <1>4
<1> HIDE DEF session
<1>6. /\ ctl' \in Controller /\ ctl'.lastN = ctl.lastN /\ ctl'.height = h
      /\ ctl'.rvcLastN = ctl.rvcLastN /\ ctl'.selected = ctl.selected
      /\ session => ctl'.rvcHeight = h
      /\ IF ctl'.rvcHeight # ctl.rvcHeight
         THEN ctl'.cached /\ ctl'.obj = Updated(ctl').obj
              /\ (ctl.selected = {} => ctl'.obj.view = ctl.obj.view)
         ELSE ctl'.obj = ctl.obj /\ (ctl'.cached <=> ctl.cached)
  BY <1>1, <1>4, HeightFields
<1>7. ctl'.rvcHeight = ctl.rvcHeight /\ ctl.obj = Updated(ctl).obj => ctl'.obj = Updated(ctl').obj
  BY <1>1, <1>6, UpToDate
<1>8. ValuesOK'
  BY <1>2, <1>4, <1>5, <1>6, <1>7 DEF WishInv, ValuesOK
<1>9. OwnOK'
  BY <1>4 DEF OwnOK
<1>10. UnsentOK'
  BY <1>6 DEF WishInv, UnsentOK
<1>11. \/ sock' = Told(sock, ctl') /\ ctl'.cached
       \/ sock' = sock /\ ctl'.obj = ctl.obj
  BY <1>6 DEF SetPreferredReceiveMaxFrameHeight
<1>12. QED
  BY <1>4, <1>6, <1>8, <1>9, <1>10, <1>11 DEF WishType, WishInv

LEMMA SetConstraintsWish ==
    ASSUME WishType, WishInv, NEW own \in Constraints, SetReceiverConstraints(own)
    PROVE  /\ WishType' /\ WishInv' /\ asked.ways \subseteq asked'.ways
           /\ "own" \in asked'.ways /\ UNCHANGED <<mode, rtc, chan>>
           /\ \/ sock' = Told(sock, ctl') /\ ctl'.cached
              \/ sock' = sock /\ ctl'.obj = ctl.obj
<1> DEFINE what == [asked EXCEPT !.own = own]
<1>1. ctl \in Controller /\ asked \in Request
  BY DEF WishType
<1>2. /\ what \in Request /\ what.lastN = asked.lastN /\ what.view = asked.view
      /\ what.own = own /\ what.ways = asked.ways /\ what.calls = asked.calls
  BY <1>1 DEF Request
<1>3. Ask(WithConstraints(ctl, own), "own", what)
  BY DEF SetReceiverConstraints
<1> HIDE DEF what
<1>4. /\ asked' \in Request /\ ctl' = WithConstraints(ctl, own)
      /\ UNCHANGED <<mode, jvb, rtc, chan>>
      /\ asked'.lastN = asked.lastN /\ asked'.view = asked.view /\ asked'.own = own
      /\ asked'.ways = asked.ways \union {"own"}
  BY <1>1, <1>2, <1>3, AskedFields
<1>5. /\ ctl' \in Controller /\ ctl'.rvcLastN = ctl.rvcLastN
      /\ ctl'.selected = ctl.selected /\ ctl'.obj = own
      /\ IF ctl.obj = own THEN ctl' = ctl ELSE ctl'.cached
  BY <1>1, <1>4, ConstraintsFields
<1>6. ValuesOK'
  BY <1>4 DEF ValuesOK
<1>7. OwnOK'
  <2>1. own = [own EXCEPT !.lastN = own.lastN]
    BY DEF Constraints
  <2>2. QED
    BY <1>4, <1>5, <2>1 DEF WishInv, OwnOK
<1>8. UnsentOK'
  BY <1>5 DEF WishInv, UnsentOK
<1>9. \/ sock' = Told(sock, ctl') /\ ctl'.cached
      \/ sock' = sock /\ ctl'.obj = ctl.obj
  BY <1>5 DEF SetReceiverConstraints
<1>10. QED
  BY <1>4, <1>5, <1>6, <1>7, <1>8, <1>9 DEF WishType, WishInv

LEMMA MediaStartedWish ==
    ASSUME WishType, WishInv, jvb \in Session, MediaStarted
    PROVE  /\ WishType' /\ WishInv' /\ UNCHANGED <<mode, rtc, chan, asked>>
           /\ sock' = Told(sock, ctl') /\ ctl'.cached
<1>1. ctl \in Controller /\ asked \in Request /\ asked' = asked
      /\ UNCHANGED <<mode, rtc, chan>> /\ sock' = Told(sock, ctl')
  BY DEF WishType, MediaStarted, conf
<1>2. /\ ctl' \in Controller /\ ctl'.lastN = ctl.lastN /\ ctl'.height = ctl.height
      /\ ctl'.rvcLastN = ctl.rvcLastN /\ ctl'.rvcHeight = ctl.height
      /\ ctl'.selected = ctl.selected /\ ctl'.cached
      /\ ctl'.obj = Updated(ctl').obj
      /\ ctl.selected = {} => ctl'.obj.view = ctl.obj.view
  BY <1>1, StartedFields DEF MediaStarted
<1>3. ValuesOK'
  BY <1>1, <1>2 DEF WishInv, ValuesOK
<1>4. OwnOK'
  <2>1. SUFFICES ASSUME "values" \notin asked.ways, asked.ways # {}
                 PROVE  ctl'.obj = [asked.own EXCEPT !.lastN = ctl'.rvcLastN]
    BY <1>1, <1>2 DEF WishInv, OwnOK
  <2>2. ctl.selected = {} /\ ctl.obj.view = asked.own.view
    BY <1>1, <2>1 DEF WishInv, OwnOK, Request, Constraints
  <2>3. ctl'.obj \in Constraints /\ ctl'.obj.lastN = ctl'.rvcLastN
        /\ ctl'.obj.view = asked.own.view
    BY <1>2, <2>2, UpToDate DEF Controller
  <2>4. QED
    BY <1>1, <2>3 DEF Request, Constraints
<1>5. UnsentOK'
  BY <1>2 DEF UnsentOK
<1>6. QED
  BY <1>1, <1>2, <1>3, <1>4, <1>5 DEF WishType, WishInv

LEMMA ToldKept ==
    ASSUME ToldOK, asked.ways \subseteq asked'.ways, asked' \in Request, ctl'.obj = ctl.obj,
           IsOpen(rtc)' => IsOpen(rtc) /\ sock'[chan'[rtc'].ref].told = sock[chan[rtc].ref].told
    PROVE  ToldOK'
    BY DEF ToldOK, Request

LEMMA ToldAnew ==
    ASSUME LinkInv, UNCHANGED <<rtc, chan>>, ctl' \in Controller, ctl'.cached,
           sock' = Told(sock, ctl')
    PROVE  ToldOK'
<1>1. OpenIn(sock, rtc) => chan[rtc].ref \in DOMAIN sock
  BY SequenceDomains DEF LinkInv, LinkOK, OpenIn
<1>2. \A i \in DOMAIN sock :
         /\ sock'[i].state = sock[i].state
         /\ OpenIn(sock, rtc) /\ i = chan[rtc].ref => sock'[i].told = ctl'.obj
  BY <1>1, ToldFields DEF LinkInv, LinkType
<1>3. ASSUME IsOpen(rtc)'
      PROVE  sock'[chan'[rtc'].ref].told = ctl'.obj
  <2>1. rtc # 0 /\ chan[rtc].ref # 0 /\ rtc \in DOMAIN chan
    BY <1>3, SequenceDomains DEF IsOpen, OpenIn, LinkInv
  <2>2. chan[rtc].ref \in DOMAIN sock
    BY <2>1 DEF LinkInv, LinkOK
  <2>3. OpenIn(sock, rtc)
    BY <1>2, <1>3, <2>1, <2>2 DEF IsOpen, OpenIn
  <2>4. QED
    BY <1>2, <2>2, <2>3
<1>4. QED
  BY <1>3 DEF ToldOK

LEMMA SocketOpensTold ==
    ASSUME LinkInv, WishType, WishInv, ToldOK, NEW i \in DOMAIN sock, SocketOpens(i)
    PROVE  ToldOK'
<1> DEFINE ss == [sock EXCEPT ![i].state = "open"]
<1>1. /\ LinkType /\ sock[i].state = "connecting" /\ sock[i].told = Unasked
      /\ UNCHANGED <<rtc, wish>> /\ ctl \in Controller
  BY DEF LinkInv, LinkOK, SocketOpens, WishType
<1>2. /\ ss \in Seq(Socket) /\ DOMAIN ss = DOMAIN sock
      /\ ss[i].state = "open" /\ ss[i].told = sock[i].told
      /\ \A j \in DOMAIN sock \ {i} : ss[j] = sock[j]
  BY <1>1, OpenedSocket
<1>3. sock' = Told(ss, ctl)
  BY DEF SocketOpens
<1> HIDE DEF ss
<1>4. \A c \in DOMAIN chan : chan'[c].ref = chan[c].ref
  BY <1>1, SocketOpensLink
<1>5. SUFFICES ASSUME IsOpen(rtc)', asked.ways # {"values", "own"}
               PROVE  sock'[chan[rtc].ref].told = ctl.obj
  <2>1. UNCHANGED <<ctl, asked>>
    BY <1>1 DEF wish
  <2>2. rtc # 0 => rtc \in DOMAIN chan
    BY <1>1, SequenceDomains
  <2>3. QED
    BY <1>1, <1>4, <2>1, <2>2 DEF ToldOK, IsOpen, OpenIn
<1> DEFINE r == chan[rtc].ref
<1>6. rtc # 0 /\ rtc \in DOMAIN chan /\ r # 0 /\ r \in DOMAIN sock
  <2>1. rtc # 0 /\ rtc \in DOMAIN chan
    BY <1>1, <1>5, SequenceDomains DEF IsOpen, OpenIn
  <2>2. r # 0
    BY <1>1, <1>4, <1>5, <2>1 DEF IsOpen, OpenIn
  <2>3. QED
    BY <2>1, <2>2 DEF LinkInv, LinkOK
<1>7. \A j \in DOMAIN ss :
        /\ sock'[j].state = ss[j].state
        /\ sock'[j].told = IF OpenIn(ss, rtc) /\ ctl.cached /\ j = r THEN ctl.obj ELSE ss[j].told
  BY <1>1, <1>2, <1>3, <1>6, ToldFields
<1>8. OpenIn(ss, rtc)
  BY <1>1, <1>2, <1>4, <1>5, <1>6, <1>7 DEF IsOpen, OpenIn
<1>9. CASE ctl.cached
  BY <1>2, <1>6, <1>7, <1>8, <1>9
<1>10. CASE ~ctl.cached
  <2>1. ctl.obj = Unasked
    BY <1>10 DEF WishInv, UnsentOK
  <2>2. sock'[r].told = ss[r].told
    BY <1>2, <1>6, <1>7, <1>10
  <2>3. CASE r = i
    BY <1>1, <1>2, <2>1, <2>2, <2>3
  <2>4. CASE r # i
    BY <1>2, <1>5, <1>6, <1>8, <2>2, <2>4 DEF ToldOK, IsOpen, OpenIn
  <2>5. QED
    BY <2>3, <2>4
<1>11. QED
  BY <1>9, <1>10

LEMMA WishStep ==
    ASSUME IInv, [Next]_vars
    PROVE  WishType' /\ WishInv' /\ ToldOK'
<1>1. /\ LinkInv /\ WishType /\ WishInv /\ ToldOK /\ jvb \in Session
      /\ asked \in Request /\ asked.ways \subseteq {"values", "own"}
  BY DEF IInv, TypeOK, WishType, Request
<1>2. ASSUME UNCHANGED wish, jvb'.state = "started" => jvb.state = "started",
             IsOpen(rtc)' => IsOpen(rtc) /\ sock'[chan'[rtc'].ref].told = sock[chan[rtc].ref].told
      PROVE  WishType' /\ WishInv' /\ ToldOK'
  <2>1. WishType' /\ WishInv'
    BY <1>1, <1>2, SameWish
  <2>2. asked' = asked /\ ctl' = ctl
    BY <1>2 DEF wish
  <2>3. QED
    BY <1>1, <1>2, <2>1, <2>2, ToldKept
<1>3. ASSUME WishType', UNCHANGED <<rtc, chan>>, asked.ways \subseteq asked'.ways,
             asked'.ways # {"values", "own"} =>
               \/ sock' = Told(sock, ctl') /\ ctl'.cached
               \/ sock' = sock /\ ctl'.obj = ctl.obj
      PROVE  ToldOK'
  <2>1. CASE asked'.ways = {"values", "own"}
    BY <2>1 DEF ToldOK
  <2>2. CASE sock' = Told(sock, ctl') /\ ctl'.cached
    BY <1>1, <1>3, <2>2, ToldAnew DEF WishType
  <2>3. CASE sock' = sock /\ ctl'.obj = ctl.obj
    BY <1>1, <1>3, <2>3, ToldKept DEF WishType, IsOpen, OpenIn
  <2>4. QED
    BY <1>3, <2>1, <2>2, <2>3
<1>4. ASSUME NEW i \in DOMAIN sock, SocketOpens(i)
      PROVE  WishType' /\ WishInv' /\ ToldOK'
  <2>1. UNCHANGED <<jvb, wish>>
    BY <1>4 DEF SocketOpens
  <2>2. QED
    BY <1>1, <1>4, <2>1, SameWish, SocketOpensTold
<1>5. ASSUME NEW i \in DOMAIN sock, SocketCloses(i)
      PROVE  WishType' /\ WishInv' /\ ToldOK'
  <2>1. UNCHANGED <<jvb, rtc, wish>>
    BY <1>5 DEF SocketCloses
  <2>2. IsOpen(rtc)' => IsOpen(rtc) /\ sock'[chan'[rtc].ref] = sock[chan[rtc].ref]
    BY <1>1, <1>5, SocketClosesLink
  <2>3. QED
    BY <1>2, <2>1, <2>2
<1>6. ASSUME NEW c \in DOMAIN chan, Retry(c)
      PROVE  WishType' /\ WishInv' /\ ToldOK'
  <2>1. UNCHANGED <<jvb, rtc, wish>>
    BY <1>6 DEF Retry
  <2>2. IsOpen(rtc)' => IsOpen(rtc) /\ sock'[chan'[rtc].ref] = sock[chan[rtc].ref]
    BY <1>1, <1>6, RetryLink
  <2>3. QED
    BY <1>2, <2>1, <2>2
<1>7. CASE SessionInitiate
  <2>1. ~IsOpen(rtc)' /\ UNCHANGED wish
    BY <1>1, <1>7, NewChannelLink DEF SessionInitiate, conf
  <2>2. jvb'.state = "accepting"
    BY <1>1, <1>7 DEF SessionInitiate, Session
  <2>3. QED
    BY <1>2, <2>1, <2>2
<1>8. CASE MediaStarted
  BY <1>1, <1>3, <1>8, MediaStartedWish
<1>9. CASE SessionTerminate
  <2>1. ~IsOpen(rtc)' /\ UNCHANGED wish
    BY <1>1, <1>9, EndedLink DEF SessionTerminate, conf
  <2>2. jvb'.state = "none"
    BY <1>1, <1>9 DEF SessionTerminate, Session
  <2>3. QED
    BY <1>2, <2>1, <2>2
<1>10. CASE TransportReplace
  <2>1. ~IsOpen(rtc)' /\ UNCHANGED wish
    BY <1>1, <1>10, ClosedLink DEF TransportReplace, conf
  <2>2. jvb'.state = jvb.state
    BY <1>1, <1>10 DEF TransportReplace, Session
  <2>3. QED
    BY <1>2, <2>1, <2>2
<1>11. CASE TransportReplaced
  <2>1. ~IsOpen(rtc)' /\ UNCHANGED wish
    BY <1>1, <1>11, NewChannelLink DEF TransportReplaced, conf
  <2>2. jvb'.state = jvb.state
    BY <1>1, <1>11 DEF TransportReplaced, Session
  <2>3. QED
    BY <1>2, <2>1, <2>2
<1>12. CASE Leave
  <2>1. ~IsOpen(rtc)' /\ UNCHANGED wish
    BY <1>1, <1>12, ClosedLink DEF Leave, conf
  <2>2. jvb'.state = "none"
    BY <1>1, <1>12 DEF Leave, Session
  <2>3. QED
    BY <1>2, <2>1, <2>2
<1>13. CASE TransportFails \/ IceConnected \/ IceDisconnected \/ IceFailed
  <2>1. UNCHANGED <<rtc, chan, sock, wish>>
    BY <1>13 DEF TransportFails, IceConnected, IceDisconnected, IceFailed, link
  <2>2. jvb'.state = jvb.state
    BY <1>1, <1>13 DEF TransportFails, IceConnected, IceDisconnected, IceFailed, Session
  <2>3. QED
    BY <1>2, <2>1, <2>2 DEF IsOpen, OpenIn
<1>14. ASSUME NEW t \in DOMAIN task, Pong(t) \/ NoPong(t)
       PROVE  WishType' /\ WishInv' /\ ToldOK'
  <2>1. UNCHANGED <<rtc, chan, sock, wish>>
    BY <1>14 DEF Pong, NoPong, link
  <2>2. jvb'.state = jvb.state
    BY <1>1, <1>14 DEF Pong, NoPong, Session
  <2>3. QED
    BY <1>2, <2>1, <2>2 DEF IsOpen, OpenIn
<1>15. ASSUME NEW t \in DOMAIN task, ActOnIceFailed(t)
       PROVE  WishType' /\ WishInv' /\ ToldOK'
  <2>1. UNCHANGED <<mode, rtc, wish>> /\ (PeerConnectionCloses \/ UNCHANGED <<chan, sock>>)
    BY <1>15 DEF ActOnIceFailed, conf
  <2>2. jvb'.state \in {jvb.state, "ended"}
    BY <1>1, <1>15 DEF ActOnIceFailed, SendIceFailedNotification, Session
  <2>3. CASE UNCHANGED <<chan, sock>>
    BY <1>2, <2>1, <2>2, <2>3 DEF IsOpen, OpenIn
  <2>4. CASE PeerConnectionCloses
    <3>1. IsOpen(rtc)' => UNCHANGED <<chan, sock>>
      BY <1>1, <2>1, <2>4, CarrierLink
    <3>2. QED
      BY <1>2, <2>1, <2>2, <3>1 DEF IsOpen, OpenIn
  <2>5. QED
    BY <2>1, <2>3, <2>4
<1>16. ASSUME NEW n \in LastN, SetLastN(n)
       PROVE  WishType' /\ WishInv' /\ ToldOK'
  <2>1. /\ WishType' /\ WishInv' /\ asked.ways \subseteq asked'.ways
        /\ "values" \in asked'.ways /\ UNCHANGED <<mode, rtc, chan>>
        /\ "own" \notin asked.ways => sock' = Told(sock, ctl') /\ ctl'.cached
    BY <1>1, <1>16, SetLastNWish
  <2>2. asked'.ways # {"values", "own"} => "own" \notin asked.ways
    BY <2>1 DEF WishType, Request
  <2>3. QED
    BY <1>3, <2>1, <2>2
<1>17. ASSUME NEW ids \in SUBSET Endpoint, SelectEndpoints(ids)
       PROVE  WishType' /\ WishInv' /\ ToldOK'
  <2>1. /\ WishType' /\ WishInv' /\ asked.ways \subseteq asked'.ways
        /\ "values" \in asked'.ways /\ UNCHANGED <<mode, rtc, chan>>
        /\ "own" \notin asked.ways =>
             \/ sock' = Told(sock, ctl') /\ ctl'.cached
             \/ sock' = sock /\ ctl'.obj = ctl.obj
    BY <1>1, <1>17, SelectEndpointsWish
  <2>2. asked'.ways # {"values", "own"} => "own" \notin asked.ways
    BY <2>1 DEF WishType, Request
  <2>3. QED
    BY <1>3, <2>1, <2>2
<1>18. ASSUME NEW h \in Height, SetPreferredReceiveMaxFrameHeight(h)
       PROVE  WishType' /\ WishInv' /\ ToldOK'
  BY <1>1, <1>3, <1>18, SetHeightWish
<1>19. ASSUME NEW own \in Own, SetReceiverConstraints(own)
       PROVE  WishType' /\ WishInv' /\ ToldOK'
  <2>1. own \in Constraints
    BY BridgeLinkAssumption
  <2>2. QED
    BY <1>1, <1>3, <1>19, <2>1, SetConstraintsWish
<1>20. CASE UNCHANGED vars
  BY <1>2, <1>20 DEF vars, wish, IsOpen, OpenIn
<1>21. QED
  BY <1>4, <1>5, <1>6, <1>7, <1>8, <1>9, <1>10, <1>11, <1>12, <1>13, <1>14, <1>15, <1>16,
     <1>17, <1>18, <1>19, <1>20 DEF Next

-----------------------------------------------------------------------------
(* The invariant is inductive.                                             *)

LEMMA InitialController ==
    ASSUME NEW n \in LastN
    PROVE  LET c == NewController(n) IN
           /\ c \in Controller /\ c.lastN = n /\ c.rvcLastN = n
           /\ c.height = OnStage /\ c.rvcHeight = OnStage /\ c.selected = {}
           /\ c.obj = Updated(c).obj /\ c.obj.view = NoView
           /\ ~c.cached => c.obj = Unasked /\ c.rvcLastN = Unlimited
<1> DEFINE e == [lastN |-> n, height |-> OnStage, rvcLastN |-> n, rvcHeight |-> OnStage,
                 selected |-> {}, obj |-> Unasked, cached |-> FALSE]
<1>1. /\ e \in Controller /\ e.lastN = n /\ e.rvcLastN = n /\ e.height = OnStage
      /\ e.rvcHeight = OnStage /\ e.selected = {} /\ e.obj = Unasked /\ ~e.cached
  BY UnaskedType, StageInHeight DEF Controller
<1>2. NewController(n) = IF n = Unlimited THEN e ELSE Sent(e)
  BY DEF NewController
<1>3. Unasked.lastN = Unlimited /\ Unasked.view = NoView
  BY DEF Unasked
<1> HIDE DEF e
<1>4. CASE n = Unlimited
  <2>1. e.obj = Updated(e).obj
    BY <1>1, <1>3, <1>4, UpToDate
  <2>2. QED
    BY <1>1, <1>2, <1>3, <1>4, <2>1
<1>5. CASE n # Unlimited
  <2>1. Sent(e).obj = Updated(Sent(e)).obj /\ Sent(e).obj.view = NoView
    BY <1>1, <1>3, Idempotent, SentFields, UpdatedFields, ZenonT(60)
  <2>2. QED
    BY <1>1, <1>2, <1>5, <2>1, SentFields
<1>6. QED
  BY <1>4, <1>5

LEMMA InitIInv ==
    ASSUME Init
    PROVE  IInv
<1>1. PICK d \in Deployment : mode = d[1] /\ restart = d[2]
  BY DEF Init
<1>2. mode \in Modes /\ restart \in Restarts
  BY <1>1, BridgeLinkAssumption
<1>3. PICK n \in LastN :
        /\ ctl = NewController(n)
        /\ asked = [lastN |-> n, view |-> [shown |-> {}, height |-> OnStage],
                    own |-> Unasked, ways |-> {}, calls |-> 0]
  BY DEF Init
<1>4. /\ ctl \in Controller /\ ctl.lastN = n /\ ctl.rvcLastN = n
      /\ ctl.height = OnStage /\ ctl.rvcHeight = OnStage /\ ctl.selected = {}
      /\ ctl.obj = Updated(ctl).obj /\ ctl.obj.view = NoView
      /\ ~ctl.cached => ctl.obj = Unasked /\ ctl.rvcLastN = Unlimited
  BY <1>3, InitialController
<1>5. asked \in Request
  BY <1>3, BridgeLinkAssumption, UnaskedType, StageInHeight DEF Request
<1>6. jvb \in Session /\ jvb.state = "none" /\ jvb.replacing = 0 /\ jvb.replaces = 0
  BY BridgeLinkAssumption DEF Init, Session
<1>7. /\ room = TRUE /\ task = <<>> /\ rtc = 0 /\ chan = <<>> /\ sock = <<>>
      /\ DOMAIN chan = {} /\ DOMAIN sock = {}
  BY DEF Init
<1>8. TypeOK
  BY <1>2, <1>4, <1>5, <1>6, <1>7, EmptySeq DEF TypeOK
<1>9. LinkInv
  BY <1>7, EmptySeq DEF LinkInv, LinkType, LinkOK, RetryOK, RtcComesBack
<1>10. SessionOK /\ FailureHandled
  BY <1>6, <1>7 DEF SessionOK, FailureHandled, Present
<1>11. ValuesOK
  BY <1>3, <1>4 DEF ValuesOK
<1>12. OwnOK /\ UnsentOK /\ ToldOK
  BY <1>3, <1>4, <1>7 DEF OwnOK, UnsentOK, ToldOK, IsOpen, OpenIn
<1>13. QED
  BY <1>8, <1>9, <1>10, <1>11, <1>12 DEF IInv, WishInv

LEMMA NextIInv ==
    ASSUME IInv, [Next]_vars
    PROVE  IInv'
<1>1. LinkInv' /\ SessionInv' /\ room' \in BOOLEAN /\ WishType' /\ WishInv' /\ ToldOK'
  BY LinkStep, SessionStep, WishStep
<1>2. UNCHANGED conf
  BY DEF Next, vars, conf, SocketOpens, SocketCloses, Retry, SessionInitiate, MediaStarted,
         SessionTerminate, TransportReplace, TransportReplaced, TransportFails, Leave,
         IceConnected, IceDisconnected, IceFailed, Pong, NoPong, ActOnIceFailed,
         SetLastN, SelectEndpoints, SetPreferredReceiveMaxFrameHeight,
         SetReceiverConstraints, Ask
<1>3. TypeOK'
  BY <1>1, <1>2 DEF IInv, TypeOK, conf, LinkInv, LinkType, SessionInv, SessionType, WishType
<1>4. QED
  BY <1>1, <1>3 DEF IInv, SessionInv

(* IInv, the inductive invariant of the whole module, of which every other *)
(* theorem here is a part or a consequence.                                *)
THEOREM Inductive == Spec => []IInv
<1>1. Init => IInv
  BY InitIInv
<1>2. IInv /\ [Next]_vars => IInv'
  BY NextIInv
<1>3. QED
  BY <1>1, <1>2, PTL DEF Spec

-----------------------------------------------------------------------------
(* What follows from it.                                                   *)

(* TypeOK: every variable keeps its type.                                  *)
THEOREM TypeCorrect == Spec => []TypeOK
<1>1. IInv => TypeOK
  BY DEF IInv
<1>2. QED
  BY <1>1, Inductive, PTL

(* ChannelComesBack: a session has a channel unless its transport is being *)
(* or could not be replaced, and a lost socket is on its way, will be      *)
(* tried again, or was mixed up with another.                              *)
THEOREM ComesBack == Spec => []ChannelComesBack
<1>1. IInv => ChannelComesBack
  BY DEF IInv, LinkInv, SessionOK, RtcComesBack, ChannelComesBack
<1>2. QED
  BY <1>1, Inductive, PTL

(* FailureHandled: IceFailedHandling has a task for every failure of ICE,  *)
(* or had one that was carried out.                                        *)
THEOREM FailureIsHandled == Spec => []FailureHandled
<1>1. IInv => FailureHandled
  BY DEF IInv
<1>2. QED
  BY <1>1, Inductive, PTL

LEMMA OneWay ==
    ASSUME asked \in Request, Cardinality(asked.ways) = 1
    PROVE  asked.ways = {"values"} \/ asked.ways = {"own"}
<1>1. asked.ways \subseteq {"values", "own"}
  BY DEF Request
<1>2. asked.ways # {}
  BY FS_EmptySet
<1>3. Cardinality({"values", "own"}) = 2
  <2>1. IsFiniteSet({"values"}) /\ Cardinality({"values"}) = 1
    BY FS_Singleton
  <2>2. {"values"} \union {"own"} = {"values", "own"} /\ "own" \notin {"values"}
    OBVIOUS
  <2>3. QED
    BY <2>1, <2>2, FS_AddElement
<1>4. asked.ways # {"values", "own"}
  BY <1>3
<1>5. QED
  BY <1>1, <1>2, <1>4

(* BridgeTold: what the bridge at the other end of an open channel was     *)
(* told is what the application last asked for, whenever that was.         *)
THEOREM BridgeIsTold == Spec => []BridgeTold
<1>1. ASSUME IInv
      PROVE  BridgeTold
  <2>1. SUFFICES ASSUME IsOpen(rtc), jvb.state = "started", Cardinality(asked.ways) = 1
                 PROVE  sock[chan[rtc].ref].told \in Wishes
    BY DEF BridgeTold
  <2>2. ctl \in Controller /\ asked \in Request /\ WishInv /\ ToldOK
    BY <1>1 DEF IInv, TypeOK
  <2>3. asked.ways = {"values"} \/ asked.ways = {"own"}
    BY <2>1, <2>2, OneWay
  <2>4. sock[chan[rtc].ref].told = ctl.obj
    BY <2>1, <2>2, <2>3 DEF ToldOK
  <2>5. CASE asked.ways = {"own"}
    BY <2>2, <2>4, <2>5 DEF WishInv, OwnOK, Wishes
  <2>6. CASE asked.ways = {"values"}
    <3> DEFINE wished == [lastN |-> asked.lastN,
                          view |-> IF asked.view.shown = {} THEN NoView ELSE asked.view]
    <3>1. /\ ctl.rvcLastN = asked.lastN /\ ctl.selected = asked.view.shown
          /\ ctl.rvcHeight = asked.view.height /\ ctl.obj = Updated(ctl).obj
          /\ ctl.selected = {} => ctl.obj.view = NoView
      BY <2>1, <2>2, <2>6 DEF WishInv, ValuesOK
    <3>2. asked.view = [shown |-> asked.view.shown, height |-> asked.view.height]
      BY <2>2 DEF Request
    <3>3. ctl.obj.lastN = wished.lastN /\ ctl.obj.view = wished.view
      BY <2>2, <3>1, <3>2, UpToDate
    <3>4. ctl.obj = wished
      BY <2>2, <3>3 DEF Controller, Constraints
    <3>5. QED
      BY <2>4, <2>6, <3>4 DEF Wishes
  <2>7. QED
    BY <2>3, <2>5, <2>6
<1>2. QED
  BY <1>1, Inductive, PTL

=============================================================================
