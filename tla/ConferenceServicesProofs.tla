----------------------- MODULE ConferenceServicesProofs -----------------------
(***************************************************************************)
(* Proofs about ConferenceServices, for any number of recordings, any SIP  *)
(* addresses and persons and any bounds.                                   *)
(*                                                                         *)
(* What the client shows lags behind what the focus and the moderation     *)
(* component have: the difference is in the messages under way.  The       *)
(* invariant therefore speaks of what the client will show once it has     *)
(* received all of them (Foreseen), and says that this is what the focus   *)
(* and the component have now.  Of SIP calls, whose sessions the           *)
(* application makes at any time, it speaks of the last presence instead.  *)
(***************************************************************************)
EXTENDS ConferenceServices, SequenceTheorems, TLAPS

(* The values of the variables, and the messages.                          *)
Rec == {Nothing} \cup [id : Recordings, status : {"pending", "on", "off"}, error : BOOLEAN]
Sip == {Nothing} \cup [id : Address, status : {"pending", "on", "retrying", "off", "failed"},
                       error : BOOLEAN]

RecordingStatus == {Absent, "pending", "on", "off", "unknown"}
CallStatus == {Absent, "fresh", "pending", "on", "retrying", "off", "failed"}
Manager == [sessions : [Recordings -> [status : RecordingStatus, error : BOOLEAN]],
            told : [Recordings -> RecordingStatus]]
Gateway == [sessions : [Address -> [status : CallStatus, error : BOOLEAN]],
            told : [Address -> CallStatus]]
Moderation == [enabled : BOOLEAN, whitelist : SUBSET Person, approved : SUBSET Person,
               kept : SUBSET Person, may : BOOLEAN]
Focus == [rec : Rec, sip : Sip, made : 0..MaxRecordings, unanswered : SUBSET Recordings]
Component == [on : BOOLEAN, list : SUBSET Person]

Request ==
  [kind : {"record", "stop"}]
  \cup [kind : {"call", "hangup"}, id : Address, session : Nat]
  \cup [kind : {"enable"}, on : BOOLEAN] \cup [kind : {"approve", "reject"}, id : Person]

Message ==
  [kind : {"focus"}, rec : Rec, sip : Sip] \cup [kind : {"result", "jibri"}, id : Recordings]
  \cup [kind : {"refused"}, id : {0}] \cup [kind : {"sipError"}, id : Address, session : Nat]
  \cup [kind : {"enabled"}, on : BOOLEAN] \cup [kind : {"approved", "removed"}]
  \cup [kind : {"whitelist"}, list : SUBSET Person, removed : BOOLEAN]

TypeOK ==
  /\ recording \in Manager /\ gateway \in Gateway /\ moderation \in Moderation
  /\ calls \in [Address -> [made : Nat, started : BOOLEAN, astray : BOOLEAN]]
  /\ focus \in Focus /\ component \in Component
  /\ up \in Seq(Request) /\ down \in Seq(Message)
  /\ lost \in SUBSET Recordings
  /\ acts \in Nat /\ others \in Nat /\ restarts \in Nat

(* What the client knows of recordings and moderation, and what a message  *)
(* makes of it.                                                            *)
Known == [recording : Manager, moderation : Moderation]
Now == [recording |-> recording, moderation |-> moderation]

AfterRecording(m, msg) ==
  CASE msg.kind = "focus" -> IF msg.rec = Nothing THEN m ELSE HandleFocusPresence(m, msg.rec)
    [] msg.kind = "result" -> Started(m, msg.id)
    [] msg.kind = "jibri" -> HandleJibriPresence(m, msg.id)
    [] OTHER -> m

AfterModeration(v, msg) ==
  IF msg.kind \in {"whitelist", "enabled", "removed", "approved"} THEN OnMessage(v, msg) ELSE v

After(c, msg) == [recording |-> AfterRecording(c.recording, msg),
                  moderation |-> AfterModeration(c.moderation, msg)]

(* A client that knows c will know z once it has received d.               *)
Foreseen(c, d, z) ==
  \E trace \in [0..Len(d) -> Known] :
    /\ trace[0] = c /\ trace[Len(d)] = z
    /\ \A i \in 1..Len(d) : trace[i] = After(trace[i - 1], d[i])

(* The recordings of m are those of the focus f, but for the lost ones.    *)
RecordingsAgree(m, f, gone) ==
  \A r \in Recordings :
    LET status == m.sessions[r].status IN
    /\ m.told[r] = status
    /\ IF f.rec # Nothing /\ f.rec.id = r
         THEN status = f.rec.status \/ (f.rec.status = "off" /\ status = Absent)
         ELSE status \in {Absent, "off"} \/ r \in gone
    /\ r > f.made => status = Absent
    /\ r \in f.unanswered => status # Absent

(* Recordings are numbered in the order they are made.                     *)
Numbered(f, gone) ==
  /\ f.rec # Nothing => f.rec.id <= f.made
  /\ \A r \in f.unanswered \cup gone : r <= f.made

(* The state v of the moderation is that of the component k.  A list made  *)
(* before the moderation was switched on is kept until there is a new one. *)
ModerationAgrees(v, k) ==
  /\ v.enabled = k.on
  /\ k.on => /\ v.may = (Me \in k.list)
             /\ v.approved \subseteq k.list
             /\ k.list \subseteq v.approved \cup v.kept
             /\ v.whitelist = k.list \/ (k.list = {} /\ v.whitelist = v.kept)

(* Once a client that knows c has received d, it is in step with the focus *)
(* and the component.                                                      *)
Leads(c, d, f, gone, k) ==
  \E z \in Known : /\ Foreseen(c, d, z)
                   /\ RecordingsAgree(z.recording, f, gone)
                   /\ ModerationAgrees(z.moderation, k)

(* A call that was asked for, or is in progress, has its session, and the  *)
(* last presence under way, or the session, tells its state.               *)
Ringing(a) == gateway.sessions[a].status # Absent /\ calls[a].started

Silent(d) == \A i \in DOMAIN d : d[i].kind # "focus"

LastTells(d, sip) ==
  \A i \in DOMAIN d : d[i].kind = "focus" /\ (\A j \in DOMAIN d : j > i => d[j].kind # "focus")
                       => d[i].sip = sip

CallsOK ==
  /\ \A i \in DOMAIN up : up[i].kind = "call" /\ ~calls[up[i].id].astray => Ringing(up[i].id)
  /\ LastTells(down, focus.sip)
  /\ focus.sip.status \in Active /\ ~calls[focus.sip.id].astray =>
       /\ Ringing(focus.sip.id)
       /\ Silent(down) => gateway.sessions[focus.sip.id].status = focus.sip.status

IInv == /\ TypeOK
        /\ Numbered(focus, lost)
        /\ Leads(Now, down, focus, lost, component)
        /\ CallsOK

-------------------------------------------------------------------------------
(* What a message does to the client. *)

LEMMA RequestKinds ==
  ASSUME NEW msg \in Request
  PROVE  /\ msg.kind \in {"record", "stop", "call", "hangup", "enable", "approve", "reject"}
         /\ msg.kind \in {"call", "hangup"} => msg.id \in Address /\ msg.session \in Nat
         /\ msg.kind = "enable" => msg.on \in BOOLEAN
         /\ msg.kind \in {"approve", "reject"} => msg.id \in Person
  BY DEF Request

LEMMA MessageKinds ==
  ASSUME NEW msg \in Message
  PROVE  /\ msg.kind \in {"focus", "result", "jibri", "refused", "sipError", "enabled", "approved",
                          "removed", "whitelist"}
         /\ msg.kind = "focus" => msg.rec \in Rec /\ msg.sip \in Sip
         /\ msg.kind \in {"result", "jibri"} => msg.id \in Recordings
         /\ msg.kind = "sipError" => msg.id \in Address /\ msg.session \in Nat
         /\ msg.kind = "enabled" => msg.on \in BOOLEAN
         /\ msg.kind = "whitelist" => msg.list \subseteq Person /\ msg.removed \in BOOLEAN
  BY DEF Message

(* An update of a recording by the focus's presence.                       *)
LEMMA HandlesPresence ==
  ASSUME NEW m \in Manager, NEW u \in Rec \ {Nothing}
  PROVE  LET n == HandleFocusPresence(m, u) IN
         /\ n \in Manager
         /\ \A r \in Recordings \ {u.id} : n.sessions[r] = m.sessions[r] /\ n.told[r] = m.told[r]
         /\ m.told[u.id] = m.sessions[u.id].status => n.told[u.id] = n.sessions[u.id].status
         /\ \/ n.sessions[u.id].status = u.status
            \/ u.status = "off" /\ m.sessions[u.id].status = Absent /\ n = m
<1>1. /\ u.id \in Recordings /\ u.status \in RecordingStatus \ {Absent} /\ u.error \in BOOLEAN
  BY DEF Rec, RecordingStatus, Absent
<1>2. m.sessions[u.id].error \in BOOLEAN /\ m.sessions[u.id].status \in RecordingStatus
  BY <1>1 DEF Manager
<1> DEFINE s == [status |-> u.status, error |-> u.error \/ m.sessions[u.id].error]
           n == Updated(m, u.id, s)
<1>3. s \in [status : RecordingStatus, error : BOOLEAN]
  BY <1>1, <1>2
<1>4. s.status = u.status
  OBVIOUS
<1> HIDE DEF s
<1>5. /\ n \in Manager /\ n.sessions[u.id] = s /\ n.told[u.id] = s.status
      /\ \A r \in Recordings \ {u.id} : n.sessions[r] = m.sessions[r] /\ n.told[r] = m.told[r]
  BY <1>1, <1>3 DEF Updated, Manager
<1> HIDE DEF n
<1>6. HandleFocusPresence(m, u) =
        IF (m.sessions[u.id].status = Absent /\ u.status = "off") \/ Duplicate(m, u) THEN m ELSE n
  BY DEF HandleFocusPresence, Has, n, s
<1>7. Duplicate(m, u) => m.sessions[u.id].status = u.status
  BY DEF Duplicate
<1>8. QED
  BY <1>4, <1>5, <1>6, <1>7

(* The answer to a request to record, and a Jibri's presence.              *)
LEMMA HandlesStarted ==
  ASSUME NEW m \in Manager, NEW id \in Recordings
  PROVE  LET n == Started(m, id) IN
         /\ n \in Manager
         /\ m.sessions[id].status # Absent => n = m
         /\ m.sessions[id].status = Absent => n.sessions[id].status = "pending" /\ n.told[id] = "pending"
         /\ \A r \in Recordings \ {id} : n.sessions[r] = m.sessions[r] /\ n.told[r] = m.told[r]
  BY DEF Started, Has, Updated, Manager, RecordingStatus

LEMMA HandlesJibri ==
  ASSUME NEW m \in Manager, NEW id \in Recordings
  PROVE  LET n == HandleJibriPresence(m, id) IN
         /\ n \in Manager
         /\ m.sessions[id].status # Absent /\ m.told[id] = m.sessions[id].status =>
              n.sessions = m.sessions /\ n.told = m.told
<1>1. HandleJibriPresence(m, id) \in Manager
  BY DEF Manager, HandleJibriPresence, Has, Updated, RecordingStatus
<1>2. ASSUME m.sessions[id].status # Absent, m.told[id] = m.sessions[id].status
      PROVE  HandleJibriPresence(m, id).sessions = m.sessions /\ HandleJibriPresence(m, id).told = m.told
  BY <1>2 DEF Manager, HandleJibriPresence, Has, Updated
<1>3. QED
  BY <1>1, <1>2

LEMMA HandlesModeration ==
  ASSUME NEW v \in Moderation, NEW msg \in Message
  PROVE  AfterModeration(v, msg) \in Moderation
<1>1. CASE msg.kind = "whitelist"
  BY <1>1, MessageKinds DEF AfterModeration, OnMessage, Whitelist, Moderation
<1>2. CASE msg.kind = "enabled"
  BY <1>2, MessageKinds DEF AfterModeration, OnMessage, Switched, Moderation
<1>3. CASE msg.kind \in {"removed", "approved"}
  BY <1>3 DEF AfterModeration, OnMessage, Moderation
<1>4. QED
  BY <1>1, <1>2, <1>3 DEF AfterModeration

LEMMA AfterType ==
  ASSUME NEW c \in Known, NEW msg \in Message
  PROVE  After(c, msg) \in Known
<1>1. c.recording \in Manager /\ c.moderation \in Moderation
  BY DEF Known
<1>2. AfterRecording(c.recording, msg) \in Manager
  BY <1>1, MessageKinds, HandlesPresence, HandlesStarted, HandlesJibri DEF AfterRecording
<1>3. AfterModeration(c.moderation, msg) \in Moderation
  BY <1>1, HandlesModeration
<1>4. QED
  BY <1>2, <1>3 DEF After, Known

-------------------------------------------------------------------------------
(* Messages that are sent, and received. *)

LEMMA NothingForeseen ==
  ASSUME NEW c \in Known, NEW z, Foreseen(c, <<>>, z)
  PROVE  z = c
  BY DEF Foreseen

LEMMA ForeseenNow ==
  ASSUME NEW c \in Known
  PROVE  Foreseen(c, <<>>, c)
<1> DEFINE trace == [i \in 0..0 |-> c]
<1>1. trace \in [0..0 -> Known] /\ trace[0] = c
  OBVIOUS
<1> HIDE DEF trace
<1>2. Len(<<>>) = 0 /\ 1..0 = {}
  OBVIOUS
<1>3. QED
  BY <1>1, <1>2 DEF Foreseen

LEMMA ForeseenAppend ==
  ASSUME NEW c \in Known, NEW z \in Known, NEW d \in Seq(Message), NEW msg \in Message,
         Foreseen(c, d, z)
  PROVE  Foreseen(c, Append(d, msg), After(z, msg))
<1>1. PICK trace \in [0..Len(d) -> Known] :
         /\ trace[0] = c /\ trace[Len(d)] = z
         /\ \A i \in 1..Len(d) : trace[i] = After(trace[i - 1], d[i])
  BY DEF Foreseen
<1> DEFINE n == Len(d)
           w == After(z, msg)
           e == Append(d, msg)
           longer == [i \in 0..n + 1 |-> IF i = n + 1 THEN w ELSE trace[i]]
<1>2. n \in Nat /\ w \in Known
  BY AfterType
<1>3. /\ Len(e) = n + 1 /\ e[n + 1] = msg
      /\ \A i \in 1..n : e[i] = d[i]
  BY <1>2
<1> HIDE DEF w
<1>4. longer \in [0..n + 1 -> Known] /\ longer[n + 1] = w /\ \A i \in 0..n : longer[i] = trace[i]
  BY <1>1, <1>2
<1>5. w = After(z, msg)
  BY DEF w
<1> HIDE DEF longer, e, n
<1>6. longer[0] = c
  BY <1>1, <1>2, <1>4 DEF n
<1>7. ASSUME NEW i \in 1..n + 1
      PROVE  longer[i] = After(longer[i - 1], e[i])
  <2>1. CASE i = n + 1
    <3>1. longer[i - 1] = z
      BY <1>1, <1>2, <1>4, <2>1 DEF n
    <3>2. QED
      BY <1>3, <1>4, <1>5, <2>1, <3>1
  <2>2. CASE i \in 1..n
    <3>1. i - 1 \in 0..n /\ i \in 0..n
      BY <1>2, <2>2
    <3>2. longer[i] = trace[i] /\ longer[i - 1] = trace[i - 1] /\ e[i] = d[i]
      BY <1>3, <1>4, <2>2, <3>1
    <3>3. trace[i] = After(trace[i - 1], d[i])
      BY <1>1, <2>2 DEF n
    <3>4. QED
      BY <3>2, <3>3
  <2>3. QED
    BY <1>2, <2>1, <2>2
<1>8. Foreseen(c, e, w)
  BY <1>3, <1>4, <1>6, <1>7 DEF Foreseen
<1>9. QED
  BY <1>8 DEF e, w

LEMMA ForeseenTail ==
  ASSUME NEW c \in Known, NEW z \in Known, NEW d \in Seq(Message), d # <<>>,
         Foreseen(c, d, z)
  PROVE  Foreseen(After(c, Head(d)), Tail(d), z)
<1>1. PICK trace \in [0..Len(d) -> Known] :
         /\ trace[0] = c /\ trace[Len(d)] = z
         /\ \A i \in 1..Len(d) : trace[i] = After(trace[i - 1], d[i])
  BY DEF Foreseen
<1> DEFINE n == Len(d)
           e == Tail(d)
           shorter == [i \in 0..n - 1 |-> trace[i + 1]]
<1>2. n \in Nat \ {0} /\ Head(d) = d[1]
  OBVIOUS
<1>3. Len(e) = n - 1 /\ \A i \in 1..n - 1 : e[i] = d[i + 1]
  BY <1>2
<1>4. \A i \in 0..n - 1 : i + 1 \in 0..n
  BY <1>2
<1>5. shorter \in [0..n - 1 -> Known] /\ \A i \in 0..n - 1 : shorter[i] = trace[i + 1]
  BY <1>1, <1>4
<1> HIDE DEF shorter, e, n
<1>6. shorter[0] = After(c, Head(d)) /\ shorter[n - 1] = z
  BY <1>1, <1>2, <1>5 DEF n
<1>7. ASSUME NEW i \in 1..n - 1
      PROVE  shorter[i] = After(shorter[i - 1], e[i])
  <2>1. i \in 0..n - 1 /\ i - 1 \in 0..n - 1 /\ i + 1 \in 1..n /\ (i - 1) + 1 = i /\ (i + 1) - 1 = i
    BY <1>2
  <2>2. trace[i + 1] = After(trace[i], d[i + 1])
    BY <1>1, <2>1 DEF n
  <2>3. QED
    BY <1>3, <1>5, <2>1, <2>2
<1>8. QED
  BY <1>3, <1>5, <1>6, <1>7 DEF Foreseen, e

LEMMA PresenceAppended ==
  ASSUME NEW d \in Seq(Message), NEW msg \in Message, msg.kind = "focus"
  PROVE  LastTells(Append(d, msg), msg.sip) /\ ~Silent(Append(d, msg))
<1> DEFINE n == Len(d)
           e == Append(d, msg)
<1>1. n \in Nat /\ DOMAIN e = 1..n + 1 /\ e[n + 1] = msg
  OBVIOUS
<1> HIDE DEF n, e
<1>2. ASSUME NEW i \in DOMAIN e, i # n + 1
      PROVE  n + 1 \in DOMAIN e /\ n + 1 > i
  BY <1>1, <1>2
<1>3. LastTells(e, msg.sip)
  BY <1>1, <1>2 DEF LastTells
<1>4. ~Silent(e)
  BY <1>1 DEF Silent
<1>5. QED
  BY <1>3, <1>4 DEF e

LEMMA OtherAppended ==
  ASSUME NEW d \in Seq(Message), NEW msg \in Message, msg.kind # "focus", NEW sip,
         LastTells(d, sip)
  PROVE  LastTells(Append(d, msg), sip) /\ (Silent(Append(d, msg)) => Silent(d))
<1> DEFINE n == Len(d)
           e == Append(d, msg)
<1>1. /\ n \in Nat /\ DOMAIN e = 1..n + 1 /\ e[n + 1] = msg /\ DOMAIN d = 1..n
      /\ \A i \in 1..n : e[i] = d[i]
  OBVIOUS
<1> HIDE DEF n, e
<1>2. \A i \in DOMAIN e : i = n + 1 \/ (i \in DOMAIN d /\ e[i] = d[i])
  BY <1>1
<1>3. \A i \in DOMAIN d : i \in DOMAIN e /\ e[i] = d[i]
  BY <1>1
<1>4. LastTells(e, sip)
  BY <1>1, <1>2, <1>3 DEF LastTells
<1>5. Silent(e) => Silent(d)
  BY <1>3 DEF Silent
<1>6. QED
  BY <1>4, <1>5 DEF e

LEMMA HeadReceived ==
  ASSUME NEW d \in Seq(Message), d # <<>>, NEW sip, LastTells(d, sip)
  PROVE  /\ LastTells(Tail(d), sip)
         /\ Silent(Tail(d)) => Silent(d) \/ (Head(d).kind = "focus" /\ Head(d).sip = sip)
<1> DEFINE n == Len(d)
           e == Tail(d)
<1>1. /\ n \in Nat \ {0} /\ DOMAIN d = 1..n /\ Head(d) = d[1] /\ DOMAIN e = 1..n - 1
      /\ \A i \in 1..n - 1 : e[i] = d[i + 1]
  OBVIOUS
<1> HIDE DEF n, e
<1>2. \A i \in DOMAIN e : i + 1 \in DOMAIN d /\ e[i] = d[i + 1]
  BY <1>1
<1>3. \A i \in DOMAIN d : i = 1 \/ (i - 1 \in DOMAIN e /\ e[i - 1] = d[i])
  BY <1>1
<1>4. LastTells(e, sip)
  <2>1. ASSUME NEW i \in DOMAIN e, e[i].kind = "focus", \A j \in DOMAIN e : j > i => e[j].kind # "focus"
        PROVE  e[i].sip = sip
    <3>1. i + 1 \in DOMAIN d /\ d[i + 1] = e[i]
      BY <1>2
    <3>2. ASSUME NEW j \in DOMAIN d, j > i + 1
          PROVE  d[j].kind # "focus"
      <4>1. j # 1 /\ j - 1 > i
        BY <1>1, <3>2
      <4>2. QED
        BY <1>3, <2>1, <4>1
    <3>3. QED
      BY <2>1, <3>1, <3>2 DEF LastTells
  <2>2. QED
    BY <2>1 DEF LastTells
<1>5. ASSUME Silent(e), ~Silent(d)
      PROVE  Head(d).kind = "focus" /\ Head(d).sip = sip
  <2>1. PICK i \in DOMAIN d : d[i].kind = "focus"
    BY <1>5 DEF Silent
  <2>2. i = 1
    BY <1>3, <1>5, <2>1 DEF Silent
  <2>3. \A j \in DOMAIN d : j > 1 => d[j].kind # "focus"
    BY <1>3, <1>5 DEF Silent
  <2>4. QED
    BY <1>1, <2>1, <2>2, <2>3 DEF LastTells
<1>6. QED
  BY <1>4, <1>5 DEF e

-------------------------------------------------------------------------------
(* What the focus and the component publish keeps the client in step. *)

LEMMA RecTypes ==
  ASSUME NEW f \in Focus
  PROVE  /\ f.rec # Nothing => f.rec.id \in Recordings /\ f.rec.status \in {"pending", "on", "off"}
         /\ f.rec.status \in Active => f.rec # Nothing
         /\ f.sip.status \in Active => f.sip # Nothing /\ f.sip.id \in Address
         /\ f.sip # Nothing => f.sip.id \in Address
                              /\ f.sip.status \in {"pending", "on", "retrying", "off", "failed"}
         /\ f.made \in Nat /\ f.unanswered \subseteq Recordings
         /\ f.rec \in Rec /\ f.sip \in Sip
  BY ServiceBoundsAssumption DEF Focus, Rec, Sip, Nothing, Active

LEMMA PresenceMessage ==
  ASSUME NEW f \in Focus
  PROVE  /\ Presence(f) \in Message /\ Presence(f).kind = "focus"
         /\ Presence(f).rec = f.rec /\ Presence(f).sip = f.sip
         /\ \A c \in Known : After(c, Presence(f)) =
              [recording |-> IF f.rec = Nothing THEN c.recording
                             ELSE HandleFocusPresence(c.recording, f.rec),
               moderation |-> c.moderation]
<1>1. /\ Presence(f) \in Message /\ Presence(f).kind = "focus"
      /\ Presence(f).rec = f.rec /\ Presence(f).sip = f.sip
  BY RecTypes DEF Presence, Message
<1>2. QED
  BY <1>1 DEF After, AfterRecording, AfterModeration

(* The recording is another one, or has another status, or neither.        *)
LEMMA SameRecording ==
  ASSUME NEW m \in Manager, NEW f \in Focus, NEW g \in Focus, NEW gone,
         RecordingsAgree(m, f, gone), Numbered(f, gone),
         f.rec # Nothing, g.rec # Nothing, g.rec.id = f.rec.id,
         g.made = f.made, g.unanswered = f.unanswered
  PROVE  RecordingsAgree(HandleFocusPresence(m, g.rec), g, gone)
<1> DEFINE n == HandleFocusPresence(m, g.rec)
<1>1. g.rec \in Rec \ {Nothing} /\ g.rec.id \in Recordings
  BY RecTypes
<1>2. /\ \A r \in Recordings \ {g.rec.id} : n.sessions[r] = m.sessions[r] /\ n.told[r] = m.told[r]
      /\ m.told[g.rec.id] = m.sessions[g.rec.id].status => n.told[g.rec.id] = n.sessions[g.rec.id].status
      /\ \/ n.sessions[g.rec.id].status = g.rec.status
         \/ g.rec.status = "off" /\ m.sessions[g.rec.id].status = Absent /\ n = m
  BY <1>1, HandlesPresence
<1>3. g.rec.status # Absent
  BY RecTypes DEF Absent
<1>4. g.rec.id <= f.made /\ g.rec.id \in Nat /\ f.made \in Nat /\ f.unanswered \subseteq Recordings
  BY <1>1, RecTypes DEF Numbered, Recordings
<1> HIDE DEF n
<1>5. ASSUME NEW r \in Recordings \ {g.rec.id}
      PROVE  /\ n.told[r] = n.sessions[r].status
             /\ n.sessions[r].status \in {Absent, "off"} \/ r \in gone
             /\ r > g.made => n.sessions[r].status = Absent
             /\ r \in g.unanswered => n.sessions[r].status # Absent
  BY <1>2, <1>5 DEF RecordingsAgree
<1>6. /\ n.told[g.rec.id] = n.sessions[g.rec.id].status
      /\ \/ n.sessions[g.rec.id].status = g.rec.status
         \/ g.rec.status = "off" /\ n.sessions[g.rec.id].status = Absent
      /\ g.rec.id \in g.unanswered => n.sessions[g.rec.id].status # Absent
  BY <1>1, <1>2, <1>3 DEF RecordingsAgree
<1>7. ~(g.rec.id > g.made)
  BY <1>4
<1>8. QED
  BY <1>5, <1>6, <1>7 DEF RecordingsAgree, n

LEMMA NewRecordingAgrees ==
  ASSUME NEW m \in Manager, NEW f \in Focus, NEW g \in Focus, NEW gone,
         RecordingsAgree(m, f, gone), Numbered(f, gone), f.rec.status \notin Active,
         g.rec # Nothing, g.made = f.made + 1, g.rec.id = g.made, g.rec.status = "pending",
         g.unanswered \subseteq f.unanswered \cup {g.made}
  PROVE  /\ RecordingsAgree(HandleFocusPresence(m, g.rec), g, gone)
         /\ RecordingsAgree(HandleFocusPresence(Started(m, g.made), g.rec), g, gone)
<1>1. /\ g.rec \in Rec \ {Nothing} /\ g.made \in Recordings /\ f.made \in Nat /\ g.made > f.made
      /\ g.rec.id = g.made /\ g.rec.status = "pending"
  BY RecTypes
<1>2. \A r \in Recordings : m.told[r] = m.sessions[r].status
  BY DEF RecordingsAgree
<1>3. /\ Started(m, g.made) \in Manager
      /\ \A r \in Recordings \ {g.made} : /\ Started(m, g.made).sessions[r] = m.sessions[r]
                                         /\ Started(m, g.made).told[r] = m.told[r]
      /\ Started(m, g.made).told[g.made] = Started(m, g.made).sessions[g.made].status
  BY <1>1, <1>2, HandlesStarted
<1>4. ASSUME NEW l \in Manager,
             \A r \in Recordings \ {g.made} : l.sessions[r] = m.sessions[r] /\ l.told[r] = m.told[r],
             l.told[g.made] = l.sessions[g.made].status
      PROVE  RecordingsAgree(HandleFocusPresence(l, g.rec), g, gone)
  <2> DEFINE n == HandleFocusPresence(l, g.rec)
  <2>1. /\ \A r \in Recordings \ {g.rec.id} : n.sessions[r] = l.sessions[r] /\ n.told[r] = l.told[r]
        /\ l.told[g.rec.id] = l.sessions[g.rec.id].status => n.told[g.rec.id] = n.sessions[g.rec.id].status
        /\ n.sessions[g.rec.id].status = g.rec.status \/ g.rec.status = "off"
    BY <1>1, HandlesPresence
  <2>2. /\ \A r \in Recordings \ {g.made} : n.sessions[r] = m.sessions[r] /\ n.told[r] = m.told[r]
        /\ n.told[g.made] = n.sessions[g.made].status
        /\ n.sessions[g.made].status = "pending"
    BY <1>1, <1>4, <2>1
  <2> HIDE DEF n
  <2>3. ASSUME NEW r \in Recordings \ {g.made}
        PROVE  /\ n.told[r] = n.sessions[r].status
               /\ n.sessions[r].status \in {Absent, "off"} \/ r \in gone
               /\ r > g.made => n.sessions[r].status = Absent
               /\ r \in g.unanswered => n.sessions[r].status # Absent
    <3>1. f.rec # Nothing /\ f.rec.id = r => m.sessions[r].status \in {Absent, "off"}
      BY <2>3, RecTypes DEF RecordingsAgree, Active
    <3>2. m.sessions[r].status \in {Absent, "off"} \/ r \in gone
      BY <2>3, <3>1 DEF RecordingsAgree
    <3>3. r > g.made => r > f.made
      BY <1>1, <2>3 DEF Recordings
    <3>4. QED
      BY <1>2, <2>2, <2>3, <3>2, <3>3 DEF RecordingsAgree
  <2>4. "pending" # Absent /\ ~(g.made > g.made)
    BY <1>1 DEF Absent, Recordings
  <2>5. RecordingsAgree(n, g, gone)
    BY <2>2, <2>3, <2>4 DEF RecordingsAgree
  <2>6. QED
    BY <2>5 DEF n
<1>5. RecordingsAgree(HandleFocusPresence(m, g.rec), g, gone)
  BY <1>1, <1>2, <1>4
<1> DEFINE l == Started(m, g.made)
<1>6. /\ l \in Manager /\ l.told[g.made] = l.sessions[g.made].status
      /\ \A r \in Recordings \ {g.made} : l.sessions[r] = m.sessions[r] /\ l.told[r] = m.told[r]
  BY <1>3
<1> HIDE DEF l
<1>7. RecordingsAgree(HandleFocusPresence(l, g.rec), g, gone)
  BY <1>4, <1>6
<1>8. QED
  BY <1>5, <1>7 DEF l

LEMMA RestartAgrees ==
  ASSUME NEW m \in Manager, NEW f \in Focus, NEW g \in Focus, NEW gone, NEW more,
         RecordingsAgree(m, f, gone), g.rec = Nothing, g.made = f.made, g.unanswered = {},
         gone \subseteq more, f.rec # Nothing => f.rec.id \in more
  PROVE  RecordingsAgree(m, g, more)
  BY DEF RecordingsAgree

(* A late answer, or a Jibri's presence, changes nothing: the focus's      *)
(* presence came first.                                                    *)
LEMMA LateAnswer ==
  ASSUME NEW m \in Manager, NEW f \in Focus, NEW g, NEW gone, RecordingsAgree(m, f, gone),
         NEW r \in f.unanswered, g.rec = f.rec, g.made = f.made, g.unanswered \subseteq f.unanswered
  PROVE  RecordingsAgree(Started(m, r), g, gone)
<1>1. Started(m, r) = m
  BY RecTypes, HandlesStarted DEF RecordingsAgree
<1>2. QED
  BY <1>1 DEF RecordingsAgree

LEMMA JibriAnswer ==
  ASSUME NEW m \in Manager, NEW f \in Focus, NEW gone, RecordingsAgree(m, f, gone),
         f.rec.status = "on"
  PROVE  RecordingsAgree(HandleJibriPresence(m, f.rec.id), f, gone)
<1>1. f.rec # Nothing /\ f.rec.id \in Recordings
  BY RecTypes DEF Active
<1>2. m.sessions[f.rec.id].status = "on" /\ m.told[f.rec.id] = m.sessions[f.rec.id].status
  BY <1>1 DEF RecordingsAgree
<1> DEFINE n == HandleJibriPresence(m, f.rec.id)
<1>3. n.sessions = m.sessions /\ n.told = m.told
  BY <1>1, <1>2, HandlesJibri DEF Absent
<1> HIDE DEF n
<1>4. RecordingsAgree(n, f, gone)
  BY <1>3 DEF RecordingsAgree
<1>5. QED
  BY <1>4 DEF n

(* Moderation: switched, somebody approved, somebody rejected.             *)
LEMMA SwitchAgrees ==
  ASSUME NEW v \in Moderation, NEW k \in Component, ModerationAgrees(v, k),
         NEW on \in BOOLEAN, k.on # on, NEW j \in Component, j.on = on, j.list = {}
  PROVE  ModerationAgrees(Switched(v, on), j)
<1> DEFINE w == Switched(v, on)
<1>1. k.on \in BOOLEAN /\ v.enabled = k.on
  BY DEF Component, ModerationAgrees
<1>2. w = [v EXCEPT !.enabled = on, !.approved = {}, !.kept = v.whitelist, !.may = FALSE]
  BY <1>1 DEF Switched
<1>3. w.enabled = on /\ w.approved = {} /\ w.kept = w.whitelist /\ w.may = FALSE
  BY <1>2 DEF Moderation
<1> HIDE DEF w
<1>4. (Me \in j.list) = FALSE
  OBVIOUS
<1>5. w.may = (Me \in j.list)
  BY <1>3, <1>4
<1>6. ModerationAgrees(w, j)
  BY <1>3, <1>5 DEF ModerationAgrees
<1>7. QED
  BY <1>6 DEF w

LEMMA ApproveAgrees ==
  ASSUME NEW v \in Moderation, NEW k \in Component, ModerationAgrees(v, k), k.on,
         NEW p \in Person, NEW list, list = k.list \cup {p},
         NEW u \in Moderation, u = [v EXCEPT !.may = IF p = Me THEN TRUE ELSE @],
         NEW j \in Component, j.on = k.on, j.list = list
  PROVE  ModerationAgrees(Whitelist(u, list, FALSE), j)
<1> DEFINE w == Whitelist(u, list, FALSE)
<1>1. /\ w.enabled = v.enabled /\ w.whitelist = list /\ w.kept = v.kept
      /\ w.approved = v.approved \cup (list \ v.whitelist)
      /\ w.may = IF p = Me THEN TRUE ELSE v.may
  BY DEF Whitelist, Moderation
<1> HIDE DEF w
<1>2. w.may = (Me \in list)
  <2>1. v.may \in BOOLEAN /\ v.may = (Me \in k.list)
    BY DEF ModerationAgrees, Moderation
  <2>2. CASE p = Me
    <3>1. (Me \in list) = TRUE
      BY <2>2
    <3>2. QED
      BY <1>1, <2>2, <3>1
  <2>3. CASE p # Me
    <3>1. (Me \in list) = (Me \in k.list)
      BY <2>3
    <3>2. w.may = v.may
      BY <1>1, <2>3
    <3>3. QED
      BY <2>1, <3>1, <3>2
  <2>4. QED
    BY <2>2, <2>3
<1>3. w.enabled = k.on
  BY <1>1 DEF ModerationAgrees
<1>4. w.approved \subseteq list /\ list \subseteq w.approved \cup w.kept
  BY <1>1 DEF ModerationAgrees
<1>5. ModerationAgrees(w, j)
  BY <1>1, <1>2, <1>3, <1>4 DEF ModerationAgrees
<1>6. QED
  BY <1>5 DEF w

LEMMA RejectAgrees ==
  ASSUME NEW v \in Moderation, NEW k \in Component, ModerationAgrees(v, k), k.on,
         NEW p \in Person, NEW list, list = k.list \ {p},
         NEW u \in Moderation, u = [v EXCEPT !.may = IF p = Me THEN FALSE ELSE @],
         NEW j \in Component, j.on = k.on, j.list = list
  PROVE  ModerationAgrees(Whitelist(u, list, TRUE), j)
<1> DEFINE w == Whitelist(u, list, TRUE)
<1>1. /\ w.enabled = v.enabled /\ w.whitelist = list /\ w.kept = v.kept
      /\ w.approved = v.approved \ (v.whitelist \ list)
      /\ w.may = IF p = Me THEN FALSE ELSE v.may
  BY DEF Whitelist, Moderation
<1> HIDE DEF w
<1>2. w.may = (Me \in list)
  <2>1. v.may \in BOOLEAN /\ v.may = (Me \in k.list)
    BY DEF ModerationAgrees, Moderation
  <2>2. CASE p = Me
    <3>1. (Me \in list) = FALSE
      BY <2>2
    <3>2. QED
      BY <1>1, <2>2, <3>1
  <2>3. CASE p # Me
    <3>1. (Me \in list) = (Me \in k.list)
      BY <2>3
    <3>2. w.may = v.may
      BY <1>1, <2>3
    <3>3. QED
      BY <2>1, <3>1, <3>2
  <2>4. QED
    BY <2>2, <2>3
<1>3. w.enabled = k.on
  BY <1>1 DEF ModerationAgrees
<1>4. w.approved \subseteq list /\ list \subseteq w.approved \cup w.kept
  BY <1>1 DEF ModerationAgrees
<1>5. ModerationAgrees(w, j)
  BY <1>1, <1>2, <1>3, <1>4 DEF ModerationAgrees
<1>6. QED
  BY <1>5 DEF w

-------------------------------------------------------------------------------
(* The steps that leave the client alone. *)

LEMMA NowKnown ==
  ASSUME TypeOK
  PROVE  Now \in Known /\ Now.recording = recording /\ Now.moderation = moderation
  BY DEF TypeOK, Now, Known

LEMMA LeadsOn ==
  ASSUME NEW c \in Known, NEW d \in Seq(Message), NEW z \in Known, Foreseen(c, d, z),
         NEW msg \in Message, NEW f, NEW gone, NEW k,
         RecordingsAgree(AfterRecording(z.recording, msg), f, gone),
         ModerationAgrees(AfterModeration(z.moderation, msg), k)
  PROVE  Leads(c, Append(d, msg), f, gone, k)
<1> DEFINE y == After(z, msg)
<1>1. y \in Known /\ Foreseen(c, Append(d, msg), y)
  BY AfterType, ForeseenAppend
<1>2. y.recording = AfterRecording(z.recording, msg) /\ y.moderation = AfterModeration(z.moderation, msg)
  BY DEF After
<1> HIDE DEF y
<1>3. QED
  BY <1>1, <1>2 DEF Leads

(* Requests are served in their order.                                     *)
Served == up' = up \/ (up # <<>> /\ up' = Tail(up))

LEMMA ServedRequests ==
  ASSUME TypeOK, Served
  PROVE  up' \in Seq(Request) /\ \A i \in DOMAIN up' : \E j \in DOMAIN up : up'[i] = up[j]
<1>1. up \in Seq(Request)
  BY DEF TypeOK
<1>2. CASE up' = up
  BY <1>1, <1>2
<1>3. CASE up # <<>> /\ up' = Tail(up)
  <2> DEFINE n == Len(up)
  <2>1. /\ n \in Nat \ {0} /\ DOMAIN up = 1..n /\ up' \in Seq(Request) /\ DOMAIN up' = 1..n - 1
        /\ \A i \in 1..n - 1 : up'[i] = up[i + 1]
    BY <1>1, <1>3
  <2> HIDE DEF n
  <2>2. \A i \in DOMAIN up' : i + 1 \in DOMAIN up /\ up'[i] = up[i + 1]
    BY <2>1
  <2>3. QED
    BY <2>1, <2>2
<1>4. QED
  BY <1>2, <1>3 DEF Served

LEMMA CallsKept ==
  ASSUME IInv, UNCHANGED client, Served, LastTells(down', focus'.sip),
         focus'.sip.status \in Active /\ ~calls[focus'.sip.id].astray =>
           /\ Ringing(focus'.sip.id)
           /\ Silent(down') => gateway.sessions[focus'.sip.id].status = focus'.sip.status
  PROVE  CallsOK'
<1>1. calls' = calls /\ gateway' = gateway
  BY DEF client
<1>2. \A i \in DOMAIN up' : up'[i].kind = "call" /\ ~calls[up'[i].id].astray => Ringing(up'[i].id)
  BY ServedRequests DEF IInv, CallsOK
<1>3. QED
  BY <1>1, <1>2 DEF CallsOK, Ringing

(* The focus publishes what it runs, after other messages or none.         *)
LEMMA Published ==
  ASSUME IInv, UNCHANGED <<client, component>>, Served,
         acts' \in Nat, others' \in Nat, restarts' \in Nat,
         lost' \in SUBSET Recordings,
         NEW g \in Focus, focus' = g, Numbered(g, lost'),
         NEW d \in Seq(Message), down' = Append(d, Presence(g)),
         NEW y \in Known, Foreseen(Now, d, y), ModerationAgrees(y.moderation, component),
         RecordingsAgree(IF g.rec = Nothing THEN y.recording
                         ELSE HandleFocusPresence(y.recording, g.rec), g, lost'),
         g.sip.status \in Active /\ ~calls[g.sip.id].astray => Ringing(g.sip.id)
  PROVE  IInv'
<1>1. TypeOK /\ Now \in Known
  BY NowKnown DEF IInv
<1> DEFINE msg == Presence(g)
<1>2. /\ msg \in Message /\ msg.kind = "focus" /\ msg.rec = g.rec /\ msg.sip = g.sip
  BY PresenceMessage
<1> HIDE DEF msg
<1>3. down' = Append(d, msg)
  BY DEF msg
<1>4. down' \in Seq(Message)
  BY <1>2, <1>3
<1>5. TypeOK'
  BY <1>1, <1>4, ServedRequests DEF TypeOK, client
<1>6. /\ AfterRecording(y.recording, msg) = IF g.rec = Nothing THEN y.recording
                                            ELSE HandleFocusPresence(y.recording, g.rec)
      /\ AfterModeration(y.moderation, msg) = y.moderation
  BY <1>2 DEF AfterRecording, AfterModeration
<1>7. Leads(Now, down', focus', lost', component')
  BY <1>1, <1>2, <1>3, <1>6, LeadsOn
<1>8. Now' = Now
  BY DEF Now, client
<1>9. Leads(Now, down, focus, lost, component)'
  BY <1>7, <1>8
<1>10. LastTells(down', focus'.sip) /\ ~Silent(down')
  BY <1>2, <1>3, PresenceAppended
<1>11. CallsOK'
  BY <1>10, CallsKept
<1>12. QED
  BY <1>5, <1>9, <1>11 DEF IInv

(* Any other messages to the client.                                       *)
LEMMA Told ==
  ASSUME IInv, UNCHANGED <<client, lost>>, Served,
         acts' \in Nat, others' \in Nat, restarts' \in Nat,
         NEW f \in Focus, focus' = f, NEW k \in Component, component' = k,
         f.sip = focus.sip, Numbered(f, lost),
         NEW d \in Seq(Message), down' = d, LastTells(d, focus.sip), Silent(d) => Silent(down),
         Leads(Now, d, f, lost, k)
  PROVE  IInv'
<1>1. TypeOK'
  BY ServedRequests DEF TypeOK, client, IInv
<1>2. Now' = Now
  BY DEF Now, client
<1>3. Leads(Now, down, focus, lost, component)'
  BY <1>2
<1>4. CallsOK'
  BY CallsKept DEF IInv, CallsOK
<1>5. QED
  BY <1>1, <1>3, <1>4 DEF IInv

(* One message that changes nothing the client would know.                 *)
LEMMA ToldOne ==
  ASSUME IInv, UNCHANGED <<client, lost, component>>, Served,
         acts' \in Nat, others' \in Nat, restarts' \in Nat,
         NEW f \in Focus, focus' = f, f.sip = focus.sip, Numbered(f, lost),
         NEW msg \in Message, down' = Append(down, msg), msg.kind # "focus",
         \A m \in Manager : RecordingsAgree(m, focus, lost) =>
                              RecordingsAgree(AfterRecording(m, msg), f, lost),
         \A v \in Moderation : AfterModeration(v, msg) = v
  PROVE  IInv'
<1>1. /\ TypeOK /\ Now \in Known /\ down \in Seq(Message) /\ component \in Component
      /\ LastTells(down, focus.sip)
  BY NowKnown DEF IInv, TypeOK, CallsOK
<1>2. PICK z \in Known : /\ Foreseen(Now, down, z) /\ RecordingsAgree(z.recording, focus, lost)
                         /\ ModerationAgrees(z.moderation, component)
  BY DEF IInv, Leads
<1>3. z.recording \in Manager /\ z.moderation \in Moderation
  BY DEF Known
<1> DEFINE d == Append(down, msg)
<1>4. Leads(Now, d, f, lost, component)
  BY <1>1, <1>2, <1>3, LeadsOn
<1>5. d \in Seq(Message) /\ LastTells(d, focus.sip) /\ (Silent(d) => Silent(down))
  BY <1>1, OtherAppended
<1> HIDE DEF d
<1>6. down' = d
  BY DEF d
<1>7. component' = component
  OBVIOUS
<1>8. QED
  BY <1>1, <1>4, <1>5, <1>6, <1>7, Told

(* Nothing is sent.                                                        *)
LEMMA ToldNothing ==
  ASSUME IInv, UNCHANGED <<client, lost, component, focus, down>>, Served,
         acts' \in Nat, others' \in Nat, restarts' \in Nat
  PROVE  IInv'
  BY Told DEF IInv, TypeOK, CallsOK

LEMMA Sequences ==
  ASSUME NEW d \in Seq(Message), NEW m \in Message, NEW n \in Message
  PROVE  /\ d \o <<>> = d /\ d \o <<m>> = Append(d, m)
         /\ d \o <<>> \o <<m>> = Append(d, m)
         /\ d \o <<>> \o <<m>> \o <<>> = Append(d, m)
         /\ d \o <<m>> \o <<n>> = Append(Append(d, m), n)
         /\ d \o <<m>> \o <<n>> \o <<>> = Append(Append(d, m), n)
<1>1. \A s \in Seq(Message) : s \o <<>> = s
  BY ConcatEmptySeq
<1>2. \A s \in Seq(Message), p \in Message : s \o <<p>> = Append(s, p) /\ Append(s, p) \in Seq(Message)
  BY AppendIsConcat
<1>3. QED
  BY <1>1, <1>2

-------------------------------------------------------------------------------
(* The focus. *)

(* What the focus does, with the counters as they may be.                  *)
Counting == acts' \in Nat /\ others' \in Nat /\ restarts' \in Nat

LEMMA Parts ==
  ASSUME IInv
  PROVE  /\ focus \in Focus /\ component \in Component /\ down \in Seq(Message) /\ up \in Seq(Request)
         /\ lost \in SUBSET Recordings /\ Now \in Known /\ Numbered(focus, lost)
         /\ acts \in Nat /\ others \in Nat /\ restarts \in Nat
         /\ focus.sip.status \in Active /\ ~calls[focus.sip.id].astray => Ringing(focus.sip.id)
         /\ LastTells(down, focus.sip)
         /\ \E z \in Known : /\ Foreseen(Now, down, z) /\ RecordingsAgree(z.recording, focus, lost)
                             /\ ModerationAgrees(z.moderation, component)
                             /\ z.recording \in Manager /\ z.moderation \in Moderation
  BY NowKnown DEF IInv, TypeOK, CallsOK, Leads, Known

(* The recording has another status, or the call, or another call is made. *)
LEMMA Changed ==
  ASSUME IInv, NEW g \in Focus, Publish(g, <<>>, <<>>), UNCHANGED <<client, lost>>, Served, Counting,
         \/ g.rec = focus.rec
         \/ focus.rec # Nothing /\ g.rec # Nothing /\ g.rec.id = focus.rec.id,
         g.made = focus.made, g.unanswered = focus.unanswered,
         g.sip.status \in Active /\ ~calls[g.sip.id].astray => Ringing(g.sip.id)
  PROVE  IInv'
<1>1. /\ focus \in Focus /\ component \in Component /\ down \in Seq(Message) /\ Numbered(focus, lost)
      /\ lost \in SUBSET Recordings
  BY Parts
<1>2. PICK z \in Known : /\ Foreseen(Now, down, z) /\ RecordingsAgree(z.recording, focus, lost)
                         /\ ModerationAgrees(z.moderation, component) /\ z.recording \in Manager
  BY Parts
<1>3. focus' = g /\ component' = component /\ down' = Append(down, Presence(g))
  BY <1>1, Sequences, PresenceMessage DEF Publish
<1>4. Numbered(g, lost)
  BY <1>1 DEF Numbered
<1>5. RecordingsAgree(IF g.rec = Nothing THEN z.recording ELSE HandleFocusPresence(z.recording, g.rec),
                      g, lost)
  <2>1. CASE g.rec = Nothing
    <3>1. focus.rec = Nothing
      BY <2>1
    <3>2. RecordingsAgree(z.recording, g, lost)
      BY <1>2, <2>1, <3>1 DEF RecordingsAgree
    <3>3. QED
      BY <2>1, <3>2
  <2>2. CASE g.rec # Nothing
    <3>1. RecordingsAgree(HandleFocusPresence(z.recording, g.rec), g, lost)
      BY <1>1, <1>2, <2>2, SameRecording
    <3>2. QED
      BY <2>2, <3>1
  <2>3. QED
    BY <2>1, <2>2
<1>6. lost' \in SUBSET Recordings /\ lost' = lost
  BY <1>1
<1>7. QED
  BY <1>1, <1>2, <1>3, <1>4, <1>5, <1>6, Published DEF Counting

LEMMA NewIsFocus ==
  ASSUME TypeOK, CanRecord
  PROVE  /\ NewRecording \in Focus /\ NewRecording.made = focus.made + 1
         /\ NewRecording.rec # Nothing /\ NewRecording.rec.id = focus.made + 1
         /\ NewRecording.rec.status = "pending" /\ NewRecording.unanswered = focus.unanswered
         /\ NewRecording.sip = focus.sip /\ focus.made + 1 \in Recordings
         /\ focus.rec.status \notin Active
         /\ LET g == [NewRecording EXCEPT !.unanswered = @ \cup {focus.made + 1}] IN
              /\ g \in Focus /\ g.made = focus.made + 1 /\ g.rec = NewRecording.rec
              /\ g.unanswered = focus.unanswered \cup {focus.made + 1} /\ g.sip = focus.sip
<1>1. /\ focus \in Focus /\ focus.made \in 0..MaxRecordings /\ focus.made < MaxRecordings
      /\ MaxRecordings \in Nat
  BY ServiceBoundsAssumption DEF TypeOK, Focus, CanRecord
<1> DEFINE made == focus.made + 1
           rec == [id |-> made, status |-> "pending", error |-> FALSE]
           n == [focus EXCEPT !.made = made, !.rec = rec]
           g == [n EXCEPT !.unanswered = @ \cup {made}]
<1>2. made \in 0..MaxRecordings /\ made \in Recordings /\ made # 0
  BY <1>1 DEF Recordings
<1>3. rec \in Rec /\ rec # Nothing /\ rec.id = made /\ rec.status = "pending"
  BY <1>2 DEF Rec, Nothing
<1>4. NewRecording = n
  BY DEF NewRecording
<1> HIDE DEF made, rec
<1>5. /\ n \in Focus /\ n.made = made /\ n.rec = rec /\ n.unanswered = focus.unanswered
      /\ n.sip = focus.sip
  BY <1>1, <1>2, <1>3 DEF Focus
<1> HIDE DEF n
<1>6. /\ g \in Focus /\ g.made = made /\ g.rec = rec /\ g.unanswered = focus.unanswered \cup {made}
      /\ g.sip = focus.sip
  BY <1>2, <1>5 DEF Focus
<1>7. focus.rec.status \notin Active
  BY DEF CanRecord
<1>8. QED
  BY <1>2, <1>3, <1>4, <1>5, <1>6, <1>7 DEF made

(* A recording is made, with its answer at once, or with none.             *)
LEMMA Records ==
  ASSUME IInv, CanRecord, NEW g \in Focus, g.made = focus.made + 1, g.rec = NewRecording.rec,
         g.sip = focus.sip, g.unanswered \subseteq focus.unanswered \cup {focus.made + 1},
         \/ Publish(g, <<>>, <<>>)
         \/ Publish(g, <<Answer("result", focus.made + 1)>>, <<>>),
         UNCHANGED <<client, lost>>, Served, Counting
  PROVE  IInv'
<1>1. /\ focus \in Focus /\ component \in Component /\ down \in Seq(Message) /\ Numbered(focus, lost)
      /\ lost \in SUBSET Recordings /\ Now \in Known /\ TypeOK
      /\ focus.sip.status \in Active /\ ~calls[focus.sip.id].astray => Ringing(focus.sip.id)
  BY Parts DEF IInv
<1>2. PICK z \in Known : /\ Foreseen(Now, down, z) /\ RecordingsAgree(z.recording, focus, lost)
                         /\ ModerationAgrees(z.moderation, component) /\ z.recording \in Manager
  BY Parts
<1>3. /\ g.rec # Nothing /\ g.rec.id = g.made /\ g.rec.status = "pending"
      /\ focus.made + 1 \in Recordings /\ focus.rec.status \notin Active
  BY <1>1, NewIsFocus
<1>4. /\ RecordingsAgree(HandleFocusPresence(z.recording, g.rec), g, lost)
      /\ RecordingsAgree(HandleFocusPresence(Started(z.recording, g.made), g.rec), g, lost)
  BY <1>1, <1>2, <1>3, NewRecordingAgrees
<1>5. Numbered(g, lost)
  <2>1. focus.made \in Nat /\ g.rec.id = g.made /\ g.made = focus.made + 1
    BY <1>1, <1>3, RecTypes
  <2>2. \A r \in focus.unanswered \cup lost : r \in Recordings /\ r <= focus.made
    BY <1>1, RecTypes DEF Numbered
  <2>3. \A r \in g.unanswered \cup lost : r <= g.made
    BY <2>1, <2>2 DEF Recordings
  <2>4. g.rec.id <= g.made
    BY <2>1
  <2>5. QED
    BY <2>3, <2>4 DEF Numbered
<1>6. lost' \in SUBSET Recordings /\ lost' = lost
  BY <1>1
<1>7. CASE Publish(g, <<>>, <<>>)
  <2>1. focus' = g /\ component' = component /\ down' = Append(down, Presence(g))
    BY <1>1, <1>7, Sequences, PresenceMessage DEF Publish
  <2>2. RecordingsAgree(IF g.rec = Nothing THEN z.recording ELSE HandleFocusPresence(z.recording, g.rec),
                        g, lost)
    BY <1>3, <1>4
  <2>3. QED
    BY <1>1, <1>2, <1>5, <1>6, <2>1, <2>2, Published DEF Counting
<1>8. CASE Publish(g, <<Answer("result", focus.made + 1)>>, <<>>)
  <2> DEFINE msg == Answer("result", focus.made + 1)
             d == Append(down, msg)
             y == After(z, msg)
  <2>1. msg \in Message /\ msg.kind = "result" /\ msg.id = g.made
    BY <1>3 DEF Answer, Message
  <2> HIDE DEF msg
  <2>2. d \in Seq(Message) /\ y \in Known /\ Foreseen(Now, d, y)
    BY <1>1, <1>2, <2>1, AfterType, ForeseenAppend
  <2>3. y.recording = Started(z.recording, g.made) /\ y.moderation = z.moderation
    BY <2>1 DEF After, AfterRecording, AfterModeration
  <2>4. focus' = g /\ component' = component /\ down' = Append(d, Presence(g))
    BY <1>1, <1>8, <2>1, Sequences, PresenceMessage DEF Publish, msg
  <2> HIDE DEF d, y
  <2>5. RecordingsAgree(IF g.rec = Nothing THEN y.recording ELSE HandleFocusPresence(y.recording, g.rec),
                        g, lost)
    BY <1>3, <1>4, <2>3
  <2>6. ModerationAgrees(y.moderation, component)
    BY <1>2, <2>3
  <2>7. QED
    BY <1>1, <1>5, <1>6, <2>2, <2>4, <2>5, <2>6, Published DEF Counting
<1>9. QED
  BY <1>7, <1>8

(* The focus goes away, and another one knows nothing.                     *)
LEMMA Restarts ==
  ASSUME IInv, FocusRestart
  PROVE  IInv'
<1>1. /\ focus \in Focus /\ component \in Component /\ down \in Seq(Message) /\ Numbered(focus, lost)
      /\ lost \in SUBSET Recordings /\ acts \in Nat /\ others \in Nat /\ restarts \in Nat
  BY Parts
<1>2. PICK z \in Known : /\ Foreseen(Now, down, z) /\ RecordingsAgree(z.recording, focus, lost)
                         /\ ModerationAgrees(z.moderation, component) /\ z.recording \in Manager
  BY Parts
<1> DEFINE g == [focus EXCEPT !.rec = Nothing, !.sip = Nothing, !.unanswered = {}]
           more == lost \cup ({focus.rec.id} \ {0}) \cup focus.unanswered
<1>3. /\ g \in Focus /\ g.rec = Nothing /\ g.sip = Nothing /\ g.unanswered = {} /\ g.made = focus.made
  BY <1>1 DEF Focus, Rec, Sip
<1>4. Nothing.status \notin Active
  BY DEF Nothing, Active
<1>5. /\ focus.rec # Nothing => focus.rec.id \in Recordings /\ focus.rec.id # 0
                                /\ focus.rec.id <= focus.made
      /\ focus.rec = Nothing => focus.rec.id = 0
      /\ focus.unanswered \subseteq Recordings
  BY <1>1, RecTypes DEF Numbered, Recordings, Nothing
<1>6. more \in SUBSET Recordings /\ lost \subseteq more /\ (focus.rec # Nothing => focus.rec.id \in more)
  BY <1>1, <1>5
<1>7. Numbered(g, more)
  BY <1>1, <1>3, <1>5 DEF Numbered
<1>8. focus' = g /\ component' = component /\ down' = down \o <<>> \o <<Presence(g)>> \o <<>>
  BY DEF FocusRestart, Publish
<1>9. lost' = more /\ UNCHANGED client /\ Served /\ acts' \in Nat /\ others' \in Nat /\ restarts' \in Nat
  BY <1>1 DEF FocusRestart, Served
<1> HIDE DEF g, more
<1>10. down' = Append(down, Presence(g))
  BY <1>1, <1>3, <1>8, Sequences, PresenceMessage
<1>11. RecordingsAgree(z.recording, g, more)
  BY <1>1, <1>2, <1>3, <1>6, RestartAgrees
<1>12. RecordingsAgree(IF g.rec = Nothing THEN z.recording ELSE HandleFocusPresence(z.recording, g.rec),
                       g, more)
  BY <1>3, <1>11
<1>13. ~(g.sip.status \in Active)
  BY <1>3, <1>4
<1>14. UNCHANGED <<client, component>>
  BY <1>8, <1>9
<1>15. QED
  BY <1>1, <1>2, <1>3, <1>6, <1>7, <1>8, <1>9, <1>10, <1>12, <1>13, <1>14, Published

LEMMA AnswersLate ==
  ASSUME IInv, NEW r \in Recordings, AnswerLate(r)
  PROVE  IInv'
<1>1. /\ focus \in Focus /\ down \in Seq(Message) /\ Numbered(focus, lost)
      /\ acts \in Nat /\ others \in Nat /\ restarts \in Nat
  BY Parts
<1> DEFINE f == [focus EXCEPT !.unanswered = @ \ {r}]
           msg == Answer("result", r)
<1>2. /\ f \in Focus /\ f.sip = focus.sip /\ f.rec = focus.rec /\ f.made = focus.made
      /\ f.unanswered \subseteq focus.unanswered
  BY <1>1 DEF Focus
<1>3. msg \in Message /\ msg.kind = "result" /\ msg.id = r
  BY DEF Answer, Message
<1>4. focus' = f /\ down' = Append(down, msg) /\ r \in focus.unanswered
  BY DEF AnswerLate
<1>5. /\ UNCHANGED <<client, lost, component>> /\ Served
      /\ acts' \in Nat /\ others' \in Nat /\ restarts' \in Nat
  BY <1>1 DEF AnswerLate, counters, Served
<1> HIDE DEF f, msg
<1>6. Numbered(f, lost)
  BY <1>1, <1>2 DEF Numbered
<1>7. ASSUME NEW m \in Manager, RecordingsAgree(m, focus, lost)
      PROVE  RecordingsAgree(AfterRecording(m, msg), f, lost)
  <2>1. RecordingsAgree(Started(m, r), f, lost)
    BY <1>1, <1>2, <1>4, <1>7, LateAnswer
  <2>2. QED
    BY <1>3, <2>1 DEF AfterRecording
<1>8. \A v \in Moderation : AfterModeration(v, msg) = v
  BY <1>3 DEF AfterModeration
<1>9. QED
  BY <1>2, <1>3, <1>4, <1>5, <1>6, <1>7, <1>8, ToldOne

(* Messages that say nothing of what runs.                                 *)
LEMMA ToldInVain ==
  ASSUME IInv, NEW msg \in Message, msg.kind \in {"refused", "sipError"}, Tell(<<msg>>),
         UNCHANGED <<client, lost>>, Served, Counting
  PROVE  IInv'
<1>1. focus \in Focus /\ down \in Seq(Message) /\ Numbered(focus, lost)
  BY Parts
<1>2. down' = Append(down, msg) /\ focus' = focus /\ UNCHANGED <<client, lost, component>>
  BY <1>1, Sequences DEF Tell
<1>3. \A m \in Manager : AfterRecording(m, msg) = m
  BY DEF AfterRecording
<1>4. \A v \in Moderation : AfterModeration(v, msg) = v
  BY DEF AfterModeration
<1>5. QED
  BY <1>1, <1>2, <1>3, <1>4, ToldOne DEF Counting

LEMMA JibriTells ==
  ASSUME IInv, JibriPresence
  PROVE  IInv'
<1>1. /\ focus \in Focus /\ down \in Seq(Message) /\ Numbered(focus, lost)
      /\ acts \in Nat /\ others \in Nat /\ restarts \in Nat
  BY Parts
<1>2. focus.rec.id \in Recordings /\ focus.rec.status = "on"
  BY <1>1, RecTypes DEF JibriPresence, Active
<1> DEFINE msg == Answer("jibri", focus.rec.id)
<1>3. msg \in Message /\ msg.kind = "jibri" /\ msg.id = focus.rec.id
  BY <1>2 DEF Answer, Message
<1>4. /\ down' = Append(down, msg) /\ focus' = focus /\ UNCHANGED <<client, lost, component>> /\ Served
      /\ acts' \in Nat /\ others' \in Nat /\ restarts' \in Nat
  BY <1>1 DEF JibriPresence, counters, Served
<1> HIDE DEF msg
<1>5. \A m \in Manager : RecordingsAgree(m, focus, lost) => RecordingsAgree(AfterRecording(m, msg), focus, lost)
  BY <1>1, <1>2, <1>3, JibriAnswer DEF AfterRecording
<1>6. \A v \in Moderation : AfterModeration(v, msg) = v
  BY <1>3 DEF AfterModeration
<1>7. QED
  BY <1>1, <1>3, <1>4, <1>5, <1>6, ToldOne

LEMMA RecordingGoesOn ==
  ASSUME IInv, RecordingChanges
  PROVE  IInv'
<1>1. /\ focus \in Focus /\ acts \in Nat /\ others \in Nat /\ restarts \in Nat
      /\ focus.sip.status \in Active /\ ~calls[focus.sip.id].astray => Ringing(focus.sip.id)
  BY Parts
<1>2. UNCHANGED <<client, lost>> /\ Served /\ Counting
  BY <1>1 DEF RecordingChanges, counters, Served, Counting
<1>3. ASSUME NEW status \in {"on", "off"}, NEW error \in BOOLEAN, focus.rec.status \in Active,
             NEW g, g = [focus EXCEPT !.rec.status = status, !.rec.error = error],
             Publish(g, <<>>, <<>>)
      PROVE  IInv'
  <2>1. focus.rec # Nothing /\ focus.rec \in [id : Recordings, status : {"pending", "on", "off"}, error : BOOLEAN]
    BY <1>1, <1>3, RecTypes DEF Rec
  <2> DEFINE rec == [focus.rec EXCEPT !.status = status, !.error = error]
  <2>2. rec \in Rec /\ rec.id = focus.rec.id
    BY <2>1 DEF Rec
  <2>3. rec # Nothing
    BY <2>1, <2>2 DEF Nothing, Recordings
  <2>4. g = [focus EXCEPT !.rec = rec]
    BY <1>1, <1>3, <2>1 DEF Focus
  <2> HIDE DEF rec
  <2>5. /\ g \in Focus /\ g.rec = rec /\ g.sip = focus.sip /\ g.made = focus.made
        /\ g.unanswered = focus.unanswered
    BY <1>1, <2>2, <2>4 DEF Focus
  <2>6. QED
    BY <1>1, <1>2, <1>3, <2>1, <2>2, <2>3, <2>5, Changed
<1>4. CASE focus.rec.status = "pending" /\ Publish([focus EXCEPT !.rec.status = "on"], <<>>, <<>>)
  <2>1. focus.rec.status \in Active
    BY <1>4 DEF Active
  <2>2. focus.rec \in [id : Recordings, status : {"pending", "on", "off"}, error : BOOLEAN]
    BY <1>1, <2>1, RecTypes DEF Rec
  <2> DEFINE g == [focus EXCEPT !.rec.status = "on"]
  <2>3. g = [focus EXCEPT !.rec.status = "on", !.rec.error = focus.rec.error] /\ focus.rec.error \in BOOLEAN
    BY <1>1, <2>2 DEF Focus
  <2>4. Publish(g, <<>>, <<>>)
    BY <1>4
  <2> HIDE DEF g
  <2>5. QED
    BY <1>3, <2>1, <2>3, <2>4
<1>5. CASE focus.rec.status \in Active /\ \E error \in BOOLEAN :
             Publish([focus EXCEPT !.rec.status = "off", !.rec.error = error], <<>>, <<>>)
  BY <1>3, <1>5
<1>6. QED
  BY <1>4, <1>5 DEF RecordingChanges

(* The state of the call in progress changes.                              *)
LEMMA CallGoesOn ==
  ASSUME IInv, focus.sip.status \in Active,
         NEW status \in {"pending", "on", "retrying", "off", "failed"},
         NEW g, g = [focus EXCEPT !.sip.status = status], Publish(g, <<>>, <<>>),
         UNCHANGED <<client, lost>>, Served, Counting
  PROVE  IInv'
<1>1. /\ focus \in Focus
      /\ focus.sip.status \in Active /\ ~calls[focus.sip.id].astray => Ringing(focus.sip.id)
  BY Parts
<1>2. focus.sip \in [id : Address, status : {"pending", "on", "retrying", "off", "failed"}, error : BOOLEAN]
  BY <1>1, RecTypes DEF Sip
<1> DEFINE sip == [focus.sip EXCEPT !.status = status]
<1>3. sip \in Sip /\ sip.id = focus.sip.id
  BY <1>2 DEF Sip
<1>4. g = [focus EXCEPT !.sip = sip]
  BY <1>1, <1>2 DEF Focus
<1> HIDE DEF sip
<1>5. /\ g \in Focus /\ g.rec = focus.rec /\ g.sip = sip /\ g.made = focus.made
      /\ g.unanswered = focus.unanswered
  BY <1>1, <1>3, <1>4 DEF Focus
<1>6. QED
  BY <1>1, <1>3, <1>5, Changed

LEMMA CallsChange ==
  ASSUME IInv, CallChanges
  PROVE  IInv'
<1>1. UNCHANGED <<client, lost>> /\ Served /\ Counting
  BY Parts DEF CallChanges, counters, Served, Counting
<1>2. PICK status \in {"on", "retrying", "off", "failed"} :
        Publish([focus EXCEPT !.sip.status = status], <<>>, <<>>)
  BY DEF CallChanges
<1> DEFINE g == [focus EXCEPT !.sip.status = status]
<1>3. Publish(g, <<>>, <<>>)
  BY <1>2
<1>4. g = [focus EXCEPT !.sip.status = status]
  OBVIOUS
<1> HIDE DEF g
<1>5. QED
  BY <1>1, <1>3, <1>4, CallGoesOn DEF CallChanges

-------------------------------------------------------------------------------
(* The moderation component. *)

LEMMA Moderates ==
  ASSUME IInv, NEW msg \in Request, msg.kind \in {"enable", "approve", "reject"}, Moderate(msg),
         UNCHANGED <<client, focus, lost>>, Served, Counting
  PROVE  IInv'
<1>1. /\ focus \in Focus /\ component \in Component /\ down \in Seq(Message) /\ Numbered(focus, lost)
      /\ Now \in Known /\ LastTells(down, focus.sip)
  BY Parts
<1>2. component.on \in BOOLEAN /\ component.list \subseteq Person
  BY <1>1 DEF Component
<1>3. PICK z \in Known : /\ Foreseen(Now, down, z) /\ RecordingsAgree(z.recording, focus, lost)
                         /\ ModerationAgrees(z.moderation, component)
                         /\ z.recording \in Manager /\ z.moderation \in Moderation
  BY Parts
<1> DEFINE v == z.moderation
<1>4. CASE msg.kind = "enable" /\ component.on # msg.on
  <2> DEFINE k == [on |-> msg.on, list |-> {}]
             n == [kind |-> "enabled", on |-> msg.on]
             d == Append(down, n)
  <2>1. msg.on \in BOOLEAN
    BY <1>4, RequestKinds
  <2>2. k \in Component /\ k.on = msg.on /\ k.list = {} /\ n \in Message /\ n.kind = "enabled" /\ n.on = msg.on
    BY <2>1 DEF Component, Message
  <2>3. component' = k /\ down' = d
    BY <1>4 DEF Moderate
  <2> HIDE DEF k, n
  <2>4. AfterRecording(z.recording, n) = z.recording /\ AfterModeration(v, n) = Switched(v, msg.on)
    BY <2>2 DEF AfterRecording, AfterModeration, OnMessage
  <2>5. ModerationAgrees(Switched(v, msg.on), k)
    BY <1>1, <1>3, <1>4, <2>1, <2>2, SwitchAgrees
  <2>6. Leads(Now, d, focus, lost, k)
    BY <1>1, <1>3, <2>2, <2>4, <2>5, LeadsOn
  <2>7. d \in Seq(Message) /\ LastTells(d, focus.sip) /\ (Silent(d) => Silent(down))
    BY <1>1, <2>2, OtherAppended
  <2> HIDE DEF d
  <2>8. QED
    BY <1>1, <2>2, <2>3, <2>6, <2>7, Told DEF Counting
<1>5. ASSUME NEW l \in SUBSET Person, NEW removed \in BOOLEAN, NEW p \in Person, component.on,
             NEW k \in Component, k.on = component.on, k.list = l, component' = k,
             NEW self \in Message, self.kind = IF removed THEN "removed" ELSE "approved",
             NEW w \in Message, w.kind = "whitelist", w.list = l, w.removed = removed,
             down' = IF p = Me THEN Append(Append(down, self), w) ELSE Append(down, w),
             l = IF removed THEN component.list \ {p} ELSE component.list \cup {p}
      PROVE  IInv'
  <2> DEFINE before == IF p = Me THEN Append(down, self) ELSE down
             y == IF p = Me THEN After(z, self) ELSE z
             u == y.moderation
             d == Append(before, w)
  <2>1. before \in Seq(Message) /\ y \in Known /\ Foreseen(Now, before, y)
    BY <1>1, <1>3, <1>5, AfterType, ForeseenAppend
  <2>2. self.kind # "focus" /\ w.kind # "focus"
    BY <1>5
  <2>3. LastTells(before, focus.sip) /\ (Silent(before) => Silent(down))
    BY <1>1, <2>2, OtherAppended
  <2>4. /\ y.recording = z.recording
        /\ u \in Moderation
        /\ u = [v EXCEPT !.may = IF p = Me THEN ~removed ELSE @]
    <3>1. CASE p = Me
      <4>1. y.recording = AfterRecording(z.recording, self) /\ u = AfterModeration(v, self)
        BY <3>1 DEF After
      <4>2. AfterRecording(z.recording, self) = z.recording
        BY <1>5 DEF AfterRecording
      <4>3. AfterModeration(v, self) = [v EXCEPT !.may = ~removed]
        BY <1>5 DEF AfterModeration, OnMessage
      <4>4. QED
        BY <1>3, <3>1, <4>1, <4>2, <4>3 DEF Moderation
    <3>2. CASE p # Me
      BY <1>3, <3>2 DEF Moderation
    <3>3. QED
      BY <3>1, <3>2
  <2> HIDE DEF y, before, u
  <2>5. d \in Seq(Message) /\ LastTells(d, focus.sip) /\ (Silent(d) => Silent(before))
    BY <1>5, <2>1, <2>2, <2>3, OtherAppended
  <2>6. down' = d
    BY <1>5 DEF before
  <2>7. AfterRecording(y.recording, w) = y.recording /\ AfterModeration(u, w) = Whitelist(u, l, removed)
    BY <1>5 DEF AfterRecording, AfterModeration, OnMessage
  <2>8. ModerationAgrees(Whitelist(u, l, removed), k)
    <3> DEFINE was == v
    <3>1. was \in Moderation /\ ModerationAgrees(was, component)
      BY <1>3
    <3>2. CASE removed
      <4>1. u = [was EXCEPT !.may = IF p = Me THEN FALSE ELSE @] /\ l = component.list \ {p} /\ removed = TRUE
        BY <1>5, <2>4, <3>2
      <4> HIDE DEF was
      <4> HIDE DEF v
      <4>2. component.on /\ k.on = component.on /\ k.list = l /\ component \in Component /\ u \in Moderation
        BY <1>1, <1>5, <2>4
      <4>3. ModerationAgrees(Whitelist(u, l, TRUE), k)
        BY ONLY <3>1, <4>1, <4>2, RejectAgrees, p \in Person, k \in Component
      <4>4. QED
        BY <4>1, <4>3
    <3>3. CASE ~removed
      <4>1. u = [was EXCEPT !.may = IF p = Me THEN TRUE ELSE @] /\ l = component.list \cup {p} /\ removed = FALSE
        BY <1>5, <2>4, <3>3
      <4> HIDE DEF was
      <4> HIDE DEF v
      <4>2. component.on /\ k.on = component.on /\ k.list = l /\ component \in Component /\ u \in Moderation
        BY <1>1, <1>5, <2>4
      <4>3. ModerationAgrees(Whitelist(u, l, FALSE), k)
        BY ONLY <3>1, <4>1, <4>2, ApproveAgrees, p \in Person, k \in Component
      <4>4. QED
        BY <4>1, <4>3
    <3>4. QED
      BY <3>2, <3>3
  <2>9. Leads(Now, d, focus, lost, k)
    BY <1>1, <1>3, <1>5, <2>1, <2>4, <2>7, <2>8, LeadsOn DEF u
  <2> HIDE DEF d
  <2>10. QED
    BY <1>1, <1>5, <2>3, <2>5, <2>6, <2>9, Told DEF Counting
<1>6. ASSUME NEW removed \in BOOLEAN, msg.kind = IF removed THEN "reject" ELSE "approve", component.on
      PROVE  IInv'
  <2> DEFINE p == msg.id
             l == IF removed THEN component.list \ {p} ELSE component.list \cup {p}
             k == [component EXCEPT !.list = l]
             self == [kind |-> IF removed THEN "removed" ELSE "approved"]
             w == [kind |-> "whitelist", list |-> l, removed |-> removed]
  <2>1. p \in Person
    BY <1>6, RequestKinds
  <2>2. l \in SUBSET Person
    BY <1>2, <2>1
  <2>3. component' = k
    BY <1>6 DEF Moderate
  <2>4. component'.list = l
    BY <1>1, <2>3 DEF Component
  <2>5. down' = down \o (IF p = Me THEN <<self>> ELSE <<>>) \o <<w>>
    <3>1. CASE removed
      BY <1>6, <2>4, <3>1 DEF Moderate
    <3>2. CASE ~removed
      BY <1>6, <2>4, <3>2 DEF Moderate
    <3>3. QED
      BY <3>1, <3>2
  <2>6. self \in Message /\ self.kind = IF removed THEN "removed" ELSE "approved"
    BY DEF Message
  <2>7. w \in Message /\ w.kind = "whitelist" /\ w.list = l /\ w.removed = removed
    BY <2>2 DEF Message
  <2>8. l = IF removed THEN component.list \ {p} ELSE component.list \cup {p}
    OBVIOUS
  <2> HIDE DEF l, self, w
  <2>9. k \in Component /\ k.on = component.on /\ k.list = l
    BY <1>1, <2>2 DEF Component
  <2>10. down' = IF p = Me THEN Append(Append(down, self), w) ELSE Append(down, w)
    BY <1>1, <2>5, <2>6, <2>7, Sequences
  <2> HIDE DEF p, k
  <2>11. QED
    BY <1>5, <1>6, <2>1, <2>2, <2>3, <2>6, <2>7, <2>8, <2>9, <2>10
<1>7. CASE msg.kind = "approve" /\ component.on
  BY <1>6, <1>7
<1>8. CASE msg.kind = "reject" /\ component.on
  BY <1>6, <1>8
<1>9. CASE /\ ~(msg.kind = "enable" /\ component.on # msg.on) /\ ~(msg.kind = "approve" /\ component.on)
           /\ ~(msg.kind = "reject" /\ component.on)
  BY <1>9, ToldNothing DEF Moderate, Counting
<1>10. QED
  BY <1>4, <1>7, <1>8, <1>9

-------------------------------------------------------------------------------
(* Requests of the client and of others. *)

LEMMA HeadRequest ==
  ASSUME IInv, up # <<>>
  PROVE  /\ Head(up) \in Request
         /\ Head(up).kind = "call" /\ ~calls[Head(up).id].astray => Ringing(Head(up).id)
<1>1. up \in Seq(Request) /\ 1 \in DOMAIN up /\ Head(up) = up[1]
  BY Parts
<1>2. QED
  BY <1>1 DEF IInv, CallsOK

LEMMA RequestIsServed ==
  ASSUME IInv, ServeRequest
  PROVE  IInv'
<1>1. /\ focus \in Focus /\ acts \in Nat /\ others \in Nat /\ restarts \in Nat /\ TypeOK
      /\ down \in Seq(Message)
      /\ focus.sip.status \in Active /\ ~calls[focus.sip.id].astray => Ringing(focus.sip.id)
  BY Parts DEF IInv
<1>2. UNCHANGED <<client, lost>> /\ Served /\ Counting
  BY <1>1 DEF ServeRequest, counters, Served, Counting
<1> DEFINE msg == Head(up)
<1>3. msg \in Request /\ (msg.kind = "call" /\ ~calls[msg.id].astray => Ringing(msg.id))
  BY HeadRequest DEF ServeRequest
<1>4. /\ msg.kind = "record" => Recorded
      /\ msg.kind = "stop" => Stopped
      /\ msg.kind = "call" => Called(msg)
      /\ msg.kind = "hangup" => HungUp(msg)
      /\ msg.kind \in {"enable", "approve", "reject"} => Moderate(msg) /\ UNCHANGED focus
  BY DEF ServeRequest
<1> HIDE DEF msg
<1>5. CASE msg.kind = "record"
  <2>1. CASE CanRecord /\ Publish(NewRecording, <<Answer("result", focus.made + 1)>>, <<>>)
    BY <1>1, <1>2, <2>1, NewIsFocus, Records
  <2>2. CASE CanRecord /\ Publish([NewRecording EXCEPT !.unanswered = @ \cup {focus.made + 1}], <<>>, <<>>)
    BY <1>1, <1>2, <2>2, NewIsFocus, Records
  <2>3. CASE Tell(<<Answer("refused", 0)>>)
    <3> DEFINE n == Answer("refused", 0)
    <3>1. n \in Message /\ n.kind = "refused"
      BY DEF Answer, Message
    <3>2. Tell(<<n>>)
      BY <2>3
    <3> HIDE DEF n
    <3>3. QED
      BY <1>2, <3>1, <3>2, ToldInVain
  <2>4. QED
    BY <1>4, <1>5, <2>1, <2>2, <2>3 DEF Recorded
<1>6. CASE msg.kind = "stop"
  <2>1. CASE /\ focus.rec.status \in Active
             /\ Publish([focus EXCEPT !.rec.status = "off"], <<>>, <<>>)
    <3> DEFINE rec == [focus.rec EXCEPT !.status = "off"]
               g == [focus EXCEPT !.rec.status = "off"]
    <3>1. focus.rec \in [id : Recordings, status : {"pending", "on", "off"}, error : BOOLEAN]
      BY <1>1, <2>1, RecTypes DEF Rec
    <3>2. rec \in Rec /\ rec.id = focus.rec.id /\ rec # Nothing /\ focus.rec # Nothing
      BY <3>1 DEF Rec, Nothing, Recordings
    <3>3. g = [focus EXCEPT !.rec = rec]
      BY <1>1, <3>1 DEF Focus
    <3>4. Publish(g, <<>>, <<>>)
      BY <2>1
    <3> HIDE DEF rec, g
    <3>5. /\ g \in Focus /\ g.rec = rec /\ g.sip = focus.sip /\ g.made = focus.made
          /\ g.unanswered = focus.unanswered
      BY <1>1, <3>2, <3>3 DEF Focus
    <3>6. QED
      BY <1>1, <1>2, <3>2, <3>4, <3>5, Changed
  <2>2. CASE Tell(<<>>)
    BY <1>1, <1>2, <2>2, Sequences, ConcatEmptySeq, ToldNothing DEF Tell, Counting
  <2>3. QED
    BY <1>4, <1>6, <2>1, <2>2 DEF Stopped
<1>7. ASSUME msg.kind \in {"call", "hangup"}, Tell(<<SipError(msg)>>)
      PROVE  IInv'
  <2> DEFINE n == SipError(msg)
  <2>1. n \in Message /\ n.kind = "sipError"
    BY <1>3, <1>7, RequestKinds DEF SipError, Message
  <2>2. Tell(<<n>>)
    BY <1>7
  <2> HIDE DEF n
  <2>3. QED
    BY <1>2, <2>1, <2>2, ToldInVain
<1>8. CASE msg.kind = "call"
  <2>1. CASE Publish([focus EXCEPT !.sip = [id |-> msg.id, status |-> "pending", error |-> FALSE]], <<>>, <<>>)
    <3> DEFINE sip == [id |-> msg.id, status |-> "pending", error |-> FALSE]
               g == [focus EXCEPT !.sip = sip]
    <3>1. sip \in Sip /\ sip.id = msg.id
      BY <1>3, <1>8, RequestKinds DEF Sip
    <3>2. Publish(g, <<>>, <<>>)
      BY <2>1
    <3> HIDE DEF sip
    <3>3. /\ g \in Focus /\ g.rec = focus.rec /\ g.sip = sip /\ g.made = focus.made
          /\ g.unanswered = focus.unanswered
      BY <1>1, <3>1 DEF Focus
    <3> HIDE DEF g
    <3>4. QED
      BY <1>2, <1>3, <1>8, <3>1, <3>2, <3>3, Changed
  <2>2. QED
    BY <1>4, <1>7, <1>8, <2>1 DEF Called
<1>9. CASE msg.kind = "hangup"
  <2>1. CASE focus.sip.status \in Active /\ Publish([focus EXCEPT !.sip.status = "off"], <<>>, <<>>)
    <3> DEFINE g == [focus EXCEPT !.sip.status = "off"]
    <3>1. Publish(g, <<>>, <<>>) /\ g = [focus EXCEPT !.sip.status = "off"]
      BY <2>1
    <3> HIDE DEF g
    <3>2. QED
      BY <1>2, <2>1, <3>1, CallGoesOn
  <2>2. QED
    BY <1>4, <1>7, <1>9, <2>1 DEF HungUp
<1>10. CASE msg.kind \in {"enable", "approve", "reject"}
  BY <1>2, <1>3, <1>4, <1>10, Moderates
<1>11. QED
  BY <1>3, <1>5, <1>6, <1>8, <1>9, <1>10, RequestKinds

LEMMA OthersActToo ==
  ASSUME IInv, OthersAct
  PROVE  IInv'
<1>1. /\ focus \in Focus /\ acts \in Nat /\ others \in Nat /\ restarts \in Nat /\ TypeOK
  BY Parts DEF IInv
<1>2. UNCHANGED <<client, lost>> /\ Served /\ Counting
  BY <1>1 DEF OthersAct, Served, Counting
<1>3. CASE CanRecord /\ Publish(NewRecording, <<>>, <<>>)
  BY <1>1, <1>2, <1>3, NewIsFocus, Records
<1>4. ASSUME NEW on \in BOOLEAN, Moderate([kind |-> "enable", on |-> on]), UNCHANGED focus
      PROVE  IInv'
  <2> DEFINE msg == [kind |-> "enable", on |-> on]
  <2>1. msg \in Request /\ msg.kind = "enable"
    BY DEF Request
  <2>2. Moderate(msg)
    BY <1>4
  <2> HIDE DEF msg
  <2>3. QED
    BY <1>2, <1>4, <2>1, <2>2, Moderates
<1>5. ASSUME NEW msg \in {Approval(p) : p \in Person} \cup {Rejection(p) : p \in Person},
             Moderate(msg), UNCHANGED focus
      PROVE  IInv'
  <2>1. msg \in Request /\ msg.kind \in {"approve", "reject"}
    BY <1>5 DEF Request, Approval, Rejection
  <2>2. QED
    BY <1>2, <1>5, <2>1, Moderates
<1>6. QED
  BY <1>3, <1>4, <1>5 DEF OthersAct

(* The application asks for something.                                     *)
LEMMA Asks ==
  ASSUME IInv, NEW msg \in Request, Send(msg), UNCHANGED <<recording, gateway, moderation>>,
         calls' \in [Address -> [made : Nat, started : BOOLEAN, astray : BOOLEAN]],
         \A a \in Address : /\ calls'[a].astray = calls[a].astray
                            /\ calls[a].started => calls'[a].started,
         msg.kind = "call" /\ ~calls[msg.id].astray => gateway.sessions[msg.id].status # Absent /\ calls'[msg.id].started
  PROVE  IInv'
<1>1. up \in Seq(Request) /\ acts \in Nat /\ focus \in Focus
  BY Parts
<1>2. TypeOK'
  BY <1>1 DEF Send, TypeOK, IInv
<1>3. Now' = Now
  BY DEF Now
<1>4. Numbered(focus, lost)' /\ Leads(Now, down, focus, lost, component)'
  BY <1>3 DEF Send, IInv
<1>5. ASSUME NEW a \in Address, ~calls'[a].astray, ~calls[a].astray => Ringing(a)
      PROVE  Ringing(a)'
  BY <1>5 DEF Ringing
<1>6. ASSUME NEW i \in DOMAIN up', up'[i].kind = "call", ~calls'[up'[i].id].astray
      PROVE  Ringing(up[i].id)'
  <2> DEFINE n == Len(up)
  <2>1. /\ n \in Nat /\ DOMAIN up = 1..n /\ DOMAIN up' = 1..n + 1 /\ up'[n + 1] = msg
        /\ \A j \in 1..n : up'[j] = up[j]
    BY <1>1 DEF Send
  <2> HIDE DEF n
  <2>2. up'[i] \in Request
    BY <1>2, <1>6 DEF TypeOK
  <2>3. up'[i].id \in Address
    BY <1>6, <2>2, RequestKinds
  <2>4. CASE i = n + 1
    <3>1. up'[i] = msg /\ msg.id \in Address /\ ~calls[msg.id].astray
      BY <1>6, <2>1, <2>3, <2>4
    <3>2. gateway.sessions[msg.id].status # Absent /\ calls'[msg.id].started
      BY <1>6, <3>1
    <3>3. QED
      BY <3>1, <3>2 DEF Ringing
  <2>5. CASE i \in 1..n
    <3>1. ~calls[up[i].id].astray => Ringing(up[i].id)
      BY <1>6, <2>1, <2>5 DEF IInv, CallsOK
    <3>2. up'[i] = up[i] /\ up[i].id \in Address /\ ~calls'[up[i].id].astray
      BY <1>6, <2>1, <2>3, <2>5
    <3>3. gateway.sessions[up[i].id].status # Absent /\ calls'[up[i].id].started
      BY <3>1, <3>2 DEF Ringing
    <3>4. QED
      BY <3>2, <3>3 DEF Ringing
  <2>6. QED
    BY <1>6, <2>1, <2>4, <2>5
<1>7. focus' = focus /\ down' = down /\ gateway' = gateway
  BY DEF Send
<1>8. focus.sip.status \in Active /\ ~calls'[focus.sip.id].astray =>
        /\ Ringing(focus.sip.id)'
        /\ Silent(down) => gateway.sessions[focus.sip.id].status = focus.sip.status
  <2>1. focus.sip.status \in Active => focus.sip.id \in Address
    BY <1>1, RecTypes
  <2>2. focus.sip.status \in Active /\ ~calls[focus.sip.id].astray =>
          /\ Ringing(focus.sip.id)
          /\ Silent(down) => gateway.sessions[focus.sip.id].status = focus.sip.status
    BY DEF IInv, CallsOK
  <2>3. QED
    BY <1>7, <2>1, <2>2 DEF Ringing
<1>9. CallsOK'
  BY <1>6, <1>7, <1>8 DEF IInv, CallsOK
<1>10. QED
  BY <1>2, <1>4, <1>9 DEF IInv

LEMMA ApplicationAsks ==
  ASSUME IInv,
         \/ StartRecording
         \/ \E r \in Recordings : StopRecording(r)
         \/ \E a \in Address : StopCall(a)
         \/ \E on \in BOOLEAN : EnableAVModeration(on)
         \/ \E p \in Person : AvModerationApprove(p) \/ AvModerationReject(p)
  PROVE  IInv'
<1>1. calls \in [Address -> [made : Nat, started : BOOLEAN, astray : BOOLEAN]]
  BY DEF IInv, TypeOK
<1>2. \E msg \in Request : Send(msg) /\ msg.kind # "call" /\ UNCHANGED client
  <2>1. CASE StartRecording
    <3>1. RecordRequest \in Request /\ RecordRequest.kind # "call"
      BY DEF RecordRequest, Request
    <3>2. QED
      BY <2>1, <3>1 DEF StartRecording
  <2>2. ASSUME NEW r \in Recordings, StopRecording(r)
        PROVE  \E msg \in Request : Send(msg) /\ msg.kind # "call" /\ UNCHANGED client
    <3>1. StopRequest \in Request /\ StopRequest.kind # "call"
      BY DEF StopRequest, Request
    <3>2. QED
      BY <2>2, <3>1 DEF StopRecording
  <2>3. ASSUME NEW a \in Address, StopCall(a)
        PROVE  \E msg \in Request : Send(msg) /\ msg.kind # "call" /\ UNCHANGED client
    <3> DEFINE msg == [kind |-> "hangup", id |-> a, session |-> calls[a].made]
    <3>1. msg \in Request /\ msg.kind # "call"
      BY <1>1 DEF Request
    <3>2. Send(msg) /\ UNCHANGED client
      BY <2>3 DEF StopCall
    <3> HIDE DEF msg
    <3>3. QED
      BY <3>1, <3>2
  <2>4. ASSUME NEW on \in BOOLEAN, EnableAVModeration(on)
        PROVE  \E msg \in Request : Send(msg) /\ msg.kind # "call" /\ UNCHANGED client
    <3> DEFINE msg == [kind |-> "enable", on |-> on]
    <3>1. msg \in Request /\ msg.kind # "call"
      BY DEF Request
    <3>2. Send(msg) /\ UNCHANGED client
      BY <2>4 DEF EnableAVModeration
    <3> HIDE DEF msg
    <3>3. QED
      BY <3>1, <3>2
  <2>5. ASSUME NEW p \in Person, AvModerationApprove(p) \/ AvModerationReject(p)
        PROVE  \E msg \in Request : Send(msg) /\ msg.kind # "call" /\ UNCHANGED client
    <3>1. /\ Approval(p) \in Request /\ Approval(p).kind # "call"
          /\ Rejection(p) \in Request /\ Rejection(p).kind # "call"
      BY DEF Approval, Rejection, Request
    <3>2. QED
      BY <2>5, <3>1 DEF AvModerationApprove, AvModerationReject
  <2>6. QED
    BY <2>1, <2>2, <2>3, <2>4, <2>5
<1>3. QED
  BY <1>1, <1>2, Asks DEF client

LEMMA CallIsStarted ==
  ASSUME IInv, NEW a \in Address, StartCall(a)
  PROVE  IInv'
<1>1. calls \in [Address -> [made : Nat, started : BOOLEAN, astray : BOOLEAN]]
  BY DEF IInv, TypeOK
<1> DEFINE msg == [kind |-> "call", id |-> a, session |-> calls[a].made]
<1>2. msg \in Request /\ msg.id = a
  BY <1>1 DEF Request
<1>3. Send(msg) /\ UNCHANGED <<recording, gateway, moderation>>
  BY DEF StartCall
<1>4. calls' = [calls EXCEPT ![a].started = TRUE] /\ gateway.sessions[a].status # Absent
  BY DEF StartCall, Absent
<1> HIDE DEF msg
<1>5. /\ calls' \in [Address -> [made : Nat, started : BOOLEAN, astray : BOOLEAN]]
      /\ \A b \in Address : /\ calls'[b].astray = calls[b].astray
                            /\ calls[b].started => calls'[b].started
      /\ calls'[a].started
  BY <1>1, <1>4
<1>6. QED
  BY <1>2, <1>3, <1>4, <1>5, Asks

LEMMA SessionIsMade ==
  ASSUME IInv, NEW a \in Address, CreateVideoSIPGWSession(a)
  PROVE  IInv'
<1>1. /\ up \in Seq(Request) /\ acts \in Nat /\ focus \in Focus
      /\ calls \in [Address -> [made : Nat, started : BOOLEAN, astray : BOOLEAN]]
      /\ gateway \in Gateway
  BY Parts DEF IInv, TypeOK
<1>2. gateway.sessions[a].status = Absent
  BY DEF CreateVideoSIPGWSession, Has
<1>3. /\ gateway' = [gateway EXCEPT !.sessions[a] = [status |-> "fresh", error |-> FALSE]]
      /\ calls' = [calls EXCEPT ![a].made = @ + 1, ![a].started = FALSE]
  BY <1>2 DEF CreateVideoSIPGWSession, CreateSession, Has
<1>4. /\ gateway' \in Gateway
      /\ \A b \in Address \ {a} : gateway'.sessions[b] = gateway.sessions[b]
  BY <1>1, <1>3 DEF Gateway, CallStatus
<1> DEFINE call == [calls[a] EXCEPT !.made = @ + 1, !.started = FALSE]
<1>5. call \in [made : Nat, started : BOOLEAN, astray : BOOLEAN] /\ call.astray = calls[a].astray
  <2>1. /\ calls[a] \in [made : Nat, started : BOOLEAN, astray : BOOLEAN]
        /\ calls[a].made + 1 \in Nat
    BY <1>1
  <2>2. QED
    BY <2>1
<1>6. calls' = [calls EXCEPT ![a] = call]
  BY <1>1, <1>3
<1> HIDE DEF call
<1>7. /\ calls' \in [Address -> [made : Nat, started : BOOLEAN, astray : BOOLEAN]]
      /\ calls'[a].astray = calls[a].astray
      /\ \A b \in Address \ {a} : calls'[b] = calls[b]
  BY <1>1, <1>5, <1>6
<1>8. TypeOK'
  BY <1>1, <1>4, <1>7 DEF CreateVideoSIPGWSession, TypeOK, IInv
<1>9. Now' = Now
  BY DEF Now, CreateVideoSIPGWSession
<1>10. Numbered(focus, lost)' /\ Leads(Now, down, focus, lost, component)'
  BY <1>9 DEF CreateVideoSIPGWSession, IInv
<1>11. ASSUME NEW b \in Address, ~calls'[b].astray, ~calls[b].astray => Ringing(b)
       PROVE  Ringing(b)' /\ gateway'.sessions[b] = gateway.sessions[b]
  <2>1. b # a
    BY <1>2, <1>7, <1>11 DEF Ringing
  <2>2. QED
    BY <1>4, <1>7, <1>11, <2>1 DEF Ringing
<1>12. focus' = focus /\ down' = down /\ up' = up
  BY DEF CreateVideoSIPGWSession
<1>13. ASSUME NEW i \in DOMAIN up, up[i].kind = "call", ~calls'[up[i].id].astray
       PROVE  Ringing(up[i].id)'
  <2>1. up[i].id \in Address
    BY <1>1, <1>13, RequestKinds
  <2>2. ~calls[up[i].id].astray => Ringing(up[i].id)
    BY <1>13 DEF IInv, CallsOK
  <2>3. gateway'.sessions[up[i].id].status # Absent /\ calls'[up[i].id].started
    BY <1>11, <1>13, <2>1, <2>2 DEF Ringing
  <2>4. QED
    BY <1>12, <2>3 DEF Ringing
<1>14. ASSUME focus.sip.status \in Active, ~calls'[focus.sip.id].astray
       PROVE  /\ Ringing(focus.sip.id)'
              /\ Silent(down) => gateway'.sessions[focus.sip.id].status = focus.sip.status
  <2>1. focus.sip.id \in Address
    BY <1>1, <1>14, RecTypes
  <2>2. ~calls[focus.sip.id].astray =>
          /\ Ringing(focus.sip.id)
          /\ Silent(down) => gateway.sessions[focus.sip.id].status = focus.sip.status
    BY <1>14 DEF IInv, CallsOK
  <2>3. ~calls[focus.sip.id].astray /\ gateway'.sessions[focus.sip.id] = gateway.sessions[focus.sip.id]
    BY <1>2, <1>4, <1>7, <1>14, <2>1, <2>2 DEF Ringing
  <2>4. gateway'.sessions[focus.sip.id].status # Absent /\ calls'[focus.sip.id].started
    BY <1>11, <1>14, <2>1, <2>2 DEF Ringing
  <2>5. QED
    BY <1>12, <2>2, <2>3, <2>4 DEF Ringing
<1>15. LastTells(down, focus.sip)'
  BY <1>12 DEF IInv, CallsOK
<1>16. CallsOK'
  BY <1>12, <1>13, <1>14, <1>15 DEF CallsOK
<1>17. QED
  BY <1>8, <1>10, <1>16 DEF IInv

-------------------------------------------------------------------------------
(* What the client receives. *)

LEMMA HandlesState ==
  ASSUME NEW g \in Gateway, NEW a \in Address,
         NEW state \in {"pending", "on", "retrying", "off", "failed"}
  PROVE  LET n == SetState(g, a, state) IN
         /\ n \in Gateway
         /\ \A b \in Address \ {a} : n.sessions[b] = g.sessions[b]
         /\ state \notin Gone => n.sessions[a].status = state
<1> DEFINE s == [status |-> state, error |-> FALSE]
           t == Updated(g, a, s)
           n == SetState(g, a, state)
<1>1. s \in [status : CallStatus, error : BOOLEAN] /\ s.status = state
  BY DEF CallStatus
<1>2. NoSession \in [status : CallStatus, error : BOOLEAN]
  BY DEF CallStatus, NoSession
<1>3. n = IF g.sessions[a].status = state THEN g
          ELSE IF state \in Gone THEN [t EXCEPT !.sessions[a] = NoSession] ELSE t
  BY DEF SetState
<1> HIDE DEF s, n
<1>4. t \in Gateway /\ t.sessions[a] = s /\ \A b \in Address \ {a} : t.sessions[b] = g.sessions[b]
  BY <1>1 DEF Updated, Gateway
<1> HIDE DEF t
<1> DEFINE r == [t EXCEPT !.sessions[a] = NoSession]
<1>5. r \in Gateway /\ \A b \in Address \ {a} : r.sessions[b] = g.sessions[b]
  BY <1>2, <1>4 DEF Gateway
<1>6. n = IF g.sessions[a].status = state THEN g ELSE IF state \in Gone THEN r ELSE t
  BY <1>3
<1> HIDE DEF r
<1>7. /\ n \in Gateway
      /\ \A b \in Address \ {a} : n.sessions[b] = g.sessions[b]
      /\ state \notin Gone => n.sessions[a].status = state
  BY <1>1, <1>4, <1>5, <1>6
<1>8. QED
  BY <1>7 DEF n

(* The session of a call is not lost while somebody waits for the call,    *)
(* unless it goes astray.                                                  *)
Due(a) == \/ focus.sip.status \in Active /\ focus.sip.id = a
          \/ \E i \in DOMAIN up : up[i].kind = "call" /\ up[i].id = a

LEMMA DueRings ==
  ASSUME IInv, NEW a \in Address, Due(a), ~calls[a].astray
  PROVE  Ringing(a)
  BY DEF Due, IInv, CallsOK

LEMMA EndsCall ==
  ASSUME IInv, NEW a \in Address, NEW ended \in BOOLEAN, Ends(a, ended)
  PROVE  /\ calls' \in [Address -> [made : Nat, started : BOOLEAN, astray : BOOLEAN]]
         /\ \A b \in Address : Due(b) /\ ~calls'[b].astray =>
              /\ ~calls[b].astray /\ calls'[b] = calls[b] /\ (b = a => ~ended)
<1>1. calls \in [Address -> [made : Nat, started : BOOLEAN, astray : BOOLEAN]]
  BY DEF IInv, TypeOK
<1>2. ASSUME Due(a), ~calls[a].astray, ended
      PROVE  Calling(a)
  <2>1. calls[a].started
    BY <1>2, DueRings DEF Ringing
  <2>2. QED
    BY <1>2, <2>1 DEF Due, Calling
<1>3. CASE ended /\ Calling(a)
  <2>1. calls' = [calls EXCEPT ![a].astray = TRUE]
    BY <1>3 DEF Ends
  <2>2. /\ calls' \in [Address -> [made : Nat, started : BOOLEAN, astray : BOOLEAN]]
        /\ calls'[a].astray
        /\ \A b \in Address \ {a} : calls'[b] = calls[b]
    BY <1>1, <2>1
  <2>3. QED
    BY <2>2
<1>4. CASE ~(ended /\ Calling(a))
  BY <1>1, <1>2, <1>4 DEF Ends
<1>5. QED
  BY <1>3, <1>4

Tells(b) == Head(down).kind = "focus" /\ Head(down).sip # Nothing /\ Head(down).sip.id = b

(* What is left of the calls when no session of one that is due is lost.   *)
LEMMA CallsReceived ==
  ASSUME IInv, down # <<>>, UNCHANGED <<focus, up>>, down' = Tail(down),
         \A b \in Address : Due(b) /\ ~calls'[b].astray =>
           /\ ~calls[b].astray /\ calls'[b].started = calls[b].started
           /\ Tells(b) => /\ gateway'.sessions[b].status # Absent
                          /\ gateway'.sessions[b].status = Head(down).sip.status
           /\ ~Tells(b) => gateway'.sessions[b] = gateway.sessions[b]
  PROVE  CallsOK'
<1>1. focus \in Focus /\ up \in Seq(Request) /\ down \in Seq(Message) /\ LastTells(down, focus.sip)
  BY Parts
<1>2. /\ LastTells(Tail(down), focus.sip)
      /\ Silent(Tail(down)) => Silent(down) \/ (Head(down).kind = "focus" /\ Head(down).sip = focus.sip)
  BY <1>1, HeadReceived
<1>3. ASSUME NEW b \in Address, Due(b), ~calls'[b].astray
      PROVE  Ringing(b) /\ gateway'.sessions[b].status # Absent /\ calls'[b].started
  BY <1>3, DueRings DEF Ringing
<1>4. ASSUME NEW i \in DOMAIN up, up[i].kind = "call", ~calls'[up[i].id].astray
      PROVE  gateway'.sessions[up[i].id].status # Absent /\ calls'[up[i].id].started
  <2>1. up[i].id \in Address
    BY <1>1, <1>4, RequestKinds
  <2>2. Due(up[i].id)
    BY <1>4 DEF Due
  <2>3. QED
    BY <1>3, <1>4, <2>1, <2>2
<1>5. ASSUME focus.sip.status \in Active, ~calls'[focus.sip.id].astray
      PROVE  /\ gateway'.sessions[focus.sip.id].status # Absent /\ calls'[focus.sip.id].started
             /\ Silent(Tail(down)) => gateway'.sessions[focus.sip.id].status = focus.sip.status
  <2>1. focus.sip.id \in Address /\ Due(focus.sip.id)
    BY <1>1, <1>5, RecTypes DEF Due
  <2>2. gateway'.sessions[focus.sip.id].status # Absent /\ calls'[focus.sip.id].started
    BY <1>3, <1>5, <2>1
  <2>3. CASE Silent(down)
    <3>1. Head(down).kind # "focus"
      BY <1>1, <2>3 DEF Silent
    <3>2. gateway'.sessions[focus.sip.id] = gateway.sessions[focus.sip.id] /\ ~calls[focus.sip.id].astray
      BY <1>5, <2>1, <3>1 DEF Tells
    <3>3. gateway.sessions[focus.sip.id].status = focus.sip.status
      BY <1>5, <2>3, <3>2 DEF IInv, CallsOK
    <3>4. QED
      BY <2>2, <3>2, <3>3
  <2>4. CASE Head(down).kind = "focus" /\ Head(down).sip = focus.sip
    <3>1. gateway'.sessions[focus.sip.id].status = focus.sip.status
      BY <1>1, <1>5, <2>1, <2>4, RecTypes DEF Tells
    <3>2. QED
      BY <2>2, <3>1
  <2>5. QED
    BY <1>2, <2>2, <2>3, <2>4
<1>6. focus' = focus /\ up' = up /\ down' = Tail(down)
  OBVIOUS
<1>7. \A i \in DOMAIN up' : up'[i].kind = "call" /\ ~calls'[up'[i].id].astray =>
        gateway'.sessions[up'[i].id].status # Absent /\ calls'[up'[i].id].started
  BY <1>4, <1>6
<1>8. QED
  BY <1>2, <1>5, <1>6, <1>7 DEF CallsOK, Ringing

(* The recordings and the moderation are what was foreseen.                *)
LEMMA Knows ==
  ASSUME IInv, Receive
  PROVE  Now' = After(Now, Head(down))
<1> DEFINE msg == Head(down)
<1>1. msg \in Message
  BY Parts DEF Receive
<1>2. Now.recording = recording /\ Now.moderation = moderation
  BY DEF Now
<1>3. CASE msg.kind = "focus"
  <2>1. OnPresence(msg)
    BY <1>3 DEF Receive
  <2>2. /\ recording' = IF msg.rec = Nothing THEN recording ELSE HandleFocusPresence(recording, msg.rec)
        /\ moderation' = moderation
    BY <2>1 DEF OnPresence
  <2>3. QED
    BY <1>2, <1>3, <2>2 DEF Now, After, AfterRecording, AfterModeration
<1>4. CASE msg.kind = "sipError"
  <2>1. recording' = recording /\ moderation' = moderation
    BY <1>4 DEF Receive, RequestFailed
  <2>2. QED
    BY <1>2, <1>4, <2>1 DEF Now, After, AfterRecording, AfterModeration
<1>5. CASE msg.kind = "result"
  <2>1. recording' = Started(recording, msg.id) /\ moderation' = moderation
    BY <1>5 DEF Receive
  <2>2. QED
    BY <1>2, <1>5, <2>1 DEF Now, After, AfterRecording, AfterModeration
<1>6. CASE msg.kind = "refused"
  <2>1. recording' = recording /\ moderation' = moderation
    BY <1>6 DEF Receive, client
  <2>2. QED
    BY <1>2, <1>6, <2>1 DEF Now, After, AfterRecording, AfterModeration
<1>7. CASE msg.kind = "jibri"
  <2>1. recording' = HandleJibriPresence(recording, msg.id) /\ moderation' = moderation
    BY <1>7 DEF Receive
  <2>2. QED
    BY <1>2, <1>7, <2>1 DEF Now, After, AfterRecording, AfterModeration
<1>8. CASE msg.kind \in {"enabled", "approved", "removed", "whitelist"}
  <2>1. recording' = recording /\ moderation' = OnMessage(moderation, msg)
    BY <1>8 DEF Receive
  <2>2. QED
    BY <1>2, <1>8, <2>1 DEF Now, After, AfterRecording, AfterModeration
<1>9. QED
  BY <1>1, <1>3, <1>4, <1>5, <1>6, <1>7, <1>8, MessageKinds

LEMMA Receives ==
  ASSUME IInv, Receive
  PROVE  IInv'
<1> DEFINE msg == Head(down)
<1>1. /\ TypeOK /\ Now \in Known /\ down \in Seq(Message) /\ down # <<>> /\ msg \in Message
      /\ gateway \in Gateway
      /\ calls \in [Address -> [made : Nat, started : BOOLEAN, astray : BOOLEAN]]
  BY Parts DEF Receive, IInv, TypeOK
<1>2. UNCHANGED <<focus, component, up, lost, acts, others, restarts>> /\ down' = Tail(down)
  BY DEF Receive, counters
<1>3. Now' \in Known
  BY <1>1, Knows, AfterType
<1>4. recording' \in Manager /\ moderation' \in Moderation
  BY <1>3 DEF Now, Known
<1>5. Leads(Now', Tail(down), focus, lost, component)
  BY <1>1, <1>2, Knows, ForeseenTail DEF IInv, Leads
<1>6. /\ gateway' \in Gateway
      /\ calls' \in [Address -> [made : Nat, started : BOOLEAN, astray : BOOLEAN]]
      /\ CallsOK'
  <2>1. ASSUME UNCHANGED <<gateway, calls>>, msg.kind = "focus" => msg.sip = Nothing
        PROVE  /\ gateway' \in Gateway
               /\ calls' \in [Address -> [made : Nat, started : BOOLEAN, astray : BOOLEAN]]
               /\ CallsOK'
    <3>1. \A b : ~Tells(b)
      BY <2>1 DEF Tells
    <3>2. QED
      BY <1>1, <1>2, <2>1, <3>1, CallsReceived
  <2>2. CASE msg.kind = "focus" /\ msg.sip = Nothing
    BY <2>1, <2>2 DEF Receive, OnPresence
  <2>3. CASE msg.kind = "focus" /\ msg.sip # Nothing
    <3> DEFINE a == msg.sip.id
               state == msg.sip.status
               ended == state \in {"off", "failed"}
    <3>1. a \in Address /\ state \in {"pending", "on", "retrying", "off", "failed"} /\ ended \in BOOLEAN
      BY <1>1, <2>3, MessageKinds DEF Sip
    <3>2. OnPresence(msg)
      BY <2>3 DEF Receive
    <3>3. gateway' = HandleJibriSIPState(gateway, msg.sip) /\ Ends(a, ended)
      BY <2>3, <3>2 DEF OnPresence
    <3>4. gateway' = IF gateway.sessions[a].status # Absent THEN SetState(gateway, a, state) ELSE gateway
      BY <3>3 DEF HandleJibriSIPState, Has
    <3>5. \A b : Tells(b) <=> b = a
      BY <2>3 DEF Tells
    <3>6. Head(down).sip.status = state
      OBVIOUS
    <3>7. state # Absent /\ (~ended => state \notin Gone)
      BY <3>1 DEF Absent, Gone
    <3> HIDE DEF a, state, ended
    <3>8. /\ gateway' \in Gateway
          /\ \A b \in Address \ {a} : gateway'.sessions[b] = gateway.sessions[b]
          /\ ~ended /\ gateway.sessions[a].status # Absent => gateway'.sessions[a].status = state
      <4> DEFINE n == SetState(gateway, a, state)
      <4>1. /\ n \in Gateway
            /\ \A b \in Address \ {a} : n.sessions[b] = gateway.sessions[b]
            /\ state \notin Gone => n.sessions[a].status = state
        BY <1>1, <3>1, HandlesState
      <4>2. gateway' = IF gateway.sessions[a].status # Absent THEN n ELSE gateway
        BY <3>4
      <4> HIDE DEF n
      <4>3. QED
        BY <1>1, <3>1, <3>7, <4>1, <4>2
    <3>9. /\ calls' \in [Address -> [made : Nat, started : BOOLEAN, astray : BOOLEAN]]
          /\ \A b \in Address : Due(b) /\ ~calls'[b].astray =>
               /\ ~calls[b].astray /\ calls'[b] = calls[b] /\ (b = a => ~ended)
      BY <3>1, <3>3, EndsCall
    <3>10. ASSUME NEW b \in Address, Due(b), ~calls'[b].astray
           PROVE  /\ ~calls[b].astray /\ calls'[b].started = calls[b].started
                  /\ Tells(b) => /\ gateway'.sessions[b].status # Absent
                                 /\ gateway'.sessions[b].status = Head(down).sip.status
                  /\ ~Tells(b) => gateway'.sessions[b] = gateway.sessions[b]
      <4>1. ~calls[b].astray /\ calls'[b] = calls[b] /\ (b = a => ~ended)
        BY <3>9, <3>10
      <4>2. gateway.sessions[b].status # Absent
        BY <3>10, <4>1, DueRings DEF Ringing
      <4>3. QED
        BY <3>5, <3>6, <3>7, <3>8, <4>1, <4>2
    <3>11. CallsOK'
      BY <1>1, <1>2, <3>10, CallsReceived
    <3>12. QED
      BY <3>8, <3>9, <3>11
  <2>4. CASE msg.kind = "sipError"
    <3>1. RequestFailed(msg) /\ msg.id \in Address
      BY <1>1, <2>4, MessageKinds DEF Receive
    <3>2. CASE Has(gateway, msg.id) /\ calls[msg.id].made = msg.session
      <4> DEFINE a == msg.id
                 ended == TRUE
      <4>1. gateway' = SetState(gateway, a, "failed") /\ Ends(a, ended) /\ a \in Address
        BY <3>1, <3>2 DEF RequestFailed
      <4> HIDE DEF a
      <4>2. /\ gateway' \in Gateway
            /\ \A b \in Address \ {a} : gateway'.sessions[b] = gateway.sessions[b]
        <5> DEFINE n == SetState(gateway, a, "failed")
        <5>1. n \in Gateway /\ \A b \in Address \ {a} : n.sessions[b] = gateway.sessions[b]
          BY <1>1, <4>1, HandlesState
        <5>2. QED
          BY <4>1, <5>1
      <4>3. /\ calls' \in [Address -> [made : Nat, started : BOOLEAN, astray : BOOLEAN]]
            /\ \A b \in Address : Due(b) /\ ~calls'[b].astray =>
                 /\ ~calls[b].astray /\ calls'[b] = calls[b] /\ b # a
        BY <4>1, EndsCall
      <4>4. \A b : ~Tells(b)
        BY <2>4 DEF Tells
      <4>5. CallsOK'
        BY <1>1, <1>2, <4>2, <4>3, <4>4, CallsReceived
      <4>6. QED
        BY <4>2, <4>3, <4>5
    <3>3. CASE ~(Has(gateway, msg.id) /\ calls[msg.id].made = msg.session)
      BY <2>1, <2>4, <3>1, <3>3 DEF RequestFailed
    <3>4. QED
      BY <3>2, <3>3
  <2>5. CASE msg.kind \in {"result", "refused", "jibri", "enabled", "approved", "removed", "whitelist"}
    <3>1. UNCHANGED <<gateway, calls>>
      BY <2>5 DEF Receive, client
    <3>2. QED
      BY <2>1, <2>5, <3>1
  <2>6. QED
    BY <1>1, <2>2, <2>3, <2>4, <2>5, MessageKinds
<1>7. TypeOK'
  BY <1>1, <1>2, <1>4, <1>6 DEF TypeOK
<1>8. Numbered(focus, lost)' /\ Leads(Now, down, focus, lost, component)'
  BY <1>2, <1>5 DEF IInv
<1>9. QED
  BY <1>6, <1>7, <1>8 DEF IInv

-------------------------------------------------------------------------------
(* The invariant. *)

LEMMA Starts ==
  ASSUME Init
  PROVE  IInv
<1>1. PICK rec \in {Nothing} \cup [id : {1} \cap Recordings, status : {"on", "off"}, error : {FALSE}] :
        /\ focus = [rec |-> rec, sip |-> Nothing, made |-> rec.id, unanswered |-> {}]
        /\ down = <<[kind |-> "focus", rec |-> rec, sip |-> Nothing]>>
  BY DEF Init
<1>2. /\ rec \in Rec /\ rec.id \in 0..MaxRecordings
      /\ rec # Nothing => rec.status \in {"on", "off"} /\ rec.id \in Recordings
  <2>1. MaxRecordings \in Nat
    BY ServiceBoundsAssumption
  <2>2. CASE rec = Nothing
    BY <2>1, <2>2 DEF Rec, Nothing
  <2>3. CASE rec \in [id : {1} \cap Recordings, status : {"on", "off"}, error : {FALSE}]
    <3>1. rec.id \in Recordings /\ rec.status \in {"on", "off"} /\ rec.error = FALSE
      BY <2>3
    <3>2. rec.id \in 0..MaxRecordings
      BY <2>1, <3>1 DEF Recordings
    <3>3. rec \in [id : Recordings, status : {"pending", "on", "off"}, error : BOOLEAN]
      BY <2>3, <3>1
    <3>4. QED
      BY <3>1, <3>2, <3>3 DEF Rec
  <2>4. QED
    BY <1>1, <2>2, <2>3
<1> DEFINE f == [rec |-> rec, sip |-> Nothing, made |-> rec.id, unanswered |-> {}]
           msg == Presence(f)
<1>3. /\ f \in Focus /\ f.rec = rec /\ f.made = rec.id /\ f.unanswered = {} /\ f.sip = Nothing
  BY <1>2 DEF Focus, Sip
<1>4. msg = [kind |-> "focus", rec |-> rec, sip |-> Nothing]
  BY DEF Presence
<1>5. focus = f /\ down = Append(<<>>, msg)
  BY <1>1, <1>4
<1>6. /\ msg \in Message /\ msg.kind = "focus" /\ msg.rec = rec /\ msg.sip = Nothing
  BY <1>3, PresenceMessage
<1> HIDE DEF f, msg
<1>7. /\ recording \in Manager /\ gateway \in Gateway /\ moderation \in Moderation
      /\ \A r \in Recordings : recording.sessions[r].status = Absent /\ recording.told[r] = Absent
  BY DEF Init, Manager, Gateway, Moderation, NoSession, NoModeration, RecordingStatus, CallStatus
<1>8. down \in Seq(Message)
  BY <1>5, <1>6
<1>9. TypeOK
  <2>1. calls \in [Address -> [made : Nat, started : BOOLEAN, astray : BOOLEAN]]
    BY DEF Init
  <2>2. component \in Component /\ up \in Seq(Request) /\ lost \in SUBSET Recordings
    BY DEF Init, Component
  <2>3. acts \in Nat /\ others \in Nat /\ restarts \in Nat
    BY DEF Init
  <2>4. QED
    BY <1>3, <1>5, <1>7, <1>8, <2>1, <2>2, <2>3 DEF TypeOK
<1>10. Numbered(focus, lost)
  BY <1>2, <1>3, <1>5 DEF Init, Numbered, Recordings
<1> DEFINE m == AfterRecording(recording, msg)
<1>11. RecordingsAgree(m, focus, lost)
  <2>1. CASE rec = Nothing
    <3>1. m = recording
      BY <1>6, <2>1 DEF AfterRecording
    <3>2. QED
      BY <1>3, <1>5, <1>7, <2>1, <3>1 DEF RecordingsAgree
  <2>2. CASE rec # Nothing
    <3>1. m = HandleFocusPresence(recording, rec)
      BY <1>6, <2>2 DEF AfterRecording
    <3>2. /\ \A r \in Recordings \ {rec.id} : m.sessions[r] = recording.sessions[r] /\ m.told[r] = recording.told[r]
          /\ recording.told[rec.id] = recording.sessions[rec.id].status => m.told[rec.id] = m.sessions[rec.id].status
          /\ \/ m.sessions[rec.id].status = rec.status
             \/ rec.status = "off" /\ recording.sessions[rec.id].status = Absent /\ m = recording
      BY <1>2, <1>7, <2>2, <3>1, HandlesPresence
    <3> HIDE DEF m
    <3>3. ASSUME NEW r \in Recordings
          PROVE  /\ m.told[r] = m.sessions[r].status
                 /\ IF rec.id = r THEN m.sessions[r].status = rec.status
                                       \/ (rec.status = "off" /\ m.sessions[r].status = Absent)
                    ELSE m.sessions[r].status = Absent
      BY <1>2, <1>7, <2>2, <3>2
    <3>4. \A r \in Recordings : r > rec.id => r # rec.id
      BY <1>2 DEF Recordings
    <3>5. QED
      BY <1>3, <1>5, <2>2, <3>3, <3>4 DEF RecordingsAgree
  <2>3. QED
    BY <2>1, <2>2
<1> HIDE DEF m
<1>12. AfterModeration(moderation, msg) = moderation /\ ModerationAgrees(moderation, component)
  BY <1>6 DEF AfterModeration, ModerationAgrees, Init, NoModeration
<1>13. Leads(Now, down, focus, lost, component)
  <2>1. Now \in Known /\ Now.recording = recording /\ Now.moderation = moderation
    BY <1>9, NowKnown
  <2>2. Foreseen(Now, <<>>, Now)
    BY <2>1, ForeseenNow
  <2>3. <<>> \in Seq(Message)
    OBVIOUS
  <2>4. RecordingsAgree(AfterRecording(Now.recording, msg), focus, lost)
    BY <1>11, <2>1 DEF m
  <2>5. ModerationAgrees(AfterModeration(Now.moderation, msg), component)
    BY <1>12, <2>1
  <2>6. Leads(Now, Append(<<>>, msg), focus, lost, component)
    BY <1>6, <2>1, <2>2, <2>3, <2>4, <2>5, LeadsOn
  <2>7. QED
    BY <1>5, <2>6
<1>14. CallsOK
  <2>1. LastTells(Append(<<>>, msg), msg.sip)
    <3>1. <<>> \in Seq(Message)
      OBVIOUS
    <3>2. QED
      BY <1>6, <3>1, PresenceAppended
  <2>2. focus.sip.status \notin Active
    BY <1>3, <1>5 DEF Nothing, Active
  <2>3. DOMAIN up = {}
    BY DEF Init
  <2>4. LastTells(down, focus.sip)
    BY <1>3, <1>5, <1>6, <2>1
  <2>5. QED
    BY <2>2, <2>3, <2>4 DEF CallsOK
<1>15. QED
  BY <1>9, <1>10, <1>13, <1>14 DEF IInv

LEMMA Idles ==
  ASSUME IInv, UNCHANGED vars
  PROVE  IInv'
<1>1. UNCHANGED <<client, lost, component, focus, down>> /\ Served
  BY DEF vars, client, Served
<1>2. acts' \in Nat /\ others' \in Nat /\ restarts' \in Nat
  BY Parts DEF vars, counters
<1>3. QED
  BY <1>1, <1>2, ToldNothing

(* The invariant: the messages under way bring the client's recordings and *)
(* moderation to what the focus and the component have, and every call     *)
(* that is due has its session.                                            *)
THEOREM Inductive == Spec => []IInv
<1>1. Init => IInv
  BY Starts
<1>2. IInv /\ [Next]_vars => IInv'
  <2> SUFFICES ASSUME IInv, [Next]_vars
               PROVE  IInv'
    OBVIOUS
  <2>1. CASE StartRecording
    BY <2>1, ApplicationAsks
  <2>2. CASE ServeRequest
    BY <2>2, RequestIsServed
  <2>3. CASE RecordingChanges
    BY <2>3, RecordingGoesOn
  <2>4. CASE JibriPresence
    BY <2>4, JibriTells
  <2>5. CASE CallChanges
    BY <2>5, CallsChange
  <2>6. CASE OthersAct
    BY <2>6, OthersActToo
  <2>7. CASE FocusRestart
    BY <2>7, Restarts
  <2>8. CASE Receive
    BY <2>8, Receives
  <2>9. ASSUME NEW r \in Recordings, StopRecording(r) \/ AnswerLate(r)
        PROVE  IInv'
    BY <2>9, ApplicationAsks, AnswersLate
  <2>10. ASSUME NEW a \in Address, CreateVideoSIPGWSession(a) \/ StartCall(a) \/ StopCall(a)
         PROVE  IInv'
    BY <2>10, ApplicationAsks, CallIsStarted, SessionIsMade
  <2>11. CASE \E on \in BOOLEAN : EnableAVModeration(on)
    BY <2>11, ApplicationAsks
  <2>12. CASE \E p \in Person : AvModerationApprove(p) \/ AvModerationReject(p)
    BY <2>12, ApplicationAsks
  <2>13. CASE UNCHANGED vars
    BY <2>13, Idles
  <2>14. QED
    BY <2>1, <2>2, <2>3, <2>4, <2>5, <2>6, <2>7, <2>8, <2>9, <2>10, <2>11, <2>12, <2>13 DEF Next
<1>3. QED
  BY <1>1, <1>2, PTL DEF Spec

(* The fields of the RecordingManager, of VideoSIPGW and of AVModeration,  *)
(* and the messages they exchange with their services, keep their types.   *)
THEOREM TypeCorrect == Spec => []TypeOK
<1>1. IInv => TypeOK
  BY DEF IInv
<1>2. QED
  BY <1>1, Inductive, PTL

LEMMA AllReceived ==
  ASSUME IInv, Quiet
  PROVE  RecordingsAgree(recording, focus, lost) /\ ModerationAgrees(moderation, component)
<1>1. PICK z \in Known : /\ Foreseen(Now, <<>>, z) /\ RecordingsAgree(z.recording, focus, lost)
                         /\ ModerationAgrees(z.moderation, component)
  BY DEF IInv, Leads, Quiet
<1>2. z = Now
  BY <1>1, Parts, NothingForeseen
<1>3. QED
  BY <1>1, <1>2 DEF Now

(* The recordings a RecordingManager shows, by startRecording's answer, by *)
(* _handleFocusPresence and by _handleJibriPresence, end up being those of *)
(* the focus, whatever order they came in (RecordingShown).                *)
THEOREM RecordingIsShown == Spec => []RecordingShown
<1>1. IInv => RecordingShown
  <2> SUFFICES ASSUME IInv, Quiet, NEW r \in Recordings
               PROVE  LET shown == recording.told[r]
                      IN  /\ shown = recording.sessions[r].status
                          /\ IF focus.rec.id = r
                               THEN shown \in {focus.rec.status} \cup IF focus.rec.status = "off" THEN {Absent} ELSE {}
                               ELSE shown \in {Absent, "off"} \/ r \in lost
    BY DEF RecordingShown
  <2>1. RecordingsAgree(recording, focus, lost)
    BY AllReceived
  <2>2. focus.rec.id = r => focus.rec # Nothing
    BY DEF Nothing, Recordings
  <2>3. QED
    BY <2>1, <2>2 DEF RecordingsAgree
<1>2. QED
  BY <1>1, Inductive, PTL

(* A SIP call in progress has a session of VideoSIPGW in its state, unless *)
(* the session was ended by news of another call (CallHasSession).         *)
THEOREM CallsHaveSessions == Spec => []CallHasSession
<1>1. IInv => CallHasSession
  BY DEF IInv, CallsOK, CallHasSession, Quiet, Silent
<1>2. QED
  BY <1>1, Inductive, PTL

(* What AVModeration told the application of moderation and of who may     *)
(* unmute is what the component has, but for the list kept from an earlier *)
(* moderation (ApprovalsShown).                                            *)
THEOREM ApprovalsAreShown == Spec => []ApprovalsShown
<1>1. IInv => ApprovalsShown
  BY AllReceived DEF ApprovalsShown, ModerationAgrees
<1>2. QED
  BY <1>1, Inductive, PTL

===============================================================================
