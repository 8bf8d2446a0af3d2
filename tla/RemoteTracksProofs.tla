--------------------------- MODULE RemoteTracksProofs ---------------------------
(***************************************************************************)
(* Proofs about RemoteTracks, for any owners, any number of changes and    *)
(* any timeouts.                                                           *)
(*                                                                         *)
(* The tracks of a session are those of the described sources but for the  *)
(* one the browser is telling of (Matches), a source taken back has its    *)
(* removal queued behind its addition (TakenBack), and what is shown are   *)
(* the tracks of the active session.  A detector that has figured out its  *)
(* status has the status of now, or looks again, or overlooks a frozen     *)
(* video (Tells); one that is not needed has no timers.                    *)
(***************************************************************************)
EXTENDS RemoteTracks, TLAPS

(* The values of the variables.                                            *)
OwnerPresence == [place : {"out", "in", "gone"}, muted : BOOLEAN, modern : BOOLEAN,
                  source : {"none", "added", "removed"}, changes : 0..Changes]
Event == {NoEvent} \cup [kind : {"added", "removed"}, owner : Owner]
SessionState == [described : SUBSET Owner, tasks : Seq(Task), event : Event, tracks : SUBSET Owner]
TrackState == [muted : BOOLEAN, dry : BOOLEAN, asked : BOOLEAN]
Bridge == [forwarded : [Owner -> {"all", "in", "out"}], dead : SUBSET Owner]

Types ==
  /\ names \in BOOLEAN /\ audioOnly \in BOOLEAN
  /\ presence \in [Owner -> OwnerPresence]
  /\ sources \in [Owner -> {"none", "muted", "unmuted"}]
  /\ ses \in [Session -> SessionState]
  /\ track \in [Session -> [Owner -> TrackState]]
  /\ shown \subseteq Session \X Owner
  /\ p2p \in {"none", "starting", "active"}
  /\ bridge \in Bridge
  /\ det \in [Key -> Detector]

(* The tracks of the session x are those of its sources, of participants   *)
(* M, but for the one that comes or goes.                                  *)
Matches(x, M) ==
  /\ x.event = NoEvent => x.tracks \subseteq x.described /\ x.described \cap M \subseteq x.tracks
  /\ x.event # NoEvent =>
       LET o == x.event.owner IN
       /\ x.tasks # <<>> /\ o = Head(x.tasks).owner
       /\ x.event.kind = "added" =>
            /\ Head(x.tasks).op = "add" /\ o \in x.described /\ o \notin x.tracks
            /\ x.tracks \subseteq x.described /\ x.described \cap M \subseteq x.tracks \cup {o}
       /\ x.event.kind = "removed" =>
            /\ o \notin x.described
            /\ x.tracks \subseteq x.described \cup {o} /\ x.described \cap M \subseteq x.tracks

(* The session x has nothing of the owner o.                               *)
Without(x, o) ==
  /\ o \notin x.described /\ o \notin x.tracks
  /\ \A i \in DOMAIN x.tasks : x.tasks[i].owner # o

Adds(task, o) == task.op = "add" /\ task.owner = o

(* The source of o is not described, or its removal is queued, with no     *)
(* addition after it.                                                      *)
TakenBack(x, o) ==
  \E i \in 0..Len(x.tasks) :
    /\ i = 0 => o \notin x.described
    /\ i # 0 => x.tasks[i].op = "remove" /\ x.tasks[i].owner = o
    /\ \A j \in 1..Len(x.tasks) : j > i => ~Adds(x.tasks[j], o)

NotAdded(x, o) ==
  o \notin x.described /\ \A i \in DOMAIN x.tasks : x.tasks[i].owner = o => x.tasks[i].op = "leave"

SessionsOK ==
  /\ \A s \in Session : Matches(ses[s], member)
  /\ \A s \in Session, o \in Owner : presence[o].place = "out" => Without(ses[s], o)
  /\ \A o \in Owner : /\ presence[o].place = "out" => presence[o].source = "none"
                      /\ presence[o].source = "none" => NotAdded(ses["jvb"], o)
                      /\ presence[o].source = "removed" => TakenBack(ses["jvb"], o)
  /\ p2p = "none" => ses["p2p"] = NewSession
  /\ p2p # "none" => \E o \in Owner : member = {o}

Active(s) == s = "p2p" <=> p2p = "active"

ShownOK ==
  /\ \A s \in Session, o \in Owner :
       <<s, o>> \in shown <=> o \in member /\ o \in ses[s].tracks /\ Active(s)
  /\ \A s \in Session, o \in Owner : track[s][o].asked => <<s, o>> \in shown

MutesOK ==
  /\ \A o \in member : SendsSourceInfo(o) => sources[o] = SourceInfo(presence[o].muted)
  /\ MutedAsTold

(* What may be said of a detector d that has figured out its status, and   *)
(* that looks at v.                                                        *)
Tells(d, v) ==
  d.figured =>
    /\ d.status = "restoring" => d.restoringTimer # Off
    /\ \/ d.trackTimer # Off
       \/ d.status = "restoring"
       \/ d.status = StatusNow(d, v)
       \/ d.status = "active" /\ Frozen(d, v) /\ (v.p2p \/ v.bridgeOk)

(* A detector that is needed tells its status, one that is not has no      *)
(* timers, and that of an owner yet to join never figured one out.         *)
StatusAt(k) ==
  /\ k \in Watched => Tells(det[k], View(k))
  /\ names /\ k \notin Watched => ~det[k].figured /\ ~Pending(det[k])
  /\ ~names /\ presence[k[2]].place = "out" => ~det[k].figured
  /\ bridge.forwarded[k[2]] = "all" => det[k].enteredFor = Off

StatusOK == \A k \in Key : StatusAt(k)

IInv == Types /\ SessionsOK /\ ShownOK /\ MutesOK /\ StatusOK

-----------------------------------------------------------------------------
(***************************************************************************)
(* The detectors of VideoStatus.                                           *)
(***************************************************************************)

(* What a detector looks at.                                               *)
Sight == [p2p : BOOLEAN, audioOnly : BOOLEAN, muted : BOOLEAN, dry : BOOLEAN,
          forwarded : BOOLEAN, bridgeOk : BOOLEAN]

(* The timeouts are positive, and none is above the longest.               *)
LEMMA Timeouts ==
  /\ {OutTimeout, P2PTimeout, InTimeout, RestoringTimeout} \subseteq 1..Longest
  /\ Longest \in Nat
  /\ OutTimeout <= P2PTimeout /\ P2PTimeout <= InTimeout
<1>1. Longest \in {InTimeout, RestoringTimeout} /\ Longest >= InTimeout /\ Longest >= RestoringTimeout
  <2> DEFINE S == {InTimeout, RestoringTimeout}
  <2>1. \E x \in S : \A y \in S : x >= y
    BY VideoStatusAssumption
  <2>2. Max(S) \in S /\ \A y \in S : Max(S) >= y
    BY <2>1 DEF Max
  <2> QED BY <2>2 DEF Longest
<1> QED BY <1>1, VideoStatusAssumption

(* What Older does to an age.                                              *)
LEMMA MinOf ==
  ASSUME NEW a \in Int, NEW b \in Int
  PROVE  Min({a, b}) = IF a <= b THEN a ELSE b
<1>1. \E x \in {a, b} : \A y \in {a, b} : x <= y
  OBVIOUS
<1>2. Min({a, b}) \in {a, b} /\ \A y \in {a, b} : Min({a, b}) <= y
  BY <1>1 DEF Min
<1> QED BY <1>2

LEMMA FrozenTimeoutType ==
  ASSUME NEW v \in Sight
  PROVE  FrozenTimeout(v) \in 1..Longest
BY Timeouts DEF FrozenTimeout, Sight

(* A status depends on the time of a detector, and on what it looks at.    *)
LEMMA StatusNowOf ==
  ASSUME NEW d, NEW v \in Sight
  PROVE  /\ StatusNow(d, v) =
              IF v.p2p
              THEN IF v.muted \/ v.audioOnly \/ ~Frozen(d, v) THEN "active" ELSE "interrupted"
              ELSE IF ~v.bridgeOk THEN "interrupted"
              ELSE IF v.muted \/ v.audioOnly \/ ~Frozen(d, v) THEN "active"
              ELSE IF ~v.forwarded THEN "inactive"
              ELSE IF RestoringTimedOut(d) THEN "interrupted" ELSE "restoring"
         /\ StatusNow(d, v) \in Statuses
<1> DEFINE w == [v EXCEPT !.muted = @ \/ v.audioOnly]
<1>1. w.p2p = v.p2p /\ w.bridgeOk = v.bridgeOk /\ w.forwarded = v.forwarded /\ w.dry = v.dry
      /\ w.muted = (v.muted \/ v.audioOnly)
  BY DEF Sight
<1>2. Frozen(d, w) = Frozen(d, v)
  BY <1>1 DEF Frozen, FrozenTimeout
<1>3. StatusNow(d, v) = IF w.p2p THEN StatusP2P(w, Frozen(d, w))
                        ELSE StatusBridge(w, Frozen(d, w), RestoringTimedOut(d))
  BY DEF StatusNow
<1>4. v.p2p \in BOOLEAN /\ v.bridgeOk \in BOOLEAN /\ v.forwarded \in BOOLEAN /\ v.muted \in BOOLEAN
      /\ v.audioOnly \in BOOLEAN
  BY DEF Sight
<1> HIDE DEF w
<1>5. StatusNow(d, v) =
              IF v.p2p
              THEN IF v.muted \/ v.audioOnly \/ ~Frozen(d, v) THEN "active" ELSE "interrupted"
              ELSE IF ~v.bridgeOk THEN "interrupted"
              ELSE IF v.muted \/ v.audioOnly \/ ~Frozen(d, v) THEN "active"
              ELSE IF ~v.forwarded THEN "inactive"
              ELSE IF RestoringTimedOut(d) THEN "interrupted" ELSE "restoring"
  BY <1>1, <1>2, <1>3, <1>4 DEF StatusP2P, StatusBridge
<1> QED BY <1>5 DEF Statuses

(* The fields of a detector, and what keeps one a detector.                *)
LEMMA Fields ==
  ASSUME NEW d \in Detector
  PROVE  /\ d.status \in Statuses /\ d.figured \in BOOLEAN
         /\ d.trackTimer \in Off..Longest /\ d.mutedFor \in Off..Longest
         /\ d.restoringTimer \in Spent..Longest /\ d.enteredFor \in Off..Longest
BY DEF Detector

LEMMA FigureFields ==
  ASSUME NEW d \in Detector, NEW v \in Sight, NEW e, e = Figure(d, v)
  PROVE  /\ e \in Detector
         /\ e.figured /\ e.status = StatusNow(d, v)
         /\ e.trackTimer = d.trackTimer /\ e.mutedFor = d.mutedFor
         /\ e.enteredFor = d.enteredFor
         /\ e.status = "restoring" => e.restoringTimer # Off
<1> DEFINE s == StatusNow(d, v)
           t == IF RestoringTimedOut(d) \/ d.restoringTimer # Off THEN d.restoringTimer
                ELSE RestoringTimeout
           r == IF s = "restoring" THEN t ELSE Off
<1>1. s \in Statuses
  BY StatusNowOf
<1>2. RestoringTimeout \in 1..Longest
  BY Timeouts
<1>3. r \in Spent..Longest
  BY <1>2, Fields, Timeouts DEF Spent, Off
<1>4. s = "restoring" => r # Off
  <2>1. s = "restoring" => ~RestoringTimedOut(d)
    BY StatusNowOf
  <2> QED BY <2>1, <1>2 DEF Off
<1>5. e = [d EXCEPT !.status = s, !.figured = TRUE, !.restoringTimer = r]
  BY DEF Figure, ChangeStatus, Detector
<1> HIDE DEF s, r
<1>6. s = StatusNow(d, v)
  BY DEF s
<1>7. /\ e \in Detector
      /\ e.figured /\ e.status = s /\ e.restoringTimer = r
      /\ e.trackTimer = d.trackTimer /\ e.mutedFor = d.mutedFor
      /\ e.enteredFor = d.enteredFor
  BY <1>1, <1>3, <1>5 DEF Detector
<1> QED BY <1>4, <1>6, <1>7

(* The time of a detector decides, with what it looks at.                  *)
LEMMA SameTimes ==
  ASSUME NEW d, NEW e, NEW v \in Sight, e.mutedFor = d.mutedFor, e.enteredFor = d.enteredFor
  PROVE  StatusNow(e, v) = StatusNow(d, v) /\ Frozen(e, v) = Frozen(d, v)
<1>1. Frozen(e, v) = Frozen(d, v) /\ RestoringTimedOut(e) = RestoringTimedOut(d)
  BY DEF Frozen, RestoringTimedOut
<1> QED BY <1>1, StatusNowOf

LEMMA FigureTells ==
  ASSUME NEW d \in Detector, NEW v \in Sight
  PROVE  Figure(d, v) \in Detector /\ Tells(Figure(d, v), v)
<1> DEFINE e == Figure(d, v)
<1>1. e = Figure(d, v)
  OBVIOUS
<1> HIDE DEF e
<1>2. /\ e \in Detector
      /\ e.figured /\ e.status = StatusNow(d, v)
      /\ e.trackTimer = d.trackTimer /\ e.mutedFor = d.mutedFor
      /\ e.enteredFor = d.enteredFor
      /\ e.status = "restoring" => e.restoringTimer # Off
  BY <1>1, FigureFields
<1>3. StatusNow(e, v) = StatusNow(d, v)
  BY <1>2, SameTimes
<1>4. Tells(e, v)
  BY <1>2, <1>3 DEF Tells
<1> QED BY <1>1, <1>2, <1>4

(* Without data missing a status is that of any view of the same path.     *)
LEMMA TellsWithoutVideo ==
  ASSUME NEW d, NEW v \in Sight, NEW w \in Sight,
         v.p2p = w.p2p, v.bridgeOk = w.bridgeOk, ~w.dry, Tells(d, w)
  PROVE  Tells(d, v)
<1>1. ~Frozen(d, w)
  BY DEF Frozen
<1>2. StatusNow(d, w) = IF w.p2p \/ w.bridgeOk THEN "active" ELSE "interrupted"
  BY <1>1, StatusNowOf DEF Sight
<1>3. \/ StatusNow(d, v) = StatusNow(d, w)
      \/ StatusNow(d, w) = "active" /\ Frozen(d, v) /\ (v.p2p \/ v.bridgeOk)
  BY <1>2, StatusNowOf DEF Sight
<1> QED BY <1>1, <1>3 DEF Tells

LEMMA FigureWithoutVideo ==
  ASSUME NEW d \in Detector, NEW v \in Sight, NEW w \in Sight,
         v.p2p = w.p2p, v.bridgeOk = w.bridgeOk
  PROVE  Figure(d, NoVideo(w)) \in Detector /\ Tells(Figure(d, NoVideo(w)), v)
<1> DEFINE n == NoVideo(w)
           e == Figure(d, n)
<1>1. n \in Sight /\ n.p2p = v.p2p /\ n.bridgeOk = v.bridgeOk /\ ~n.dry
  BY DEF NoVideo, Sight
<1> HIDE DEF n
<1>2. e \in Detector /\ Tells(e, n)
  BY <1>1, FigureTells
<1> HIDE DEF e
<1>3. Tells(e, v)
  BY <1>1, <1>2, TellsWithoutVideo
<1> QED BY <1>2, <1>3 DEF e, n

(* What Older does.                                                        *)
LEMMA OlderFields ==
  ASSUME NEW d \in Detector, NEW e, e = Older(d)
  PROVE  /\ e \in Detector
         /\ e.figured = d.figured /\ e.status = d.status
         /\ (e.trackTimer = Off) = (d.trackTimer = Off)
         /\ (e.restoringTimer = Off) = (d.restoringTimer = Off)
         /\ (e.mutedFor = Off) = (d.mutedFor = Off)
         /\ (e.enteredFor = Off) = (d.enteredFor = Off)
         /\ e.mutedFor >= d.mutedFor /\ e.enteredFor >= d.enteredFor
         /\ ~Pending(d) => ~Pending(e)
<1> DEFINE Age(n) == IF n = Off THEN Off ELSE Min({n + 1, Longest})
           Run(n) == IF n <= 0 THEN n ELSE n - 1
           m == Age(d.mutedFor)
           a == Age(d.enteredFor)
           t == Run(d.trackTimer)
           r == Run(d.restoringTimer)
<1>1. ASSUME NEW n \in Off..Longest
      PROVE  Age(n) \in Off..Longest /\ Age(n) >= n /\ (Age(n) = Off) = (n = Off)
  BY Timeouts, MinOf, n + 1 \in Int, Longest \in Int DEF Off
<1>2. ASSUME NEW n \in Spent..Longest
      PROVE  Run(n) \in Spent..Longest /\ (Run(n) = Off) = (n = Off) /\ (n >= Off => Run(n) >= Off)
             /\ (Run(n) >= 0) = (n >= 0)
  BY Timeouts DEF Off, Spent
<1>3. m \in Off..Longest /\ a \in Off..Longest /\ m >= d.mutedFor /\ a >= d.enteredFor
      /\ (m = Off) = (d.mutedFor = Off) /\ (a = Off) = (d.enteredFor = Off)
  BY <1>1, Fields
<1>4. t \in Off..Longest /\ r \in Spent..Longest /\ (t = Off) = (d.trackTimer = Off)
      /\ (r = Off) = (d.restoringTimer = Off) /\ (r >= 0) = (d.restoringTimer >= 0)
  <2>1. d.trackTimer \in Spent..Longest /\ d.restoringTimer \in Spent..Longest /\ d.trackTimer >= Off
    BY Fields, Timeouts DEF Off, Spent
  <2>2. t \in Spent..Longest /\ r \in Spent..Longest /\ (t = Off) = (d.trackTimer = Off)
      /\ (r = Off) = (d.restoringTimer = Off) /\ (r >= 0) = (d.restoringTimer >= 0) /\ t >= Off
    BY <1>2, <2>1
  <2> HIDE DEF t, r
  <2>3. t \in Off..Longest
    BY <2>2, Timeouts DEF Off, Spent
  <2> QED BY <2>2, <2>3
<1>5. e = [d EXCEPT !.mutedFor = m, !.enteredFor = a, !.trackTimer = t, !.restoringTimer = r]
  BY DEF Older, Detector
<1> HIDE DEF m, a, t, r
<1>6. /\ e \in Detector
      /\ e.figured = d.figured /\ e.status = d.status
      /\ e.mutedFor = m /\ e.enteredFor = a /\ e.trackTimer = t /\ e.restoringTimer = r
  BY <1>3, <1>4, <1>5 DEF Detector
<1>7. ~Pending(d) => ~Pending(e)
  BY <1>4, <1>6 DEF Pending
<1> QED BY <1>3, <1>4, <1>6, <1>7

(* Time passes: a video may freeze, and what was frozen stays so.          *)
LEMMA OlderTells ==
  ASSUME NEW d \in Detector, NEW v \in Sight, Tells(d, v)
  PROVE  Tells(Older(d), v)
<1> DEFINE e == Older(d)
<1>1. e = Older(d)
  OBVIOUS
<1> HIDE DEF e
<1>2. /\ e.figured = d.figured /\ e.status = d.status
      /\ (e.trackTimer = Off) = (d.trackTimer = Off)
      /\ (e.restoringTimer = Off) = (d.restoringTimer = Off)
      /\ (e.mutedFor = Off) = (d.mutedFor = Off)
      /\ e.mutedFor >= d.mutedFor /\ e.enteredFor >= d.enteredFor
      /\ e.mutedFor \in Int /\ e.enteredFor \in Int /\ d.mutedFor \in Int /\ d.enteredFor \in Int
  <2>1. e \in Detector
    BY <1>1, OlderFields
  <2> QED BY <1>1, <2>1, OlderFields, Fields, Timeouts DEF Off, Spent
<1>3. Frozen(d, v) => Frozen(e, v)
  <2>1. FrozenTimeout(v) \in Int
    BY FrozenTimeoutType, Timeouts
  <2> QED BY <1>2, <2>1 DEF Frozen
<1>4. RestoringTimedOut(d) => RestoringTimedOut(e)
  <2>1. RestoringTimeout \in Int
    BY Timeouts
  <2> QED BY <1>2, <2>1 DEF RestoringTimedOut
<1>5. ASSUME d.status = StatusNow(d, v), d.status # "restoring"
      PROVE  \/ d.status = StatusNow(e, v)
             \/ d.status = "active" /\ Frozen(e, v) /\ (v.p2p \/ v.bridgeOk)
  BY <1>3, <1>4, <1>5, StatusNowOf DEF Sight
<1> QED BY <1>1, <1>2, <1>3, <1>5 DEF Tells

(* A track runs dry: a muted one does not matter, another has a timer.     *)
LEMMA RtcMutedFields ==
  ASSUME NEW d \in Detector, NEW v \in Sight, NEW muted \in BOOLEAN,
         NEW e, e = RtcMuted(d, v, muted)
  PROVE  /\ e \in Detector
         /\ e.figured = d.figured /\ e.status = d.status
         /\ e.restoringTimer = d.restoringTimer /\ e.enteredFor = d.enteredFor
         /\ e.mutedFor = 0
         /\ ~muted => e.trackTimer # Off
         /\ muted => e.trackTimer = d.trackTimer
<1> DEFINE t == IF muted THEN d.trackTimer ELSE FrozenTimeout(v)
<1>1. t \in Off..Longest /\ (~muted => t # Off) /\ 0 \in Off..Longest
  BY Fields, FrozenTimeoutType, Timeouts DEF Off
<1>2. e = [d EXCEPT !.mutedFor = 0, !.trackTimer = t]
  BY DEF RtcMuted, Detector
<1>3. muted => t = d.trackTimer
  OBVIOUS
<1> HIDE DEF t
<1> QED BY <1>1, <1>2, <1>3 DEF Detector

LEMMA RtcMutedTells ==
  ASSUME NEW d \in Detector, NEW v \in Sight, NEW w \in Sight, NEW muted \in BOOLEAN,
         w.p2p = v.p2p, w.bridgeOk = v.bridgeOk, w.muted = v.muted,
         muted => v.muted, Tells(d, v)
  PROVE  Tells(RtcMuted(d, v, muted), w)
<1> DEFINE e == RtcMuted(d, v, muted)
<1>1. e = RtcMuted(d, v, muted)
  OBVIOUS
<1> HIDE DEF e
<1>2. /\ e.figured = d.figured /\ e.status = d.status
      /\ e.restoringTimer = d.restoringTimer
      /\ e.mutedFor = 0
      /\ ~muted => e.trackTimer # Off
      /\ muted => e.trackTimer = d.trackTimer
  BY <1>1, RtcMutedFields
<1>3. ~Frozen(e, w)
  BY <1>2, FrozenTimeoutType, Timeouts DEF Frozen, Off
<1>4. StatusNow(e, w) = IF w.p2p \/ w.bridgeOk THEN "active" ELSE "interrupted"
  BY <1>3, StatusNowOf DEF Sight
<1>5. CASE muted
  <2>1. v.muted
    BY <1>5
  <2>2. StatusNow(d, v) = IF v.p2p \/ v.bridgeOk THEN "active" ELSE "interrupted"
    BY <2>1, StatusNowOf DEF Sight
  <2> QED BY <1>1, <1>2, <1>4, <1>5, <2>2 DEF Tells
<1> QED BY <1>1, <1>2, <1>5 DEF Tells

(* A source that never entered is no longer forwarded.                     *)
LEMMA UnforwardedTells ==
  ASSUME NEW d \in Detector, NEW v \in Sight, NEW w \in Sight,
         w.p2p = v.p2p, w.bridgeOk = v.bridgeOk, w.muted = v.muted, w.dry = v.dry,
         w.audioOnly = v.audioOnly, v.forwarded, d.enteredFor = Off, Tells(d, v)
  PROVE  Tells(d, w)
<1>1. Frozen(d, v) => Frozen(d, w)
  <2>1. FrozenTimeout(v) = InTimeout
    BY DEF FrozenTimeout
  <2>2. FrozenTimeout(w) \in 1..Longest /\ FrozenTimeout(w) <= InTimeout
    BY Timeouts DEF FrozenTimeout, Sight
  <2>3. d.mutedFor \in Int /\ InTimeout \in Int /\ FrozenTimeout(w) \in Int
    BY <2>2, Fields, Timeouts DEF Off
  <2> QED BY <2>1, <2>2, <2>3 DEF Frozen
<1>2. ~RestoringTimedOut(d)
  BY Timeouts DEF RestoringTimedOut, Off
<1>3. ASSUME d.status = StatusNow(d, v), d.status # "restoring"
      PROVE  \/ d.status = StatusNow(d, w)
             \/ d.status = "active" /\ Frozen(d, w) /\ (w.p2p \/ w.bridgeOk)
  BY <1>1, <1>2, <1>3, StatusNowOf DEF Sight
<1> QED BY <1>1, <1>3 DEF Tells

(* Tells is about a detector's status, timers and times.                   *)
LEMMA ClearTimesFields ==
  ASSUME NEW d \in Detector, NEW e, e = ClearTimes(d)
  PROVE  e \in Detector /\ e.figured = d.figured /\ e.enteredFor = d.enteredFor
<1>1. Off \in Off..Longest
  BY Timeouts DEF Off
<1> QED BY <1>1 DEF ClearTimes, Detector

LEMMA DisposeStatusFields ==
  ASSUME NEW d \in Detector, NEW e, e = DisposeStatus(d)
  PROVE  e \in Detector /\ ~e.figured /\ ~Pending(e) /\ e.enteredFor = d.enteredFor
<1>1. e.status = "active" /\ e.figured = FALSE /\ e.trackTimer = Off /\ e.mutedFor = Off
      /\ e.restoringTimer = Off /\ e.enteredFor = d.enteredFor
  BY DEF DisposeStatus, NewDetector
<1>2. e \in Detector
  <2>1. Off \in Off..Longest /\ Off \in Spent..Longest /\ "active" \in Statuses
    BY Timeouts DEF Off, Spent, Statuses
  <2>2. d.enteredFor \in Off..Longest
    BY Fields
  <2> QED BY <2>1, <2>2 DEF DisposeStatus, NewDetector, Detector
<1>3. ~Pending(e)
  BY <1>1 DEF Pending, Off
<1> QED BY <1>1, <1>2, <1>3

LEMMA NewDetectorFields ==
  NewDetector \in Detector /\ ~NewDetector.figured /\ ~Pending(NewDetector)
  /\ NewDetector.enteredFor = Off
<1>1. NewDetector.figured = FALSE /\ NewDetector.trackTimer = Off
      /\ NewDetector.restoringTimer = Off /\ NewDetector.enteredFor = Off
  BY DEF NewDetector
<1>2. NewDetector \in Detector
  BY Timeouts DEF NewDetector, Detector, Statuses, Off, Spent
<1>3. ~Pending(NewDetector)
  BY <1>1 DEF Pending, Off
<1> QED BY <1>1, <1>2, <1>3

LEMMA LeavesEntersFields ==
  ASSUME NEW d \in Detector
  PROVE  /\ Leaves(d) \in Detector /\ Leaves(d).figured = d.figured
         /\ Enters(d) \in Detector /\ Enters(d).figured = d.figured
<1>1. Off \in Off..Longest /\ Off \in Spent..Longest /\ 0 \in Off..Longest
  BY Timeouts DEF Off, Spent
<1>2. Enters(d) \in Detector /\ Enters(d).figured = d.figured
  BY <1>1 DEF Enters, Detector
<1>3. Leaves(d) \in Detector /\ Leaves(d).figured = d.figured
  BY <1>1 DEF Leaves, ClearRestoring, Detector
<1> QED BY <1>2, <1>3

(* A timer went off.                                                       *)
LEMMA TimerFields ==
  ASSUME NEW d \in Detector
  PROVE  /\ [d EXCEPT !.trackTimer = Off] \in Detector
         /\ [d EXCEPT !.trackTimer = Off].figured = d.figured
         /\ [d EXCEPT !.trackTimer = Off].enteredFor = d.enteredFor
         /\ [d EXCEPT !.restoringTimer = Spent] \in Detector
         /\ [d EXCEPT !.restoringTimer = Spent].figured = d.figured
         /\ [d EXCEPT !.restoringTimer = Spent].enteredFor = d.enteredFor
<1>1. Off \in Off..Longest /\ Spent \in Spent..Longest
  BY Timeouts DEF Off, Spent
<1> QED BY <1>1 DEF Detector

-----------------------------------------------------------------------------
(***************************************************************************)
(* The sessions: their tasks, and the tracks of what is described.         *)
(***************************************************************************)

LEMMA NewSessionOK ==
  ASSUME NEW M, NEW o
  PROVE  NewSession \in SessionState /\ Matches(NewSession, M) /\ Without(NewSession, o)
<1>1. NewSession.described = {} /\ NewSession.tracks = {} /\ NewSession.tasks = <<>>
      /\ NewSession.event = NoEvent
  BY DEF NewSession
<1>2. NewSession \in SessionState
  <2>1. <<>> \in Seq(Task)
    OBVIOUS
  <2> QED BY <2>1 DEF NewSession, SessionState, Event
<1>3. Without(NewSession, o)
  BY <1>1 DEF Without
<1>4. Matches(NewSession, M)
  BY <1>1 DEF Matches
<1> QED BY <1>2, <1>3, <1>4

(* Participants leave, or join before any of their sources.                *)
LEMMA MatchesFewer ==
  ASSUME NEW x, NEW M, NEW N, Matches(x, M), N \cap x.described \subseteq M
  PROVE  Matches(x, N)
BY DEF Matches

(* A task is queued.                                                       *)
LEMMA QueueFields ==
  ASSUME NEW x \in SessionState, NEW t \in Task, NEW y,
         y = [x EXCEPT !.tasks = Append(@, t)]
  PROVE  /\ y \in SessionState
         /\ y.described = x.described /\ y.tracks = x.tracks /\ y.event = x.event
         /\ Len(y.tasks) = Len(x.tasks) + 1
         /\ x.tasks \in Seq(Task)
         /\ \A j \in 1..Len(x.tasks) : y.tasks[j] = x.tasks[j]
         /\ y.tasks[Len(x.tasks) + 1] = t
         /\ x.tasks # <<>> => y.tasks # <<>> /\ Head(y.tasks) = Head(x.tasks)
<1>1. x.tasks \in Seq(Task)
  BY DEF SessionState
<1> DEFINE q == Append(x.tasks, t)
<1>2. /\ q \in Seq(Task) /\ Len(q) = Len(x.tasks) + 1
      /\ \A j \in 1..Len(x.tasks) : q[j] = x.tasks[j]
      /\ q[Len(x.tasks) + 1] = t
  BY <1>1
<1>3. x.tasks # <<>> => q # <<>> /\ Head(q) = Head(x.tasks)
  BY <1>1
<1>4. y = [x EXCEPT !.tasks = q]
  BY DEF SessionState
<1> HIDE DEF q
<1>5. /\ y \in SessionState
      /\ y.described = x.described /\ y.tracks = x.tracks /\ y.event = x.event /\ y.tasks = q
  BY <1>2, <1>4 DEF SessionState
<1> QED BY <1>1, <1>2, <1>3, <1>5

LEMMA QueueOK ==
  ASSUME NEW x \in SessionState, NEW t \in Task, NEW y,
         y = [x EXCEPT !.tasks = Append(@, t)]
  PROVE  /\ y \in SessionState
         /\ \A M : Matches(x, M) => Matches(y, M)
         /\ \A o \in Owner : /\ t.owner # o /\ Without(x, o) => Without(y, o)
                             /\ (t.owner # o \/ t.op = "leave") /\ NotAdded(x, o) => NotAdded(y, o)
                             /\ (t.owner # o \/ t.op # "add") /\ TakenBack(x, o) => TakenBack(y, o)
                             /\ t.owner = o /\ t.op = "remove" => TakenBack(y, o)
<1> DEFINE n == Len(x.tasks)
<1>1. /\ y \in SessionState
      /\ y.described = x.described /\ y.tracks = x.tracks /\ y.event = x.event
      /\ Len(y.tasks) = n + 1 /\ n \in Nat
      /\ x.tasks \in Seq(Task) /\ y.tasks \in Seq(Task)
      /\ DOMAIN x.tasks = 1..n /\ DOMAIN y.tasks = 1..(n + 1)
      /\ \A j \in 1..n : y.tasks[j] = x.tasks[j]
      /\ y.tasks[n + 1] = t
      /\ x.tasks # <<>> => y.tasks # <<>> /\ Head(y.tasks) = Head(x.tasks)
  <2>1. /\ y \in SessionState
        /\ y.described = x.described /\ y.tracks = x.tracks /\ y.event = x.event
        /\ Len(y.tasks) = n + 1
        /\ x.tasks \in Seq(Task)
        /\ \A j \in 1..n : y.tasks[j] = x.tasks[j]
        /\ y.tasks[n + 1] = t
        /\ x.tasks # <<>> => y.tasks # <<>> /\ Head(y.tasks) = Head(x.tasks)
    BY QueueFields
  <2>2. y.tasks \in Seq(Task)
    BY <2>1 DEF SessionState
  <2> QED BY <2>1, <2>2
<1> HIDE DEF n
<1>2. ASSUME NEW M, Matches(x, M)
      PROVE  Matches(y, M)
  BY <1>1, <1>2 DEF Matches
<1>3. ASSUME NEW o \in Owner, t.owner # o, Without(x, o)
      PROVE  Without(y, o)
  <2>1. ASSUME NEW j \in 1..(n + 1)
        PROVE  y.tasks[j].owner # o
    BY <1>1, <1>3 DEF Without
  <2> QED BY <1>1, <1>3, <2>1 DEF Without
<1>4. ASSUME NEW o \in Owner, t.owner # o \/ t.op = "leave", NotAdded(x, o)
      PROVE  NotAdded(y, o)
  <2>1. ASSUME NEW j \in 1..(n + 1), y.tasks[j].owner = o
        PROVE  y.tasks[j].op = "leave"
    BY <1>1, <1>4, <2>1 DEF NotAdded
  <2> QED BY <1>1, <1>4, <2>1 DEF NotAdded
<1>5. ASSUME NEW o \in Owner, t.owner # o \/ t.op # "add", TakenBack(x, o)
      PROVE  TakenBack(y, o)
  <2>1. PICK i \in 0..n : /\ i = 0 => o \notin x.described
                          /\ i # 0 => x.tasks[i].op = "remove" /\ x.tasks[i].owner = o
                          /\ \A j \in 1..n : j > i => ~Adds(x.tasks[j], o)
    BY <1>1, <1>5 DEF TakenBack, n
  <2>2. ASSUME NEW j \in 1..(n + 1), j > i
        PROVE  ~Adds(y.tasks[j], o)
    BY <1>1, <1>5, <2>1, <2>2 DEF Adds
  <2>3. i \in 0..(n + 1) /\ (i # 0 => y.tasks[i] = x.tasks[i])
    BY <1>1
  <2>4. (i = 0 => o \notin y.described)
        /\ (i # 0 => y.tasks[i].op = "remove" /\ y.tasks[i].owner = o)
    BY <1>1, <2>1, <2>3
  <2> QED BY <1>1, <2>2, <2>3, <2>4 DEF TakenBack
<1>6. ASSUME NEW o \in Owner, t.owner = o, t.op = "remove"
      PROVE  TakenBack(y, o)
  <2>1. n + 1 \in 0..Len(y.tasks) /\ n + 1 # 0 /\ y.tasks[n + 1].op = "remove"
        /\ y.tasks[n + 1].owner = o
    BY <1>1, <1>6
  <2>2. \A j \in 1..Len(y.tasks) : ~(j > n + 1)
    BY <1>1
  <2> QED BY <2>1, <2>2 DEF TakenBack
<1> QED BY <1>1, <1>2, <1>3, <1>4, <1>5, <1>6

(* The first task is done.                                                 *)
LEMMA TailFields ==
  ASSUME NEW q \in Seq(Task), q # <<>>
  PROVE  /\ Tail(q) \in Seq(Task) /\ Len(q) \in Nat /\ Len(q) >= 1 /\ Len(Tail(q)) = Len(q) - 1
         /\ Head(q) = q[1] /\ Head(q) \in Task
         /\ \A j \in 1..(Len(q) - 1) : Tail(q)[j] = q[j + 1]
OBVIOUS

(* What is left of the tasks of x is said of y as it was of x, once the    *)
(* first task is done and y has of what x describes what that task left.   *)
LEMMA DoneOK ==
  ASSUME NEW x \in SessionState, NEW y \in SessionState, x.tasks # <<>>,
         y.tasks = Tail(x.tasks), y.described = x.described, NEW o \in Owner
  PROVE  /\ Without(x, o) /\ o \notin y.tracks => Without(y, o)
         /\ NotAdded(x, o) => NotAdded(y, o)
         /\ TakenBack(x, o) /\ (Head(x.tasks).op = "remove" /\ Head(x.tasks).owner = o
                                  => o \notin x.described) => TakenBack(y, o)
<1> DEFINE n == Len(x.tasks)
<1>1. /\ x.tasks \in Seq(Task) /\ y.tasks \in Seq(Task)
      /\ n \in Nat /\ n >= 1 /\ Len(y.tasks) = n - 1
      /\ DOMAIN x.tasks = 1..n /\ DOMAIN y.tasks = 1..(n - 1)
      /\ Head(x.tasks) = x.tasks[1]
      /\ \A j \in 1..(n - 1) : y.tasks[j] = x.tasks[j + 1]
  <2>1. x.tasks \in Seq(Task) /\ y.tasks \in Seq(Task)
    BY DEF SessionState
  <2> QED BY <2>1, TailFields
<1> HIDE DEF n
<1>2. ASSUME Without(x, o), o \notin y.tracks
      PROVE  Without(y, o)
  <2>1. ASSUME NEW j \in 1..(n - 1)
        PROVE  y.tasks[j].owner # o
    <3>1. j + 1 \in 1..n
      BY <1>1
    <3> QED BY <1>1, <1>2, <3>1 DEF Without
  <2> QED BY <1>1, <1>2, <2>1 DEF Without
<1>3. ASSUME NotAdded(x, o)
      PROVE  NotAdded(y, o)
  <2>1. ASSUME NEW j \in 1..(n - 1), y.tasks[j].owner = o
        PROVE  y.tasks[j].op = "leave"
    <3>1. j + 1 \in 1..n
      BY <1>1
    <3> QED BY <1>1, <1>3, <2>1, <3>1 DEF NotAdded
  <2> QED BY <1>1, <1>3, <2>1 DEF NotAdded
<1>4. ASSUME TakenBack(x, o),
             Head(x.tasks).op = "remove" /\ Head(x.tasks).owner = o => o \notin x.described
      PROVE  TakenBack(y, o)
  <2>1. PICK i \in 0..n : /\ i = 0 => o \notin x.described
                          /\ i # 0 => x.tasks[i].op = "remove" /\ x.tasks[i].owner = o
                          /\ \A j \in 1..n : j > i => ~Adds(x.tasks[j], o)
    BY <1>1, <1>4 DEF TakenBack, n
  <2> DEFINE k == IF i = 0 THEN 0 ELSE i - 1
  <2>2. k \in 0..(n - 1) /\ k + 1 >= i
    BY <1>1
  <2>3. ASSUME NEW j \in 1..(n - 1), j > k
        PROVE  ~Adds(y.tasks[j], o)
    <3>1. j + 1 \in 1..n /\ j + 1 > i
      BY <1>1, <2>2, <2>3
    <3> QED BY <1>1, <2>1, <3>1
  <2>4. k = 0 => o \notin y.described
    <3>1. k = 0 => i = 0 \/ i = 1
      OBVIOUS
    <3> QED BY <1>1, <1>4, <2>1, <3>1
  <2>5. k # 0 => y.tasks[k].op = "remove" /\ y.tasks[k].owner = o
    <3>1. k # 0 => k \in 1..(n - 1) /\ k + 1 = i /\ i # 0
      BY <2>2
    <3> QED BY <1>1, <2>1, <3>1
  <2> HIDE DEF k
  <2> QED BY <1>1, <2>2, <2>3, <2>4, <2>5 DEF TakenBack
<1> QED BY <1>2, <1>3, <1>4

(* A task has changed the description, and the browser is to tell.         *)
LEMMA DescribedOK ==
  ASSUME NEW x \in SessionState, NEW y \in SessionState, x.tasks # <<>>,
         y.tasks = x.tasks, y.tracks = x.tracks, NEW o \in Owner,
         o \in y.described => o \in x.described \/ Adds(Head(x.tasks), o)
  PROVE  /\ Without(x, o) => Without(y, o)
         /\ NotAdded(x, o) => NotAdded(y, o)
         /\ TakenBack(x, o) => TakenBack(y, o)
<1>1. /\ x.tasks \in Seq(Task)
      /\ Len(x.tasks) \in Nat /\ 1 \in 1..Len(x.tasks)
      /\ DOMAIN x.tasks = 1..Len(x.tasks) /\ Head(x.tasks) = x.tasks[1]
  <2>1. x.tasks \in Seq(Task)
    BY DEF SessionState
  <2> QED BY <2>1, TailFields
<1>2. ASSUME Without(x, o)
      PROVE  Without(y, o)
  <2>1. Head(x.tasks).owner # o
    BY <1>1, <1>2 DEF Without
  <2> QED BY <1>2, <2>1 DEF Without, Adds
<1>3. ASSUME NotAdded(x, o)
      PROVE  NotAdded(y, o)
  <2>1. ~Adds(Head(x.tasks), o)
    BY <1>1, <1>3 DEF NotAdded, Adds
  <2> QED BY <1>3, <2>1 DEF NotAdded
<1>4. ASSUME TakenBack(x, o)
      PROVE  TakenBack(y, o)
  <2>1. PICK i \in 0..Len(x.tasks) :
               /\ i = 0 => o \notin x.described
               /\ i # 0 => x.tasks[i].op = "remove" /\ x.tasks[i].owner = o
               /\ \A j \in 1..Len(x.tasks) : j > i => ~Adds(x.tasks[j], o)
    BY <1>4 DEF TakenBack
  <2>2. i = 0 => ~Adds(Head(x.tasks), o)
    BY <1>1, <2>1
  <2>3. i = 0 => o \notin y.described
    BY <2>1, <2>2
  <2> QED BY <2>1, <2>3 DEF TakenBack
<1> QED BY <1>2, <1>3, <1>4

-----------------------------------------------------------------------------
(***************************************************************************)
(* What the detectors look at.                                             *)
(***************************************************************************)

Videos(k) == IF k[1] = "user" THEN {s \in Session : <<s, k[2]>> \in shown} ELSE {k[1]}

LEMMA SameSight ==
  ASSUME NEW v \in Sight, NEW w \in Sight,
         v.p2p = w.p2p, v.audioOnly = w.audioOnly, v.muted = w.muted, v.dry = w.dry,
         v.forwarded = w.forwarded, v.bridgeOk = w.bridgeOk
  PROVE  v = w
BY DEF Sight

LEMMA ViewFields ==
  ASSUME NEW k \in Key
  PROVE  /\ View(k).p2p = (p2p = "active") /\ View(k).audioOnly = audioOnly
         /\ View(k).muted = (\A s \in Videos(k) : track[s][k[2]].muted)
         /\ View(k).dry = (\E s \in Videos(k) : track[s][k[2]].dry)
         /\ View(k).forwarded = (bridge.forwarded[k[2]] \in {"all", "in"})
         /\ View(k).bridgeOk = (k[1] # "user" \/ k[2] \notin bridge.dead)
BY DEF View, Videos

LEMMA ViewFieldsNext ==
  ASSUME NEW k \in Key
  PROVE  /\ View(k)'.p2p = (p2p' = "active") /\ View(k)'.audioOnly = audioOnly'
         /\ View(k)'.muted = (\A s \in Videos(k)' : track'[s][k[2]].muted)
         /\ View(k)'.dry = (\E s \in Videos(k)' : track'[s][k[2]].dry)
         /\ View(k)'.forwarded = (bridge'.forwarded[k[2]] \in {"all", "in"})
         /\ View(k)'.bridgeOk = (k[1] # "user" \/ k[2] \notin bridge'.dead)
BY DEF View, Videos

LEMMA ViewType ==
  ASSUME NEW k \in Key, audioOnly \in BOOLEAN
  PROVE  View(k) \in Sight
<1> DEFINE a == p2p = "active"
           m == \A s \in Videos(k) : track[s][k[2]].muted
           d == \E s \in Videos(k) : track[s][k[2]].dry
           f == bridge.forwarded[k[2]] \in {"all", "in"}
           b == k[1] # "user" \/ k[2] \notin bridge.dead
<1>1. a \in BOOLEAN /\ m \in BOOLEAN /\ d \in BOOLEAN /\ f \in BOOLEAN /\ b \in BOOLEAN
  OBVIOUS
<1>2. View(k) = [p2p |-> a, audioOnly |-> audioOnly, muted |-> m, dry |-> d,
                   forwarded |-> f, bridgeOk |-> b]
  BY DEF View, Videos
<1> HIDE DEF a, m, d, f, b
<1> QED BY <1>1, <1>2 DEF Sight

LEMMA ViewTypeNext ==
  ASSUME NEW k \in Key, audioOnly' \in BOOLEAN
  PROVE  View(k)' \in Sight
<1> DEFINE a == p2p' = "active"
           m == \A s \in Videos(k)' : track'[s][k[2]].muted
           d == \E s \in Videos(k)' : track'[s][k[2]].dry
           f == bridge'.forwarded[k[2]] \in {"all", "in"}
           b == k[1] # "user" \/ k[2] \notin bridge'.dead
<1>1. a \in BOOLEAN /\ m \in BOOLEAN /\ d \in BOOLEAN /\ f \in BOOLEAN /\ b \in BOOLEAN
  OBVIOUS
<1>2. View(k)' = [p2p |-> a, audioOnly |-> audioOnly', muted |-> m, dry |-> d,
                   forwarded |-> f, bridgeOk |-> b]
  BY DEF View, Videos
<1> HIDE DEF a, m, d, f, b
<1> QED BY <1>1, <1>2 DEF Sight

(* A step that changes none of the videos of k, nor their path, changes    *)
(* nothing that its detector looks at.                                     *)
LEMMA SameView ==
  ASSUME NEW k \in Key, Videos(k)' = Videos(k), audioOnly \in BOOLEAN,
         \A s \in Videos(k) : /\ track'[s][k[2]].muted = track[s][k[2]].muted
                              /\ track'[s][k[2]].dry = track[s][k[2]].dry,
         (p2p' = "active") = (p2p = "active"), audioOnly' = audioOnly,
         (bridge'.forwarded[k[2]] \in {"all", "in"}) = (bridge.forwarded[k[2]] \in {"all", "in"}),
         (k[2] \notin bridge'.dead) = (k[2] \notin bridge.dead)
  PROVE  View(k)' = View(k)
<1>1. View(k)'.p2p = View(k).p2p /\ View(k)'.audioOnly = View(k).audioOnly
      /\ View(k)'.forwarded = View(k).forwarded /\ View(k)'.bridgeOk = View(k).bridgeOk
  BY ViewFields, ViewFieldsNext
<1>2. View(k)'.muted = View(k).muted
  <2>1. (\A s \in Videos(k)' : track'[s][k[2]].muted) <=> (\A s \in Videos(k) : track[s][k[2]].muted)
    OBVIOUS
  <2> QED BY <2>1, ViewFields, ViewFieldsNext
<1>3. View(k)'.dry = View(k).dry
  <2>1. (\E s \in Videos(k)' : track'[s][k[2]].dry) <=> (\E s \in Videos(k) : track[s][k[2]].dry)
    OBVIOUS
  <2> QED BY <2>1, ViewFields, ViewFieldsNext
<1>5. View(k)' \in Sight /\ View(k) \in Sight
  BY ViewType, ViewTypeNext
<1> QED BY <1>1, <1>2, <1>3, <1>5, SameSight

(* The videos of a detector are those shown of its owner, or its track.    *)
LEMMA KeyParts ==
  ASSUME NEW k \in Key
  PROVE  k = <<k[1], k[2]>> /\ k[1] \in Session \cup {"user"} /\ k[2] \in Owner
BY DEF Key

LEMMA FigureOutType ==
  ASSUME NEW k \in Key, NEW d \in Detector, audioOnly' \in BOOLEAN
  PROVE  /\ FigureOut(k, d) \in Detector /\ FigureOut(k, d).enteredFor = d.enteredFor
         /\ k \in Watched' => FigureOut(k, d) = Figure(d, View(k)') /\ Tells(FigureOut(k, d), View(k)')
         /\ k \notin Watched' => FigureOut(k, d) = d
<1>1. View(k)' \in Sight
  BY ViewTypeNext
<1>2. Figure(d, View(k)') \in Detector /\ Figure(d, View(k)').enteredFor = d.enteredFor
      /\ Tells(Figure(d, View(k)'), View(k)')
  BY <1>1, FigureFields, FigureTells
<1> QED BY <1>2 DEF FigureOut

LEMMA ForgetTimesType ==
  ASSUME NEW k \in Key, NEW removed, NEW v \in Sight, det \in [Key -> Detector]
  PROVE  /\ ForgetTimes(k, removed, v) \in Detector
         /\ ForgetTimes(k, removed, v).enteredFor = det[k].enteredFor
<1>1. det[k] \in Detector
  OBVIOUS
<1>2. DisposeStatus(det[k]) \in Detector /\ DisposeStatus(det[k]).enteredFor = det[k].enteredFor
  BY <1>1, DisposeStatusFields
<1>3. ClearTimes(det[k]) \in Detector /\ ClearTimes(det[k]).enteredFor = det[k].enteredFor
  BY <1>1, ClearTimesFields
<1>4. Figure(ClearTimes(det[k]), v) \in Detector
      /\ Figure(ClearTimes(det[k]), v).enteredFor = det[k].enteredFor
  BY <1>3, FigureFields
<1> QED BY <1>1, <1>2, <1>4 DEF ForgetTimes

-----------------------------------------------------------------------------
(***************************************************************************)
(* Types.                                                                  *)
(***************************************************************************)

Tracks == [Session -> [Owner -> TrackState]]

LEMMA SetMuteFields ==
  ASSUME track \in Tracks, NEW o \in Owner, NEW muted \in BOOLEAN, SetMute(o, muted)
  PROVE  /\ track' \in Tracks
         /\ \A s \in Session, q \in Owner :
              /\ track'[s][q].dry = track[s][q].dry /\ track'[s][q].asked = track[s][q].asked
              /\ q # o => track'[s][q].muted = track[s][q].muted
              /\ track'[s][o].muted = IF o \in ses[s].tracks /\ Told(o, muted) THEN muted
                                      ELSE track[s][o].muted
<1> DEFINE m(s) == IF o \in ses[s].tracks /\ Told(o, muted) THEN muted ELSE track[s][o].muted
           t(s) == [track[s] EXCEPT ![o].muted = m(s)]
<1>1. ASSUME NEW s \in Session
      PROVE  /\ t(s) \in [Owner -> TrackState]
             /\ \A q \in Owner : /\ t(s)[q].dry = track[s][q].dry /\ t(s)[q].asked = track[s][q].asked
                                 /\ q # o => t(s)[q].muted = track[s][q].muted
             /\ t(s)[o].muted = m(s)
  <2>1. track[s] \in [Owner -> TrackState] /\ m(s) \in BOOLEAN
    BY DEF Tracks, TrackState
  <2> HIDE DEF m
  <2> QED BY <2>1 DEF TrackState
<1>2. track' = [s \in Session |-> t(s)]
  BY DEF SetMute
<1>3. ASSUME NEW s \in Session PROVE track'[s] = t(s)
  BY <1>2
<1>4. track' \in Tracks
  BY <1>1, <1>2 DEF Tracks
<1> HIDE DEF t
<1> QED BY <1>1, <1>3, <1>4

(* One field of one track changes.                                         *)
LEMMA OneTrack ==
  ASSUME track \in Tracks, NEW s \in Session, NEW o \in Owner, NEW x \in TrackState,
         track' = [track EXCEPT ![s][o] = x]
  PROVE  /\ track' \in Tracks /\ track'[s][o] = x
         /\ \A r \in Session, q \in Owner : r # s \/ q # o => track'[r][q] = track[r][q]
BY DEF Tracks

LEMMA OneField ==
  ASSUME track \in Tracks, NEW s \in Session, NEW o \in Owner, NEW b \in BOOLEAN
  PROVE  /\ [track EXCEPT ![s][o].asked = b] =
              [track EXCEPT ![s][o] = [track[s][o] EXCEPT !.asked = b]]
         /\ [track EXCEPT ![s][o].dry = b] =
              [track EXCEPT ![s][o] = [track[s][o] EXCEPT !.dry = b]]
         /\ [track[s][o] EXCEPT !.asked = b] \in TrackState
         /\ [track[s][o] EXCEPT !.dry = b] \in TrackState
BY DEF Tracks, TrackState

LEMMA TracksType ==
  ASSUME Types, NEW s \in Session, NEW o \in Owner
  PROVE  /\ track \in Tracks /\ track[s] \in [Owner -> TrackState] /\ track[s][o] \in TrackState
         /\ track[s][o].muted \in BOOLEAN /\ track[s][o].dry \in BOOLEAN
         /\ track[s][o].asked \in BOOLEAN
BY DEF Types, Tracks, TrackState

LEMMA SessionFields ==
  ASSUME Types, NEW s \in Session
  PROVE  /\ ses[s] \in SessionState /\ ses[s].described \subseteq Owner
         /\ ses[s].tracks \subseteq Owner
         /\ ses[s].tasks \in Seq(Task) /\ ses[s].event \in Event
         /\ ses[s].event # NoEvent => ses[s].event.owner \in Owner
         /\ ses[s].event.kind \in {"added", "removed"} => ses[s].event # NoEvent
         /\ ses[s].event # NoEvent => ses[s].event.kind \in {"added", "removed"}
<1>1. ses[s] \in SessionState
  BY DEF Types
<1>2. ses[s].event \in Event
  BY <1>1 DEF SessionState
<1>3. NoEvent.kind = "none"
  BY DEF NoEvent
<1>4. /\ ses[s].event # NoEvent => ses[s].event.owner \in Owner
      /\ ses[s].event # NoEvent => ses[s].event.kind \in {"added", "removed"}
  BY <1>2 DEF Event
<1> QED BY <1>1, <1>2, <1>3, <1>4 DEF SessionState

(* The sessions when one of them queues a task.                            *)
LEMMA QueueSes ==
  ASSUME Types, NEW s \in Session, NEW op \in {"add", "remove", "leave"}, NEW o \in Owner,
         Queue(s, op, o)
  PROVE  /\ ses' \in [Session -> SessionState]
         /\ ses'[s] = [ses[s] EXCEPT !.tasks = Append(@, [op |-> op, owner |-> o])]
         /\ [op |-> op, owner |-> o] \in Task
         /\ \A r \in Session \ {s} : ses'[r] = ses[r]
<1> DEFINE t == [op |-> op, owner |-> o]
           y == [ses[s] EXCEPT !.tasks = Append(@, t)]
<1>1. ses[s] \in SessionState /\ ses \in [Session -> SessionState]
  BY DEF Types
<1>2. t \in Task
  BY DEF Task
<1>3. y \in SessionState
  <2> HIDE DEF t
  <2> QED BY <1>1, <1>2, QueueFields
<1>4. ses' = [ses EXCEPT ![s] = y]
  BY <1>1 DEF Queue
<1> HIDE DEF y
<1>5. ses'[s] = y /\ ses' \in [Session -> SessionState]
      /\ \A r \in Session \ {s} : ses'[r] = ses[r]
  BY <1>1, <1>3, <1>4
<1> QED BY <1>2, <1>5 DEF y

(* A task begins.                                                          *)
LEMMA RunTaskSes ==
  ASSUME Types, NEW s \in Session, RunTask(s), NEW task, task = Head(ses[s].tasks),
         NEW described, described = Describes(s, task)
  PROVE  /\ task \in Task /\ described \subseteq Owner
         /\ ses' \in [Session -> SessionState]
         /\ ses[s].tasks # <<>> /\ ses[s].event = NoEvent
         /\ \A r \in Session \ {s} : ses'[r] = ses[r]
         /\ ses'[s].tracks = ses[s].tracks
         /\ described = ses[s].described =>
              /\ ses'[s].tasks = Tail(ses[s].tasks) /\ ses'[s].described = ses[s].described
              /\ ses'[s].event = NoEvent
         /\ described # ses[s].described =>
              /\ ses'[s].tasks = ses[s].tasks /\ ses'[s].described = described
              /\ ses'[s].event = [kind |-> IF task.op = "add" THEN "added" ELSE "removed",
                                  owner |-> task.owner]
              /\ ses'[s].event # NoEvent
<1>1. ses[s] \in SessionState /\ ses \in [Session -> SessionState] /\ ses[s].tasks \in Seq(Task)
      /\ ses[s].tasks # <<>> /\ ses[s].event = NoEvent
  BY SessionFields DEF Types, RunTask
<1>2. task \in Task /\ Tail(ses[s].tasks) \in Seq(Task)
  BY <1>1, TailFields
<1>3. described \subseteq Owner
  <2>1. ses[s].described \subseteq Owner /\ task.owner \in Owner
    BY <1>2, SessionFields DEF Task
  <2> QED BY <2>1 DEF Describes
<1> DEFINE e == [kind |-> IF task.op = "add" THEN "added" ELSE "removed", owner |-> task.owner]
           y == [ses[s] EXCEPT !.tasks = Tail(@)]
           z == [ses[s] EXCEPT !.described = described, !.event = e]
<1>4. e \in Event /\ e # NoEvent
  <2>1. e.kind # "none" /\ NoEvent.kind = "none"
    BY DEF NoEvent
  <2> QED BY <1>2, <2>1 DEF Event, Task
<1>5. described = ses[s].described => ses' = [ses EXCEPT ![s] = y]
  BY <1>1 DEF RunTask
<1>6. described # ses[s].described => ses' = [ses EXCEPT ![s] = z]
  BY <1>1 DEF RunTask, SessionState
<1>7. /\ y \in SessionState /\ y.tasks = Tail(ses[s].tasks) /\ y.described = ses[s].described
      /\ y.event = NoEvent /\ y.tracks = ses[s].tracks
  BY <1>1, <1>2 DEF SessionState
<1> HIDE DEF e
<1>8. /\ z \in SessionState /\ z.tasks = ses[s].tasks /\ z.described = described
      /\ z.event = e /\ z.tracks = ses[s].tracks
  BY <1>1, <1>3, <1>4 DEF SessionState
<1> HIDE DEF y, z
<1>9. CASE described = ses[s].described
  BY <1>1, <1>2, <1>3, <1>5, <1>7, <1>9
<1>10. CASE described # ses[s].described
  BY <1>1, <1>2, <1>3, <1>4, <1>6, <1>8, <1>10 DEF e
<1> QED BY <1>9, <1>10

(* A task ends.                                                            *)
LEMMA EndTaskSes ==
  ASSUME Types, NEW s \in Session, ses[s].tasks # <<>>, NEW tracks \in SUBSET Owner,
         EndTask(s, tracks)
  PROVE  /\ ses' \in [Session -> SessionState]
         /\ \A r \in Session \ {s} : ses'[r] = ses[r]
         /\ ses'[s].tracks = tracks /\ ses'[s].tasks = Tail(ses[s].tasks)
         /\ ses'[s].described = ses[s].described /\ ses'[s].event = NoEvent
<1>1. ses[s] \in SessionState /\ ses \in [Session -> SessionState] /\ ses[s].tasks \in Seq(Task)
  BY SessionFields DEF Types
<1>2. Tail(ses[s].tasks) \in Seq(Task) /\ NoEvent \in Event
  BY <1>1, TailFields DEF Event
<1> DEFINE y == [ses[s] EXCEPT !.tasks = Tail(@), !.event = NoEvent, !.tracks = tracks]
<1>3. ses' = [ses EXCEPT ![s] = y]
  BY <1>1 DEF EndTask, SessionState
<1>4. /\ y \in SessionState /\ y.tasks = Tail(ses[s].tasks) /\ y.described = ses[s].described
      /\ y.event = NoEvent /\ y.tracks = tracks
  BY <1>1, <1>2 DEF SessionState
<1> HIDE DEF y
<1> QED BY <1>1, <1>3, <1>4

(* What the participants are is said by the presence of the owners.        *)
LEMMA Members ==
  /\ \A o : o \in member <=> o \in Owner /\ presence[o].place = "in"
  /\ \A o : o \in member' <=> o \in Owner /\ presence'[o].place = "in"
BY DEF member

LEMMA SessionIs == Session = {"jvb", "p2p"} /\ "jvb" # "p2p"
BY DEF Session

(* The status of each detector is figured out, or its times are forgotten. *)
LEMMA PresenceTypes ==
  ASSUME Types, NEW o \in Owner, NEW muted \in BOOLEAN, Presence(o, muted)
  PROVE  /\ presence' \in [Owner -> OwnerPresence]
         /\ sources' \in [Owner -> {"none", "muted", "unmuted"}]
         /\ presence'[o].muted = muted /\ presence'[o].place = "in"
         /\ presence'[o].modern = presence[o].modern /\ presence'[o].source = presence[o].source
         /\ \A q \in Owner \ {o} : presence'[q] = presence[q] /\ sources'[q] = sources[q]
         /\ SendsSourceInfo(o)' => sources'[o] = SourceInfo(muted)
         /\ presence[o].muted # muted /\ o \in member
<1>1. presence[o] \in OwnerPresence /\ presence[o].changes \in Nat /\ presence[o].changes < Changes
      /\ presence[o].place = "in"
  <2>1. o \in member /\ presence[o].changes < Changes
    BY DEF Presence
  <2> QED BY <2>1, Members, RemoteTracksAssumption DEF Types, OwnerPresence
<1> DEFINE p == [presence[o] EXCEPT !.muted = muted, !.changes = presence[o].changes + 1]
<1>2. presence' = [presence EXCEPT ![o] = p]
  BY DEF Presence, Types, OwnerPresence
<1>3. p \in OwnerPresence /\ p.muted = muted /\ p.place = "in" /\ p.modern = presence[o].modern
      /\ p.source = presence[o].source
  <2>1. presence[o].changes + 1 \in 0..Changes
    BY <1>1, RemoteTracksAssumption
  <2> QED BY <1>1, <2>1 DEF OwnerPresence
<1> HIDE DEF p
<1>4. SourceInfo(muted) \in {"none", "muted", "unmuted"}
  BY DEF SourceInfo
<1>5. /\ sources' \in [Owner -> {"none", "muted", "unmuted"}]
      /\ \A q \in Owner \ {o} : sources'[q] = sources[q]
      /\ SendsSourceInfo(o)' => sources'[o] = SourceInfo(muted)
  BY <1>4 DEF Presence, KeepSourceInfo, Types
<1>6. presence[o].muted # muted /\ o \in member
  BY DEF Presence
<1> QED BY <1>2, <1>3, <1>5, <1>6 DEF Types

LEMMA JoinedTypes ==
  ASSUME Types, NEW o \in Owner, NEW muted \in BOOLEAN, MemberJoined(o, muted)
  PROVE  /\ presence' \in [Owner -> OwnerPresence]
         /\ sources' \in [Owner -> {"none", "muted", "unmuted"}]
         /\ presence[o].place = "out" /\ presence'[o].muted = muted /\ presence'[o].place = "in"
         /\ presence'[o].modern = presence[o].modern /\ presence'[o].source = presence[o].source
         /\ \A q \in Owner \ {o} : presence'[q] = presence[q] /\ sources'[q] = sources[q]
         /\ SendsSourceInfo(o)' => sources'[o] = SourceInfo(muted)
         /\ member' = member \cup {o}
<1>1. presence[o] \in OwnerPresence /\ presence[o].place = "out"
  BY DEF Types, MemberJoined
<1> DEFINE p == [presence[o] EXCEPT !.place = "in", !.muted = muted]
<1>2. presence' = [presence EXCEPT ![o] = p]
  BY DEF MemberJoined, Types, OwnerPresence
<1>3. p \in OwnerPresence /\ p.muted = muted /\ p.place = "in" /\ p.modern = presence[o].modern
      /\ p.source = presence[o].source
  BY <1>1 DEF OwnerPresence
<1> HIDE DEF p
<1>4. SourceInfo(muted) \in {"none", "muted", "unmuted"}
  BY DEF SourceInfo
<1>5. /\ sources' \in [Owner -> {"none", "muted", "unmuted"}]
      /\ \A q \in Owner \ {o} : sources'[q] = sources[q]
      /\ SendsSourceInfo(o)' => sources'[o] = SourceInfo(muted)
  BY <1>4 DEF MemberJoined, KeepSourceInfo, Types
<1>6. /\ presence' \in [Owner -> OwnerPresence] /\ presence'[o] = p
      /\ \A q \in Owner \ {o} : presence'[q] = presence[q]
  BY <1>2, <1>3 DEF Types
<1>7. member' = member \cup {o}
  BY <1>3, <1>6, Members
<1> QED BY <1>1, <1>3, <1>5, <1>6, <1>7

(* P2P stops.                                                              *)
LEMMA StopP2PTypes ==
  ASSUME Types, audioOnly' = audioOnly, StopP2P
  PROVE  /\ p2p' = "none"
         /\ ses' \in [Session -> SessionState] /\ ses'["p2p"] = NewSession /\ ses'["jvb"] = ses["jvb"]
         /\ track' \in Tracks /\ track'["jvb"] = track["jvb"]
         /\ \A q \in Owner : track'["p2p"][q] = NoTrack
         /\ shown' \subseteq Session \X Owner
         /\ det' \in [Key -> Detector]
         /\ \A k \in Key : det'[k].enteredFor = det[k].enteredFor
<1>1. p2p' = "none"
  BY DEF StopP2P
<1>2. ses' \in [Session -> SessionState] /\ ses'["p2p"] = NewSession /\ ses'["jvb"] = ses["jvb"]
  BY NewSessionOK, SessionIs DEF StopP2P, Types
<1>3. NoTrack \in TrackState
  BY DEF NoTrack, TrackState
<1>4. track' \in Tracks /\ track'["jvb"] = track["jvb"] /\ \A q \in Owner : track'["p2p"][q] = NoTrack
  BY <1>3, SessionIs DEF StopP2P, Types, Tracks
<1>5. shown' \subseteq Session \X Owner
  <2>1. ses["jvb"].tracks \subseteq Owner
    BY SessionFields, SessionIs
  <2> QED BY <2>1, SessionIs DEF StopP2P, Types
<1> DEFINE d(k) == ForgetTimes(k, {j \in shown : j[1] = "p2p"}, View(k))
           e(k) == IF p2p = "active" /\ k \in Watched' THEN Figure(d(k), NoVideo(View(k)')) ELSE d(k)
<1>6. det' = [k \in Key |-> e(k)]
  BY DEF StopP2P
<1>7. ASSUME NEW k \in Key
      PROVE  e(k) \in Detector /\ e(k).enteredFor = det[k].enteredFor
  <2>1. View(k) \in Sight /\ View(k)' \in Sight
    BY ViewType, ViewTypeNext DEF Types
  <2>2. d(k) \in Detector /\ d(k).enteredFor = det[k].enteredFor
    BY <2>1, ForgetTimesType DEF Types
  <2>3. NoVideo(View(k)') \in Sight
    BY <2>1 DEF NoVideo, Sight
  <2> HIDE DEF d
  <2> QED BY <2>2, <2>3, FigureFields
<1> HIDE DEF e
<1> QED BY <1>1, <1>2, <1>4, <1>5, <1>6, <1>7

LEMMA LeftTypes ==
  ASSUME Types, NEW o \in Owner, MemberLeft(o)
  PROVE  /\ presence' \in [Owner -> OwnerPresence]
         /\ sources' \in [Owner -> {"none", "muted", "unmuted"}]
         /\ o \in member /\ presence'[o].place = "gone" /\ presence'[o].muted = presence[o].muted
         /\ presence'[o].modern = presence[o].modern /\ presence'[o].source = presence[o].source
         /\ \A q \in Owner \ {o} : presence'[q] = presence[q] /\ sources'[q] = sources[q]
         /\ member' = member \ {o}
         /\ p2p' = "none"
         /\ ses' \in [Session -> SessionState] /\ ses'["p2p"] = NewSession
         /\ ses'["jvb"] = [ses["jvb"] EXCEPT !.tasks = Append(@, [op |-> "leave", owner |-> o])]
         /\ [op |-> "leave", owner |-> o] \in Task
         /\ track' \in Tracks
         /\ \A q \in Owner : /\ track'["p2p"][q] = NoTrack
                             /\ track'["jvb"][q].muted = track["jvb"][q].muted
                             /\ track'["jvb"][q].dry = track["jvb"][q].dry
                             /\ q # o => track'["jvb"][q].asked = track["jvb"][q].asked
                             /\ track'["jvb"][o].asked = FALSE
         /\ shown' \subseteq Session \X Owner
         /\ det' \in [Key -> Detector]
         /\ \A k \in Key : det'[k].enteredFor = det[k].enteredFor
<1>1. o \in member /\ p2p' = "none" /\ presence' = [presence EXCEPT ![o].place = "gone"]
      /\ sources' = [sources EXCEPT ![o] = "none"] /\ audioOnly' = audioOnly
  BY DEF MemberLeft
<1>2. /\ presence' \in [Owner -> OwnerPresence]
      /\ presence'[o].place = "gone" /\ presence'[o].muted = presence[o].muted
      /\ presence'[o].modern = presence[o].modern /\ presence'[o].source = presence[o].source
      /\ \A q \in Owner \ {o} : presence'[q] = presence[q]
  BY <1>1 DEF Types, OwnerPresence
<1>3. /\ sources' \in [Owner -> {"none", "muted", "unmuted"}]
      /\ \A q \in Owner \ {o} : sources'[q] = sources[q]
  BY <1>1 DEF Types
<1>4. member' = member \ {o}
  BY <1>2, Members
<1> DEFINE t == [op |-> "leave", owner |-> o]
           y == [ses["jvb"] EXCEPT !.tasks = Append(@, t)]
<1>5. t \in Task
  BY DEF Task
<1>6. y \in SessionState
  <2>1. ses["jvb"] \in SessionState
    BY SessionIs DEF Types
  <2> HIDE DEF t
  <2> QED BY <2>1, <1>5, QueueFields
<1>7. ses' = [jvb |-> y, p2p |-> NewSession]
  BY DEF MemberLeft
<1>8. ses' \in [Session -> SessionState] /\ ses'["p2p"] = NewSession /\ ses'["jvb"] = y
  <2> HIDE DEF y
  <2>1. NewSession \in SessionState
    BY NewSessionOK
  <2> QED BY <2>1, <1>6, <1>7, SessionIs
<1>9. NoTrack \in TrackState
  BY DEF NoTrack, TrackState
<1> DEFINE f == [track["jvb"] EXCEPT ![o].asked = FALSE]
           g == [q \in Owner |-> NoTrack]
<1>10. /\ f \in [Owner -> TrackState]
       /\ \A q \in Owner : /\ f[q].muted = track["jvb"][q].muted
                           /\ f[q].dry = track["jvb"][q].dry
                           /\ q # o => f[q].asked = track["jvb"][q].asked
                           /\ f[o].asked = FALSE
  <2>1. track["jvb"] \in [Owner -> TrackState]
    BY TracksType, SessionIs
  <2> QED BY <2>1 DEF TrackState
<1>11. g \in [Owner -> TrackState] /\ \A q \in Owner : g[q] = NoTrack
  BY <1>9
<1>12. track' = [jvb |-> f, p2p |-> g]
  BY DEF MemberLeft
<1> HIDE DEF f, g
<1>13. track' \in Tracks /\ track'["jvb"] = f /\ track'["p2p"] = g
  BY <1>10, <1>11, <1>12, SessionIs DEF Tracks
<1>14. shown' \subseteq Session \X Owner
  BY DEF MemberLeft, Types
<1> DEFINE its == {<<s, o>> : s \in {s \in Session : o \in ses[s].tracks}}
           e(k) == ForgetTimes(k, its, View(k))
<1>15. det' = [k \in Key |-> e(k)]
  BY DEF MemberLeft
<1>16. ASSUME NEW k \in Key
       PROVE  e(k) \in Detector /\ e(k).enteredFor = det[k].enteredFor
  <2>1. View(k) \in Sight
    BY ViewType DEF Types
  <2> QED BY <2>1, ForgetTimesType DEF Types
<1> HIDE DEF e
<1>17. det' \in [Key -> Detector] /\ \A k \in Key : det'[k].enteredFor = det[k].enteredFor
  BY <1>15, <1>16
<1> QED BY <1>1, <1>2, <1>3, <1>4, <1>5, <1>8, <1>10, <1>11, <1>13, <1>14, <1>17

LEMMA ConnectedTypes ==
  ASSUME Types, P2PConnected
  PROVE  /\ p2p = "starting" /\ p2p' = "active"
         /\ track' \in Tracks /\ track'["p2p"] = track["p2p"]
         /\ \A q \in Owner : /\ track'["jvb"][q].muted = track["jvb"][q].muted
                             /\ track'["jvb"][q].dry = track["jvb"][q].dry
                             /\ track'["jvb"][q].asked = FALSE
         /\ shown' \subseteq Session \X Owner
         /\ det' \in [Key -> Detector]
         /\ \A k \in Key : det'[k].enteredFor = det[k].enteredFor
<1>1. p2p = "starting" /\ p2p' = "active"
  BY DEF P2PConnected
<1> DEFINE x(q) == [track["jvb"][q] EXCEPT !.asked = FALSE]
           f == [q \in Owner |-> x(q)]
<1>2. ASSUME NEW q \in Owner
      PROVE  x(q) \in TrackState /\ x(q).muted = track["jvb"][q].muted
             /\ x(q).dry = track["jvb"][q].dry /\ x(q).asked = FALSE
  <2>1. track["jvb"][q] \in TrackState
    BY TracksType, SessionIs
  <2> QED BY <2>1 DEF TrackState
<1>3. track' = [track EXCEPT !["jvb"] = f]
  BY DEF P2PConnected
<1> HIDE DEF x
<1>4. f \in [Owner -> TrackState] /\ \A q \in Owner : f[q] = x(q)
  BY <1>2
<1> HIDE DEF f
<1>5. track' \in Tracks /\ track'["p2p"] = track["p2p"] /\ track'["jvb"] = f
  BY <1>3, <1>4, SessionIs DEF Types, Tracks
<1>6. shown' \subseteq Session \X Owner
  <2>1. ses["p2p"].tracks \subseteq Owner
    BY SessionFields, SessionIs
  <2> QED BY <2>1, SessionIs DEF P2PConnected
<1> DEFINE removed == {k \in shown : k[1] = "jvb"}
           connected(k) == [View(k) EXCEPT !.p2p = TRUE]
           refreshed(k) == IF k \in Watched THEN Figure(det[k], connected(k)) ELSE det[k]
           e(k) == IF names THEN IF k \in removed THEN DisposeStatus(refreshed(k)) ELSE refreshed(k)
                   ELSE IF k \in Watched /\ <<"jvb", k[2]>> \in removed
                        THEN Figure(ClearTimes(refreshed(k)), NoVideo(connected(k)))
                        ELSE refreshed(k)
<1>7. det' = [k \in Key |-> e(k)]
  BY DEF P2PConnected
<1>8. ASSUME NEW k \in Key
      PROVE  e(k) \in Detector /\ e(k).enteredFor = det[k].enteredFor
  <2>1. View(k) \in Sight
    BY ViewType DEF Types
  <2>2. connected(k) \in Sight
    BY <2>1 DEF Sight
  <2> HIDE DEF connected
  <2>3. det[k] \in Detector
    BY DEF Types
  <2>4. refreshed(k) \in Detector /\ refreshed(k).enteredFor = det[k].enteredFor
    BY <2>2, <2>3, FigureFields
  <2>5. NoVideo(connected(k)) \in Sight
    BY <2>2 DEF NoVideo, Sight
  <2> HIDE DEF refreshed
  <2>6. ClearTimes(refreshed(k)) \in Detector
        /\ ClearTimes(refreshed(k)).enteredFor = det[k].enteredFor
    BY <2>4, ClearTimesFields
  <2>7. DisposeStatus(refreshed(k)) \in Detector
        /\ DisposeStatus(refreshed(k)).enteredFor = det[k].enteredFor
    BY <2>4, DisposeStatusFields
  <2>8. Figure(ClearTimes(refreshed(k)), NoVideo(connected(k))) \in Detector
        /\ Figure(ClearTimes(refreshed(k)), NoVideo(connected(k))).enteredFor = det[k].enteredFor
    BY <2>5, <2>6, FigureFields
  <2> QED BY <2>4, <2>7, <2>8
<1> HIDE DEF e
<1> QED BY <1>1, <1>2, <1>4, <1>5, <1>6, <1>7, <1>8

LEMMA AddedTypes ==
  ASSUME Types, NEW s \in Session, RemoteTrackAdded(s), ses[s].tasks # <<>>,
         NEW o, o = ses[s].event.owner
  PROVE  /\ o \in Owner /\ ses[s].event # NoEvent
         /\ EndTask(s, IF o \in member THEN ses[s].tracks \cup {o} ELSE ses[s].tracks)
         /\ ses[s].tracks \cup {o} \in SUBSET Owner
         /\ o \notin member => track' = track /\ shown' = shown
         /\ o \in member =>
              /\ track'[s][o].muted = GetPeerMediaInfo(o) /\ track'[s][o].dry = TRUE
              /\ track'[s][o].asked = FALSE
              /\ \A r \in Session, q \in Owner : r # s \/ q # o => track'[r][q] = track[r][q]
              /\ shown' = IF Active(s) THEN shown \cup {<<s, o>>} ELSE shown
         /\ track' \in Tracks /\ shown' \subseteq Session \X Owner
<1>1. ses[s].event.kind = "added"
  BY DEF RemoteTrackAdded
<1>2. o \in Owner /\ ses[s].event # NoEvent /\ ses[s].tracks \subseteq Owner
  BY <1>1, SessionFields
<1>3. track \in Tracks /\ shown \subseteq Session \X Owner /\ s \in Session
  BY DEF Types, Tracks
<1>4. CASE o \notin member
  BY <1>2, <1>3, <1>4 DEF RemoteTrackAdded
<1>5. CASE o \in member
  <2> DEFINE x == [muted |-> GetPeerMediaInfo(o), dry |-> TRUE, asked |-> FALSE]
  <2>1. presence[o].muted \in BOOLEAN
    BY <1>2 DEF Types, OwnerPresence
  <2>2. GetPeerMediaInfo(o) \in BOOLEAN
    BY <2>1 DEF GetPeerMediaInfo
  <2>3. x \in TrackState /\ x.muted = GetPeerMediaInfo(o) /\ x.dry = TRUE /\ x.asked = FALSE
    BY <2>2 DEF TrackState
  <2>4. track' = [track EXCEPT ![s][o] = x]
    BY <1>5 DEF RemoteTrackAdded
  <2> HIDE DEF x
  <2>5. /\ track' \in Tracks /\ track'[s][o] = x
        /\ \A r \in Session, q \in Owner : r # s \/ q # o => track'[r][q] = track[r][q]
    BY <1>2, <1>3, <2>3, <2>4, OneTrack, ZenonT(60)
  <2>6. shown' = IF Active(s) THEN shown \cup {<<s, o>>} ELSE shown
    BY <1>5 DEF RemoteTrackAdded, Active
  <2>7. EndTask(s, ses[s].tracks \cup {o})
    BY <1>5 DEF RemoteTrackAdded
  <2>8. shown' \subseteq Session \X Owner
    BY <1>2, <1>3, <2>6
  <2> QED BY <1>2, <1>5, <2>3, <2>5, <2>6, <2>7, <2>8
<1> QED BY <1>4, <1>5

LEMMA RemovedTypes ==
  ASSUME Types, NEW s \in Session, RemoteTrackRemoved(s), NEW o, o = ses[s].event.owner
  PROVE  /\ o \in Owner /\ ses[s].event # NoEvent
         /\ EndTask(s, ses[s].tracks \ {o}) /\ ses[s].tracks \ {o} \in SUBSET Owner
         /\ track' \in Tracks /\ track'[s][o] = NoTrack
         /\ \A r \in Session, q \in Owner : r # s \/ q # o => track'[r][q] = track[r][q]
         /\ shown' = shown \ {<<s, o>>} /\ shown' \subseteq Session \X Owner
         /\ det' \in [Key -> Detector]
         /\ det'[<<s, o>>] = NewDetector
         /\ \A k \in Key : /\ k # <<s, o>> =>
                                det'[k] = ForgetTimes(k, {<<s, o>>} \cap shown, NoVideo(View(k)))
                           /\ det'[k].enteredFor \in {det[k].enteredFor, Off}
<1>1. ses[s].event.kind = "removed"
  BY DEF RemoteTrackRemoved
<1>2. o \in Owner /\ ses[s].event # NoEvent /\ ses[s].tracks \subseteq Owner
  BY <1>1, SessionFields
<1>3. track \in Tracks /\ shown \subseteq Session \X Owner /\ s \in Session
  BY DEF Types, Tracks
<1>4. NoTrack \in TrackState
  BY DEF NoTrack, TrackState
<1>5. track' = [track EXCEPT ![s][o] = NoTrack]
  BY DEF RemoteTrackRemoved
<1>6. /\ track' \in Tracks /\ track'[s][o] = NoTrack
      /\ \A r \in Session, q \in Owner : r # s \/ q # o => track'[r][q] = track[r][q]
  <2>1. o \in Owner
    BY <1>2
  <2> QED BY ONLY <2>1, <1>3, <1>4, <1>5, s \in Session, OneTrack, ZenonT(60)
<1> DEFINE f(k) == ForgetTimes(k, {<<s, o>>} \cap shown, NoVideo(View(k)))
           e(k) == IF k = <<s, o>> THEN NewDetector ELSE f(k)
<1>7. det' = [k \in Key |-> e(k)]
  BY DEF RemoteTrackRemoved
<1>8. ASSUME NEW k \in Key
      PROVE  e(k) \in Detector /\ e(k).enteredFor \in {det[k].enteredFor, Off}
  <2>1. View(k) \in Sight
    BY ViewType DEF Types
  <2>2. NoVideo(View(k)) \in Sight
    BY <2>1 DEF NoVideo, Sight
  <2>3. f(k) \in Detector /\ f(k).enteredFor = det[k].enteredFor
    BY <2>2, ForgetTimesType DEF Types
  <2> HIDE DEF f
  <2> QED BY <2>3, NewDetectorFields
<1>9. <<s, o>> \in Key
  BY <1>2 DEF Key
<1>10. e(<<s, o>>) = NewDetector /\ \A k \in Key : k # <<s, o>> => e(k) = f(k)
  OBVIOUS
<1> HIDE DEF e
<1>11. /\ det' \in [Key -> Detector] /\ det'[<<s, o>>] = NewDetector
       /\ \A k \in Key : det'[k] = e(k)
  BY <1>7, <1>8, <1>9, <1>10
<1>12. EndTask(s, ses[s].tracks \ {o}) /\ shown' = shown \ {<<s, o>>}
  BY DEF RemoteTrackRemoved
<1> QED BY <1>2, <1>3, <1>6, <1>8, <1>10, <1>11, <1>12

-----------------------------------------------------------------------------
(***************************************************************************)
(* SessionsOK.                                                             *)
(***************************************************************************)

LEMMA SessionsFrame ==
  ASSUME SessionsOK, ses' = ses, (p2p' = "none") = (p2p = "none"),
         \A o \in Owner : /\ presence'[o].place = presence[o].place
                          /\ presence'[o].source = presence[o].source
  PROVE  SessionsOK' /\ member' = member
<1>1. member' = member
  BY Members
<1> QED BY <1>1 DEF SessionsOK

(* Some participants come or go, and one session queues a task.            *)
LEMMA SourceAddSessions ==
  ASSUME Types, SessionsOK, NEW o \in Owner, SourceAdd(o)
  PROVE  /\ SessionsOK' /\ presence' \in [Owner -> OwnerPresence] /\ member' = member
         /\ ses' \in [Session -> SessionState]
         /\ \A s \in Session : ses'[s].tracks = ses[s].tracks
         /\ \A q \in Owner : /\ presence'[q].place = presence[q].place
                             /\ presence'[q].muted = presence[q].muted
                             /\ presence'[q].modern = presence[q].modern
<1> DEFINE t == [op |-> "add", owner |-> o]
<1>1. /\ presence[o].place # "out" /\ presence[o].source = "none" /\ p2p' = p2p
      /\ presence' = [presence EXCEPT ![o].source = "added"] /\ Queue("jvb", "add", o)
  BY DEF SourceAdd
<1>2. /\ presence' \in [Owner -> OwnerPresence]
      /\ \A q \in Owner : /\ presence'[q].place = presence[q].place
                          /\ presence'[q].muted = presence[q].muted
                          /\ presence'[q].modern = presence[q].modern
                          /\ q # o => presence'[q].source = presence[q].source
      /\ presence'[o].source = "added"
  BY <1>1 DEF Types, OwnerPresence
<1>3. member' = member
  BY <1>2, Members
<1>4. /\ ses' \in [Session -> SessionState] /\ ses'["p2p"] = ses["p2p"]
      /\ ses'["jvb"] = [ses["jvb"] EXCEPT !.tasks = Append(@, t)] /\ t \in Task
      /\ ses["jvb"] \in SessionState
  BY <1>1, QueueSes, SessionIs DEF Types
<1>5. t.op = "add" /\ t.owner = o
  OBVIOUS
<1> HIDE DEF t
<1> DEFINE x == ses["jvb"]
           y == ses'["jvb"]
<1>6. /\ \A M : Matches(x, M) => Matches(y, M)
      /\ \A q \in Owner : q # o => /\ Without(x, q) => Without(y, q)
                                   /\ NotAdded(x, q) => NotAdded(y, q)
                                   /\ TakenBack(x, q) => TakenBack(y, q)
      /\ y.tracks = x.tracks
  <2> HIDE DEF x, y
  <2>1. x \in SessionState /\ y = [x EXCEPT !.tasks = Append(@, t)] /\ t \in Task
    BY <1>4 DEF x, y
  <2> QED BY ONLY <1>5, <2>1, o \in Owner, QueueOK, QueueFields, SMTT(30)
<1> HIDE DEF x, y
<1>7. \A s \in Session : Matches(ses'[s], member')
  BY <1>3, <1>4, <1>6, SessionIs DEF SessionsOK, x, y
<1>8. \A s \in Session, q \in Owner : presence'[q].place = "out" => Without(ses'[s], q)
  <2>1. \A q \in Owner : presence'[q].place = "out" =>
          /\ presence[q].place = "out" /\ q # o
          /\ Without(ses["jvb"], q) /\ Without(ses["p2p"], q)
    BY <1>1, <1>2, SessionIs DEF SessionsOK
  <2> QED BY <1>4, <1>6, <2>1, SessionIs DEF x, y
<1>9. \A q \in Owner : /\ presence'[q].place = "out" => presence'[q].source = "none"
                       /\ presence'[q].source = "none" => NotAdded(y, q)
                       /\ presence'[q].source = "removed" => TakenBack(y, q)
  BY <1>1, <1>2, <1>6 DEF SessionsOK, x
<1>10. /\ p2p' = "none" => ses'["p2p"] = NewSession
       /\ p2p' # "none" => \E q \in Owner : member' = {q}
  BY <1>1, <1>3, <1>4 DEF SessionsOK
<1>11. \A s \in Session : ses'[s].tracks = ses[s].tracks
  BY <1>4, <1>6, SessionIs DEF x, y
<1> QED BY <1>2, <1>3, <1>4, <1>7, <1>8, <1>9, <1>10, <1>11 DEF SessionsOK, y

LEMMA SourceRemoveSessions ==
  ASSUME Types, SessionsOK, NEW o \in Owner, SourceRemove(o)
  PROVE  /\ SessionsOK' /\ presence' \in [Owner -> OwnerPresence] /\ member' = member
         /\ ses' \in [Session -> SessionState]
         /\ \A s \in Session : ses'[s].tracks = ses[s].tracks
         /\ \A q \in Owner : /\ presence'[q].place = presence[q].place
                             /\ presence'[q].muted = presence[q].muted
                             /\ presence'[q].modern = presence[q].modern
<1> DEFINE t == [op |-> "remove", owner |-> o]
<1>1. /\ presence[o].source = "added" /\ p2p' = p2p
      /\ presence' = [presence EXCEPT ![o].source = "removed"] /\ Queue("jvb", "remove", o)
  BY DEF SourceRemove
<1>2. /\ presence' \in [Owner -> OwnerPresence]
      /\ \A q \in Owner : /\ presence'[q].place = presence[q].place
                          /\ presence'[q].muted = presence[q].muted
                          /\ presence'[q].modern = presence[q].modern
                          /\ q # o => presence'[q].source = presence[q].source
      /\ presence'[o].source = "removed"
  BY <1>1 DEF Types, OwnerPresence
<1>3. member' = member
  BY <1>2, Members
<1>4. /\ ses' \in [Session -> SessionState] /\ ses'["p2p"] = ses["p2p"]
      /\ ses'["jvb"] = [ses["jvb"] EXCEPT !.tasks = Append(@, t)] /\ t \in Task
      /\ ses["jvb"] \in SessionState
  BY <1>1, QueueSes, SessionIs DEF Types
<1>5. t.op = "remove" /\ t.owner = o
  OBVIOUS
<1> HIDE DEF t
<1> DEFINE x == ses["jvb"]
           y == ses'["jvb"]
<1>6. /\ \A M : Matches(x, M) => Matches(y, M)
      /\ \A q \in Owner : q # o => /\ Without(x, q) => Without(y, q)
                                   /\ NotAdded(x, q) => NotAdded(y, q)
                                   /\ TakenBack(x, q) => TakenBack(y, q)
      /\ TakenBack(y, o)
      /\ y.tracks = x.tracks
  <2> HIDE DEF x, y
  <2>1. x \in SessionState /\ y = [x EXCEPT !.tasks = Append(@, t)] /\ t \in Task
    BY <1>4 DEF x, y
  <2> QED BY ONLY <1>5, <2>1, o \in Owner, QueueOK, QueueFields
<1> HIDE DEF x, y
<1>7. \A s \in Session : Matches(ses'[s], member')
  BY <1>3, <1>4, <1>6, SessionIs DEF SessionsOK, x, y
<1>8. \A s \in Session, q \in Owner : presence'[q].place = "out" => Without(ses'[s], q)
  <2>1. \A q \in Owner : presence'[q].place = "out" =>
          /\ presence[q].place = "out" /\ q # o
          /\ Without(ses["jvb"], q) /\ Without(ses["p2p"], q)
    <3>1. \A q \in Owner : presence[q].place = "out" => q # o
      BY <1>1 DEF SessionsOK
    <3> QED BY <1>2, <3>1, SessionIs DEF SessionsOK
  <2> QED BY <1>4, <1>6, <2>1, SessionIs DEF x, y
<1>9. \A q \in Owner : /\ presence'[q].place = "out" => presence'[q].source = "none"
                       /\ presence'[q].source = "none" => NotAdded(y, q)
                       /\ presence'[q].source = "removed" => TakenBack(y, q)
  BY <1>1, <1>2, <1>6 DEF SessionsOK, x
<1>10. /\ p2p' = "none" => ses'["p2p"] = NewSession
       /\ p2p' # "none" => \E q \in Owner : member' = {q}
  BY <1>1, <1>3, <1>4 DEF SessionsOK
<1>11. \A s \in Session : ses'[s].tracks = ses[s].tracks
  BY <1>4, <1>6, SessionIs DEF x, y
<1> QED BY <1>2, <1>3, <1>4, <1>7, <1>8, <1>9, <1>10, <1>11 DEF SessionsOK, y

LEMMA StartP2PSessions ==
  ASSUME Types, SessionsOK, NEW o \in Owner, StartP2P(o)
  PROVE  /\ SessionsOK' /\ member' = member
         /\ ses' \in [Session -> SessionState]
         /\ \A s \in Session : ses'[s].tracks = ses[s].tracks
         /\ p2p = "none" /\ p2p' = "starting" /\ presence' = presence
<1> DEFINE t == [op |-> "add", owner |-> o]
<1>1. /\ p2p = "none" /\ member = {o} /\ p2p' = "starting" /\ presence' = presence
      /\ Queue("p2p", "add", o)
  BY DEF StartP2P
<1>2. member' = member
  BY <1>1, Members
<1>3. /\ ses' \in [Session -> SessionState] /\ ses'["jvb"] = ses["jvb"]
      /\ ses'["p2p"] = [ses["p2p"] EXCEPT !.tasks = Append(@, t)] /\ t \in Task
      /\ ses["p2p"] \in SessionState
  BY <1>1, QueueSes, SessionIs DEF Types
<1>4. t.op = "add" /\ t.owner = o /\ presence[o].place # "out"
  BY <1>1, Members
<1> HIDE DEF t
<1> DEFINE x == ses["p2p"]
           y == ses'["p2p"]
<1>5. /\ \A M : Matches(x, M) => Matches(y, M)
      /\ \A q \in Owner : q # o => (Without(x, q) => Without(y, q))
      /\ y.tracks = x.tracks
  <2> HIDE DEF x, y
  <2>1. x \in SessionState /\ y = [x EXCEPT !.tasks = Append(@, t)] /\ t \in Task
    BY <1>3 DEF x, y
  <2> QED BY ONLY <1>4, <2>1, o \in Owner, QueueOK, QueueFields
<1> HIDE DEF x, y
<1>6. \A s \in Session : Matches(ses'[s], member')
  BY <1>2, <1>3, <1>5, SessionIs DEF SessionsOK, x, y
<1>7. \A s \in Session, q \in Owner : presence'[q].place = "out" => Without(ses'[s], q)
  BY <1>1, <1>3, <1>4, <1>5, SessionIs DEF SessionsOK, x, y
<1>8. \A s \in Session : ses'[s].tracks = ses[s].tracks
  BY <1>3, <1>5, SessionIs DEF x, y
<1> QED BY <1>1, <1>2, <1>3, <1>6, <1>7, <1>8 DEF SessionsOK

LEMMA StopSessions ==
  ASSUME Types, SessionsOK, p2p' = "none", ses'["p2p"] = NewSession, ses'["jvb"] = ses["jvb"],
         NEW M, member' = member \cup M, M \subseteq Owner,
         \A o \in M : presence[o].place = "out",
         \A o \in Owner : /\ presence'[o].source = presence[o].source
                          /\ presence'[o].place = IF o \in M THEN "in" ELSE presence[o].place
  PROVE  SessionsOK'
<1> DEFINE x == ses["jvb"]
<1>1. Matches(x, member) /\ \A q \in Owner : presence[q].place = "out" => Without(x, q)
  BY SessionIs DEF SessionsOK
<1>2. member' \cap x.described \subseteq member
  BY <1>1 DEF Without
<1>3. Matches(x, member')
  BY <1>1, <1>2, MatchesFewer
<1>4. \A s \in Session : Matches(ses'[s], member')
  BY <1>3, NewSessionOK, SessionIs
<1>5. \A s \in Session, q \in Owner : presence'[q].place = "out" => Without(ses'[s], q)
  BY <1>1, NewSessionOK, SessionIs
<1> QED BY <1>4, <1>5 DEF SessionsOK

LEMMA LeftSessions ==
  ASSUME Types, SessionsOK, NEW o \in Owner, MemberLeft(o)
  PROVE  /\ SessionsOK'
         /\ ses'["jvb"].tracks = ses["jvb"].tracks /\ ses'["p2p"].tracks = {}
<1> DEFINE t == [op |-> "leave", owner |-> o]
           x == ses["jvb"]
           y == ses'["jvb"]
<1>1. /\ o \in member /\ presence'[o].place = "gone" /\ presence'[o].source = presence[o].source
      /\ \A q \in Owner \ {o} : presence'[q] = presence[q]
      /\ member' = member \ {o} /\ p2p' = "none" /\ ses'["p2p"] = NewSession
      /\ y = [x EXCEPT !.tasks = Append(@, t)] /\ t \in Task
  BY LeftTypes
<1>2. t.op = "leave" /\ t.owner = o /\ presence[o].place = "in" /\ x \in SessionState
  BY <1>1, Members, SessionIs DEF Types
<1> HIDE DEF t, x, y
<1>3. /\ \A M : Matches(x, M) => Matches(y, M)
      /\ \A q \in Owner : /\ q # o => (Without(x, q) => Without(y, q))
                          /\ NotAdded(x, q) => NotAdded(y, q)
                          /\ TakenBack(x, q) => TakenBack(y, q)
      /\ y.tracks = x.tracks
  <2>1. t.op # "add"
    BY <1>2
  <2>2. y = [x EXCEPT !.tasks = Append(@, t)] /\ t \in Task
    BY <1>1
  <2> QED BY ONLY <1>2, <2>1, <2>2, o \in Owner, QueueOK, QueueFields
<1>4. Matches(x, member)
  BY SessionIs DEF SessionsOK, x
<1>5. Matches(y, member')
  <2>1. Matches(x, member')
    BY <1>1, <1>4, MatchesFewer
  <2> QED BY <1>3, <2>1
<1>6. \A s \in Session : Matches(ses'[s], member')
  BY <1>1, <1>5, NewSessionOK, SessionIs DEF y
<1>7. \A q \in Owner : presence'[q].place = "out" => presence[q].place = "out" /\ q # o
  BY <1>1
<1>8. \A s \in Session, q \in Owner : presence'[q].place = "out" => Without(ses'[s], q)
  <2>1. \A q \in Owner : presence[q].place = "out" => Without(x, q)
    BY SessionIs DEF SessionsOK, x
  <2> QED BY <1>1, <1>3, <1>7, <2>1, NewSessionOK, SessionIs DEF y
<1>9. \A q \in Owner : /\ presence'[q].place = "out" => presence'[q].source = "none"
                       /\ presence'[q].source = "none" => NotAdded(y, q)
                       /\ presence'[q].source = "removed" => TakenBack(y, q)
  <2>1. \A q \in Owner : presence'[q].source = presence[q].source
    BY <1>1
  <2> QED BY <1>3, <1>7, <2>1 DEF SessionsOK, x
<1>10. NewSession.tracks = {}
  BY DEF NewSession
<1> QED BY <1>1, <1>3, <1>6, <1>8, <1>9, <1>10 DEF SessionsOK, x, y

(* A session's own step.                                                   *)
LEMMA OneSession ==
  ASSUME SessionsOK, NEW s \in Session, \A r \in Session \ {s} : ses'[r] = ses[r],
         presence' = presence, p2p' = p2p, ses[s] # NewSession, Matches(ses'[s], member),
         \A o \in Owner : /\ Without(ses[s], o) => Without(ses'[s], o)
                          /\ NotAdded(ses[s], o) => NotAdded(ses'[s], o)
                          /\ TakenBack(ses[s], o) => TakenBack(ses'[s], o)
  PROVE  SessionsOK' /\ member' = member
<1>1. member' = member
  BY Members
<1>2. \A r \in Session : Matches(ses'[r], member')
  BY <1>1 DEF SessionsOK
<1>3. \A r \in Session, o \in Owner : presence'[o].place = "out" => Without(ses'[r], o)
  BY DEF SessionsOK
<1>4. \A o \in Owner : /\ presence'[o].place = "out" => presence'[o].source = "none"
                       /\ presence'[o].source = "none" => NotAdded(ses'["jvb"], o)
                       /\ presence'[o].source = "removed" => TakenBack(ses'["jvb"], o)
  BY SessionIs DEF SessionsOK
<1>5. p2p' = "none" => ses'["p2p"] = NewSession
  BY SessionIs DEF SessionsOK
<1> QED BY <1>1, <1>2, <1>3, <1>4, <1>5 DEF SessionsOK

LEMMA RunTaskSessions ==
  ASSUME Types, SessionsOK, NEW s \in Session, RunTask(s)
  PROVE  /\ SessionsOK' /\ member' = member /\ ses' \in [Session -> SessionState]
         /\ \A r \in Session : ses'[r].tracks = ses[r].tracks
<1> DEFINE x == ses[s]
           y == ses'[s]
           task == Head(x.tasks)
           described == Describes(s, task)
<1>1. /\ task \in Task /\ described \subseteq Owner
      /\ ses' \in [Session -> SessionState]
      /\ x.tasks # <<>> /\ x.event = NoEvent
      /\ \A r \in Session \ {s} : ses'[r] = ses[r]
      /\ y.tracks = x.tracks
      /\ described = x.described =>
           /\ y.tasks = Tail(x.tasks) /\ y.described = x.described /\ y.event = NoEvent
      /\ described # x.described =>
           /\ y.tasks = x.tasks /\ y.described = described
           /\ y.event = [kind |-> IF task.op = "add" THEN "added" ELSE "removed",
                         owner |-> task.owner]
           /\ y.event # NoEvent
  BY RunTaskSes
<1>2. x \in SessionState /\ y \in SessionState /\ Matches(x, member)
  BY <1>1 DEF Types, SessionsOK
<1>3. /\ task.op = "add" => described = x.described \cup {task.owner}
      /\ task.op # "add" => \/ described = x.described
                            \/ described = x.described \ {task.owner}
      /\ task.op = "remove" => described = x.described \ {task.owner}
      /\ x.tracks \subseteq x.described
  <2>1. x.tracks \subseteq x.described
    BY <1>1, <1>2 DEF Matches
  <2>2. task.op \in {"add", "remove", "leave"}
    BY <1>1 DEF Task
  <2> QED BY <2>1, <2>2 DEF Describes
<1> HIDE DEF described
<1>0. ses[s] # NewSession /\ presence' = presence /\ p2p' = p2p
      /\ \A r \in Session : ses'[r].tracks = ses[r].tracks
  <2>1. NewSession.tasks = <<>> /\ ses[s].tasks # <<>>
    BY <1>1 DEF NewSession
  <2>2. \A r \in Session : ses'[r].tracks = ses[r].tracks
    BY <1>1
  <2>3. presence' = presence /\ p2p' = p2p
    BY DEF RunTask
  <2> QED BY <2>1, <2>2, <2>3
<1>4. CASE described = x.described
  <2> HIDE DEF x, y
  <2>1. Matches(y, member)
    BY <1>1, <1>2, <1>4 DEF Matches
  <2>2. ASSUME NEW o \in Owner
        PROVE  /\ Without(x, o) => Without(y, o)
               /\ NotAdded(x, o) => NotAdded(y, o)
               /\ TakenBack(x, o) => TakenBack(y, o)
    <3>1. Without(x, o) => o \notin y.tracks
      BY <1>1 DEF Without
    <3>2. Head(x.tasks).op = "remove" /\ Head(x.tasks).owner = o => o \notin x.described
      BY <1>3, <1>4
    <3>3. x.tasks # <<>> /\ y.tasks = Tail(x.tasks) /\ y.described = x.described
      BY <1>1, <1>4
    <3> QED BY ONLY <1>2, <3>1, <3>2, <3>3, o \in Owner, DoneOK
  <2> QED BY <1>0, <1>1, <1>2, <2>1, <2>2, OneSession DEF x, y
<1>5. CASE described # x.described
  <2> HIDE DEF x, y
  <2> DEFINE e == y.event
  <2>1. e # NoEvent /\ e.owner = task.owner
        /\ (task.op = "add" => e.kind = "added") /\ (task.op # "add" => e.kind = "removed")
        /\ y.tasks = x.tasks /\ y.described = described /\ y.tracks = x.tracks
    BY <1>1, <1>5
  <2> HIDE DEF e
  <2>2. /\ task.op = "add" => task.owner \notin x.described /\ task.owner \in described
        /\ task.op # "add" => described = x.described \ {task.owner}
    BY <1>3, <1>5
  <2>3. /\ x.tracks \subseteq x.described /\ x.described \cap member \subseteq x.tracks
    BY <1>1, <1>2 DEF Matches
  <2>4. Matches(y, member)
    <3>1. CASE task.op = "add"
      <4>1. e.kind = "added" /\ e.kind # "removed"
        BY <2>1, <3>1
      <4>2. task.owner \in described /\ task.owner \notin x.tracks /\ x.tracks \subseteq described
            /\ described \cap member \subseteq x.tracks \cup {task.owner}
        <5>1. described = x.described \cup {task.owner}
          BY <1>3, <3>1
        <5>2. task.owner \notin x.described
          BY <2>2, <3>1
        <5> QED BY ONLY <2>3, <5>1, <5>2
      <4> QED BY <1>1, <2>1, <3>1, <4>1, <4>2 DEF Matches, e
    <3>2. CASE task.op # "add"
      <4>1. e.kind = "removed" /\ e.kind # "added"
        BY <2>1, <3>2
      <4>2. task.owner \notin described /\ x.tracks \subseteq described \cup {task.owner}
            /\ described \cap member \subseteq x.tracks
        BY <2>2, <2>3, <3>2
      <4> QED BY <1>1, <2>1, <3>2, <4>1, <4>2 DEF Matches, e
    <3> QED BY <3>1, <3>2
  <2>5. ASSUME NEW o \in Owner
        PROVE  /\ Without(x, o) => Without(y, o)
               /\ NotAdded(x, o) => NotAdded(y, o)
               /\ TakenBack(x, o) => TakenBack(y, o)
    <3>1. o \in y.described => o \in x.described \/ Adds(Head(x.tasks), o)
      BY <1>3, <2>1 DEF Adds
    <3>2. x.tasks # <<>>
      BY <1>1
    <3> QED BY ONLY <1>2, <2>1, <3>1, <3>2, o \in Owner, DescribedOK
  <2> QED BY <1>0, <1>1, <1>2, <2>4, <2>5, OneSession DEF x, y
<1> QED BY <1>4, <1>5

LEMMA AddedSessions ==
  ASSUME Types, SessionsOK, NEW s \in Session, RemoteTrackAdded(s),
         NEW o, o = ses[s].event.owner
  PROVE  /\ SessionsOK' /\ member' = member /\ ses' \in [Session -> SessionState]
         /\ ses[s].tasks # <<>>
         /\ ses'[s].tracks = IF o \in member THEN ses[s].tracks \cup {o} ELSE ses[s].tracks
         /\ \A r \in Session \ {s} : ses'[r] = ses[r]
<1> DEFINE x == ses[s]
           y == ses'[s]
           z == IF o \in member THEN ses[s].tracks \cup {o} ELSE ses[s].tracks
<1>1. x.event.kind = "added" /\ presence' = presence /\ p2p' = p2p
  BY DEF RemoteTrackAdded
<1>2. x.event # NoEvent /\ Matches(x, member) /\ x \in SessionState
  BY <1>1, SessionFields DEF SessionsOK
<1>3. /\ x.tasks # <<>> /\ o = Head(x.tasks).owner
      /\ Head(x.tasks).op = "add" /\ o \in x.described /\ o \notin x.tracks
      /\ x.tracks \subseteq x.described /\ x.described \cap member \subseteq x.tracks \cup {o}
  <2> HIDE DEF x
  <2>1. o = x.event.owner
    BY DEF x
  <2> QED BY <1>1, <1>2, <2>1 DEF Matches
<1>4. z \in SUBSET Owner /\ EndTask(s, z)
  BY <1>3, AddedTypes
<1> HIDE DEF z
<1>5. /\ ses' \in [Session -> SessionState] /\ y \in SessionState
      /\ \A r \in Session \ {s} : ses'[r] = ses[r]
      /\ y.tracks = z /\ y.tasks = Tail(x.tasks)
      /\ y.described = x.described /\ y.event = NoEvent
  BY <1>3, <1>4, EndTaskSes
<1> HIDE DEF x, y
<1>6. Matches(y, member)
  BY <1>3, <1>5 DEF Matches, z, x
<1>7. ASSUME NEW q \in Owner
      PROVE  /\ Without(x, q) => Without(y, q)
             /\ NotAdded(x, q) => NotAdded(y, q)
             /\ TakenBack(x, q) => TakenBack(y, q)
  <2>1. Without(x, q) => q \notin y.tracks
    BY <1>3, <1>5 DEF Without, z, x
  <2>2. ~(Head(x.tasks).op = "remove" /\ Head(x.tasks).owner = q)
    BY <1>3
  <2>3. x.tasks # <<>>
    BY <1>3
  <2> QED BY ONLY <1>2, <1>5, <2>1, <2>2, <2>3, q \in Owner, DoneOK
<1>8. NewSession.tasks = <<>>
  BY DEF NewSession
<1>9. SessionsOK' /\ member' = member
  BY <1>1, <1>3, <1>5, <1>6, <1>7, <1>8, OneSession DEF x, y
<1> QED BY <1>3, <1>5, <1>9 DEF x, y, z

LEMMA RemovedSessions ==
  ASSUME Types, SessionsOK, NEW s \in Session, RemoteTrackRemoved(s),
         NEW o, o = ses[s].event.owner
  PROVE  /\ SessionsOK' /\ member' = member /\ ses' \in [Session -> SessionState]
         /\ ses'[s].tracks = ses[s].tracks \ {o}
         /\ \A r \in Session \ {s} : ses'[r] = ses[r]
<1> DEFINE x == ses[s]
           y == ses'[s]
           z == ses[s].tracks \ {o}
<1>1. x.event.kind = "removed" /\ presence' = presence /\ p2p' = p2p
  BY DEF RemoteTrackRemoved
<1>2. x.event # NoEvent /\ Matches(x, member) /\ x \in SessionState
  BY <1>1, SessionFields DEF SessionsOK
<1>3. /\ x.tasks # <<>> /\ o = Head(x.tasks).owner /\ o \notin x.described
      /\ x.tracks \subseteq x.described \cup {o} /\ x.described \cap member \subseteq x.tracks
  <2> HIDE DEF x
  <2>1. o = x.event.owner
    BY DEF x
  <2> QED BY <1>1, <1>2, <2>1 DEF Matches
<1>4. z \in SUBSET Owner /\ EndTask(s, z)
  BY RemovedTypes
<1> HIDE DEF z
<1>5. /\ ses' \in [Session -> SessionState] /\ y \in SessionState
      /\ \A r \in Session \ {s} : ses'[r] = ses[r]
      /\ y.tracks = z /\ y.tasks = Tail(x.tasks)
      /\ y.described = x.described /\ y.event = NoEvent
  BY <1>3, <1>4, EndTaskSes
<1> HIDE DEF x, y
<1>6. Matches(y, member)
  BY <1>3, <1>5 DEF Matches, z, x
<1>7. ASSUME NEW q \in Owner
      PROVE  /\ Without(x, q) => Without(y, q)
             /\ NotAdded(x, q) => NotAdded(y, q)
             /\ TakenBack(x, q) => TakenBack(y, q)
  <2>1. Without(x, q) => q \notin y.tracks
    BY <1>3, <1>5 DEF Without, z, x
  <2>2. Head(x.tasks).op = "remove" /\ Head(x.tasks).owner = q => q \notin x.described
    BY <1>3
  <2>3. x.tasks # <<>>
    BY <1>3
  <2> QED BY ONLY <1>2, <1>5, <2>1, <2>2, <2>3, q \in Owner, DoneOK
<1>8. NewSession.tasks = <<>>
  BY DEF NewSession
<1>9. SessionsOK' /\ member' = member
  BY <1>1, <1>3, <1>5, <1>6, <1>7, <1>8, OneSession DEF x, y
<1> QED BY <1>3, <1>5, <1>9 DEF x, y, z

-----------------------------------------------------------------------------
(***************************************************************************)
(* ShownOK and MutesOK.                                                    *)
(***************************************************************************)

LEMMA ShownFrame ==
  ASSUME ShownOK, shown' = shown, member' = member,
         \A s \in Session : ses'[s].tracks = ses[s].tracks,
         (p2p' = "active") = (p2p = "active"),
         \A s \in Session, o \in Owner :
            track'[s][o].asked => track[s][o].asked \/ <<s, o>> \in shown
  PROVE  ShownOK'
<1>1. \A s \in Session : Active(s)' <=> Active(s)
  BY DEF Active
<1> QED BY <1>1 DEF ShownOK

LEMMA MutesFrame ==
  ASSUME MutesOK, names' = names, member' \subseteq member, member \subseteq Owner,
         \A o \in member' : /\ presence'[o].muted = presence[o].muted
                            /\ presence'[o].modern = presence[o].modern
                            /\ sources'[o] = sources[o],
         \A s \in Session : \A o \in ses'[s].tracks \cap member' :
            o \in ses[s].tracks /\ track'[s][o].muted = track[s][o].muted
  PROVE  MutesOK'
<1>1. \A o \in member' : SendsSourceInfo(o)' => sources'[o] = SourceInfo(presence'[o].muted)
  BY DEF MutesOK, SendsSourceInfo
<1>2. \A s \in Session : \A o \in ses'[s].tracks \cap member' :
         track'[s][o].muted = presence'[o].muted
  BY DEF MutesOK, MutedAsTold
<1> QED BY <1>1, <1>2 DEF MutesOK, MutedAsTold

(* The participants' tracks are told of a mute state before it is kept.    *)
LEMMA PresenceMutes ==
  ASSUME Types, SessionsOK, ShownOK, MutesOK, NEW o \in Owner, NEW muted \in BOOLEAN,
         Presence(o, muted)
  PROVE  SessionsOK' /\ ShownOK' /\ MutesOK' /\ member' = member
<1>1. /\ presence'[o].muted = muted /\ presence'[o].place = "in"
      /\ presence'[o].modern = presence[o].modern /\ presence'[o].source = presence[o].source
      /\ \A q \in Owner \ {o} : presence'[q] = presence[q] /\ sources'[q] = sources[q]
      /\ SendsSourceInfo(o)' => sources'[o] = SourceInfo(muted)
      /\ presence[o].muted # muted /\ o \in member
  BY PresenceTypes
<1>2. ses' = ses /\ shown' = shown /\ p2p' = p2p /\ names' = names /\ SetMute(o, muted)
  BY DEF Presence
<1>3. presence[o].place = "in"
  BY <1>1, Members
<1>4. SessionsOK' /\ member' = member
  BY <1>1, <1>2, <1>3, SessionsFrame
<1>5. \A s \in Session, q \in Owner :
        /\ track'[s][q].asked = track[s][q].asked
        /\ q # o => track'[s][q].muted = track[s][q].muted
        /\ track'[s][o].muted = IF o \in ses[s].tracks /\ Told(o, muted) THEN muted
                                ELSE track[s][o].muted
  BY <1>2, SetMuteFields DEF Types, Tracks
<1>6. ShownOK'
  BY <1>2, <1>4, <1>5, ShownFrame
<1>7. Told(o, muted)
  <2>1. SourceInfo(presence[o].muted) # SourceInfo(muted)
    <3>1. presence[o].muted \in BOOLEAN
      BY DEF Types, OwnerPresence
    <3> QED BY <1>1, <3>1 DEF SourceInfo
  <2> QED BY <1>1, <2>1 DEF Told, MutesOK
<1>8. \A q \in member' : SendsSourceInfo(q)' => sources'[q] = SourceInfo(presence'[q].muted)
  BY <1>1, <1>2, <1>4, Members DEF MutesOK, SendsSourceInfo
<1>9. ASSUME NEW s \in Session, NEW q \in ses'[s].tracks \cap member'
      PROVE  track'[s][q].muted = presence'[q].muted
  <2>1. q \in Owner /\ q \in ses[s].tracks \cap member
    BY <1>2, <1>4, Members
  <2>2. CASE q = o
    BY <1>1, <1>5, <1>7, <2>1, <2>2
  <2>3. CASE q # o
    BY <1>1, <1>5, <2>1, <2>3 DEF MutesOK, MutedAsTold
  <2> QED BY <2>2, <2>3
<1> QED BY <1>4, <1>6, <1>8, <1>9 DEF MutesOK, MutedAsTold

(* P2P stops: the tracks of the bridge are shown instead.                  *)
LEMMA StopShown ==
  ASSUME Types, SessionsOK, ShownOK, StopP2P, audioOnly' = audioOnly,
         NEW M, member' = member \cup M, \A o \in M : presence[o].place = "out", M \subseteq Owner
  PROVE  ShownOK'
<1>1. /\ p2p' = "none" /\ ses'["p2p"] = NewSession /\ ses'["jvb"] = ses["jvb"]
      /\ track'["jvb"] = track["jvb"] /\ \A q \in Owner : track'["p2p"][q] = NoTrack
  BY StopP2PTypes
<1>2. NewSession.tracks = {} /\ NoTrack.asked = FALSE
  BY DEF NewSession, NoTrack
<1>3. shown' = IF p2p = "active"
                THEN {<<"jvb", o>> : o \in ses["jvb"].tracks \cap member'}
                ELSE shown
  BY DEF StopP2P
<1>4. Active("jvb")' /\ ~Active("p2p")'
  BY <1>1 DEF Active
<1>5. Active("jvb") <=> p2p # "active"
  BY DEF Active
<1>6. \A o \in M : o \notin ses["jvb"].tracks
  BY SessionIs DEF SessionsOK, Without
<1>7. ASSUME NEW s \in Session, NEW o \in Owner
      PROVE  <<s, o>> \in shown' <=> o \in member' /\ o \in ses'[s].tracks /\ Active(s)'
  <2>1. CASE p2p = "active"
    <3>1. s = "jvb" \/ s = "p2p"
      BY SessionIs
    <3> QED BY <1>1, <1>2, <1>3, <1>4, <2>1, <3>1
  <2>2. CASE p2p # "active"
    <3>1. <<s, o>> \in shown <=> o \in member /\ o \in ses[s].tracks /\ Active(s)
      BY DEF ShownOK
    <3>2. CASE s = "jvb"
      BY <1>1, <1>3, <1>4, <1>5, <1>6, <2>2, <3>1, <3>2
    <3>3. CASE s = "p2p"
      <4>1. ~Active(s)
        BY <2>2, <3>3 DEF Active
      <4> QED BY <1>3, <1>4, <2>2, <3>1, <3>3, <4>1
    <3> QED BY <3>2, <3>3, SessionIs
  <2> QED BY <2>1, <2>2
<1>8. ASSUME NEW s \in Session, NEW o \in Owner, track'[s][o].asked
      PROVE  <<s, o>> \in shown'
  <2>1. s = "jvb" /\ track["jvb"][o].asked
    BY <1>1, <1>2, <1>8, SessionIs
  <2>2. <<"jvb", o>> \in shown
    BY <2>1, SessionIs DEF ShownOK
  <2>3. p2p # "active"
    BY <1>5, <2>2, SessionIs DEF ShownOK
  <2> QED BY <1>3, <2>1, <2>2, <2>3
<1> QED BY <1>7, <1>8 DEF ShownOK

LEMMA JoinedMutes ==
  ASSUME Types, SessionsOK, ShownOK, MutesOK, NEW o \in Owner, NEW muted \in BOOLEAN,
         MemberJoined(o, muted)
  PROVE  SessionsOK' /\ ShownOK' /\ MutesOK'
<1>1. /\ presence[o].place = "out" /\ presence'[o].muted = muted /\ presence'[o].place = "in"
      /\ presence'[o].modern = presence[o].modern /\ presence'[o].source = presence[o].source
      /\ \A q \in Owner \ {o} : presence'[q] = presence[q] /\ sources'[q] = sources[q]
      /\ SendsSourceInfo(o)' => sources'[o] = SourceInfo(muted)
      /\ member' = member \cup {o}
  BY JoinedTypes
<1>2. StopP2P /\ audioOnly' = audioOnly /\ names' = names
  BY DEF MemberJoined
<1>3. /\ p2p' = "none" /\ ses'["p2p"] = NewSession /\ ses'["jvb"] = ses["jvb"]
      /\ track'["jvb"] = track["jvb"]
  BY <1>2, StopP2PTypes
<1> DEFINE M == {o}
<1>4. /\ member' = member \cup M /\ M \subseteq Owner /\ \A q \in M : presence[q].place = "out"
      /\ \A q \in Owner : /\ presence'[q].source = presence[q].source
                          /\ presence'[q].place = IF q \in M THEN "in" ELSE presence[q].place
  BY <1>1
<1> HIDE DEF M
<1>5. SessionsOK'
  BY <1>3, <1>4, StopSessions
<1>6. ShownOK'
  BY <1>2, <1>4, StopShown
<1>7. o \notin ses["jvb"].tracks /\ NewSession.tracks = {} /\ o \notin member
  BY <1>1, SessionIs, Members DEF SessionsOK, Without, NewSession
<1>8. \A q \in member' : SendsSourceInfo(q)' => sources'[q] = SourceInfo(presence'[q].muted)
  BY <1>1, <1>2, <1>7, Members DEF MutesOK, SendsSourceInfo
<1>9. ASSUME NEW s \in Session, NEW q \in ses'[s].tracks \cap member'
      PROVE  track'[s][q].muted = presence'[q].muted
  <2>1. s = "jvb" /\ q \in ses["jvb"].tracks /\ q # o /\ q \in member /\ q \in Owner
    BY <1>1, <1>3, <1>7, SessionIs, Members
  <2> QED BY <1>1, <1>3, <2>1, SessionIs DEF MutesOK, MutedAsTold
<1> QED BY <1>5, <1>6, <1>8, <1>9 DEF MutesOK, MutedAsTold

LEMMA StoppedMutes ==
  ASSUME Types, SessionsOK, ShownOK, MutesOK, P2PStopped
  PROVE  SessionsOK' /\ ShownOK' /\ MutesOK' /\ member' = member
<1>1. /\ StopP2P /\ audioOnly' = audioOnly /\ names' = names /\ presence' = presence
      /\ sources' = sources
  BY DEF P2PStopped
<1>2. /\ p2p' = "none" /\ ses'["p2p"] = NewSession /\ ses'["jvb"] = ses["jvb"]
      /\ track'["jvb"] = track["jvb"]
  BY <1>1, StopP2PTypes
<1>3. member' = member
  BY <1>1, Members
<1> DEFINE M == {}
<1>4. /\ member' = member \cup M /\ M \subseteq Owner /\ \A q \in M : presence[q].place = "out"
      /\ \A q \in Owner : /\ presence'[q].source = presence[q].source
                          /\ presence'[q].place = IF q \in M THEN "in" ELSE presence[q].place
  BY <1>1, <1>3
<1> HIDE DEF M
<1>5. SessionsOK'
  BY <1>2, <1>4, StopSessions
<1>6. ShownOK'
  BY <1>1, <1>4, StopShown
<1>7. \A s \in Session : \A o \in ses'[s].tracks \cap member' :
         o \in ses[s].tracks /\ track'[s][o].muted = track[s][o].muted
  <2>1. NewSession.tracks = {}
    BY DEF NewSession
  <2> QED BY <1>2, <2>1, SessionIs
<1>8. MutesOK'
  BY <1>1, <1>3, <1>7, Members, MutesFrame
<1> QED BY <1>3, <1>5, <1>6, <1>8

LEMMA LeftMutes ==
  ASSUME Types, SessionsOK, ShownOK, MutesOK, NEW o \in Owner, MemberLeft(o)
  PROVE  SessionsOK' /\ ShownOK' /\ MutesOK'
<1>1. /\ o \in member
      /\ \A q \in Owner \ {o} : presence'[q] = presence[q] /\ sources'[q] = sources[q]
      /\ member' = member \ {o} /\ p2p' = "none"
      /\ \A q \in Owner : /\ track'["p2p"][q] = NoTrack
                          /\ track'["jvb"][q].muted = track["jvb"][q].muted
                          /\ q # o => track'["jvb"][q].asked = track["jvb"][q].asked
                          /\ track'["jvb"][o].asked = FALSE
  BY LeftTypes
<1>2. SessionsOK' /\ ses'["jvb"].tracks = ses["jvb"].tracks /\ ses'["p2p"].tracks = {}
  BY LeftSessions
<1>3. names' = names /\ shown' = {k \in shown : k[2] # o}
  BY DEF MemberLeft
<1>4. NoTrack.asked = FALSE
  BY DEF NoTrack
<1>5. MutesOK'
  <2>1. \A s \in Session : \A q \in ses'[s].tracks \cap member' :
         q \in ses[s].tracks /\ track'[s][q].muted = track[s][q].muted
    BY <1>1, <1>2, SessionIs, Members
  <2>2. \A q \in member' : /\ presence'[q].muted = presence[q].muted
                           /\ presence'[q].modern = presence[q].modern
                           /\ sources'[q] = sources[q]
    BY <1>1, Members
  <2> QED BY <1>1, <1>3, <2>1, <2>2, Members, MutesFrame
<1>6. Active("jvb")' /\ ~Active("p2p")' /\ (Active("jvb") <=> p2p # "active")
  BY <1>1 DEF Active
<1>7. p2p = "active" => member' = {}
  BY <1>1 DEF SessionsOK
<1>8. \A s \in Session, q \in Owner : <<s, q>> \in shown' <=> <<s, q>> \in shown /\ q # o
  BY <1>3
<1>9. ASSUME NEW s \in Session, NEW q \in Owner
      PROVE  <<s, q>> \in shown' <=> q \in member' /\ q \in ses'[s].tracks /\ Active(s)'
  <2>1. <<s, q>> \in shown <=> q \in member /\ q \in ses[s].tracks /\ Active(s)
    BY DEF ShownOK
  <2>2. CASE s = "jvb"
    BY <1>1, <1>2, <1>6, <1>7, <1>8, <2>1, <2>2
  <2>3. CASE s = "p2p"
    <3>1. Active("p2p") => p2p = "active"
      BY DEF Active
    <3> QED BY <1>1, <1>6, <1>7, <1>8, <2>1, <2>3, <3>1
  <2> QED BY <2>2, <2>3, SessionIs
<1>10. ASSUME NEW s \in Session, NEW q \in Owner, track'[s][q].asked
       PROVE  <<s, q>> \in shown'
  <2>1. s = "jvb" /\ q # o /\ track["jvb"][q].asked
    BY <1>1, <1>4, <1>10, SessionIs
  <2> QED BY <1>8, <2>1, SessionIs DEF ShownOK
<1> QED BY <1>2, <1>5, <1>9, <1>10 DEF ShownOK

LEMMA ConnectedMutes ==
  ASSUME Types, SessionsOK, ShownOK, MutesOK, P2PConnected
  PROVE  SessionsOK' /\ ShownOK' /\ MutesOK' /\ member' = member
<1>1. /\ p2p = "starting" /\ p2p' = "active" /\ track'["p2p"] = track["p2p"]
      /\ \A q \in Owner : /\ track'["jvb"][q].muted = track["jvb"][q].muted
                          /\ track'["jvb"][q].asked = FALSE
  BY ConnectedTypes
<1>2. /\ presence' = presence /\ sources' = sources /\ names' = names /\ ses' = ses
      /\ shown' = {<<"p2p", o>> : o \in ses["p2p"].tracks \cap member}
  BY DEF P2PConnected
<1>3. SessionsOK' /\ member' = member
  BY <1>1, <1>2, SessionsFrame
<1>4. MutesOK'
  <2>1. \A s \in Session : \A q \in ses'[s].tracks \cap member' :
         q \in ses[s].tracks /\ track'[s][q].muted = track[s][q].muted
    BY <1>1, <1>2, SessionIs, Members
  <2> QED BY <1>2, <1>3, <2>1, Members, MutesFrame
<1>5. Active("p2p")' /\ ~Active("jvb")' /\ ~Active("p2p")
  BY <1>1 DEF Active
<1>6. ASSUME NEW s \in Session, NEW o \in Owner
      PROVE  <<s, o>> \in shown' <=> o \in member' /\ o \in ses'[s].tracks /\ Active(s)'
  <2>1. s = "jvb" \/ s = "p2p"
    BY SessionIs
  <2> QED BY <1>2, <1>3, <1>5, <2>1
<1>7. \A s \in Session, o \in Owner : ~track'[s][o].asked
  BY <1>1, <1>5, SessionIs DEF ShownOK
<1> QED BY <1>3, <1>4, <1>6, <1>7 DEF ShownOK

LEMMA AddedMutes ==
  ASSUME Types, SessionsOK, ShownOK, MutesOK, NEW s \in Session, RemoteTrackAdded(s),
         NEW o, o = ses[s].event.owner
  PROVE  SessionsOK' /\ ShownOK' /\ MutesOK'
<1>1. /\ SessionsOK' /\ member' = member /\ ses[s].tasks # <<>>
      /\ ses'[s].tracks = IF o \in member THEN ses[s].tracks \cup {o} ELSE ses[s].tracks
      /\ \A r \in Session \ {s} : ses'[r] = ses[r]
  BY AddedSessions
<1>2. /\ o \in Owner
      /\ o \notin member => track' = track /\ shown' = shown
      /\ o \in member =>
           /\ track'[s][o].muted = GetPeerMediaInfo(o) /\ track'[s][o].asked = FALSE
           /\ \A r \in Session, q \in Owner : r # s \/ q # o => track'[r][q] = track[r][q]
           /\ shown' = IF Active(s) THEN shown \cup {<<s, o>>} ELSE shown
  <2>1. ses[s].tasks # <<>> /\ o = ses[s].event.owner
    BY <1>1
  <2>2. /\ o \in Owner
        /\ o \notin member => track' = track /\ shown' = shown
        /\ o \in member =>
             /\ track'[s][o].muted = GetPeerMediaInfo(o) /\ track'[s][o].asked = FALSE
             /\ shown' = IF Active(s) THEN shown \cup {<<s, o>>} ELSE shown
    BY ONLY Types, RemoteTrackAdded(s), s \in Session, <2>1, AddedTypes
  <2>3. ASSUME NEW r \in Session, NEW q \in Owner, r # s \/ q # o, o \in member
        PROVE  track'[r][q] = track[r][q]
    BY ONLY Types, RemoteTrackAdded(s), s \in Session, <2>1, <2>2, <2>3, AddedTypes, ZenonT(60)
  <2> QED BY <2>2, <2>3
<1>3. /\ presence' = presence /\ sources' = sources /\ names' = names /\ p2p' = p2p
  BY DEF RemoteTrackAdded
<1>4. \A r \in Session : Active(r)' <=> Active(r)
  BY <1>3 DEF Active
<1>5. CASE o \notin member
  <2>1. \A r \in Session : ses'[r].tracks = ses[r].tracks
    BY <1>1, <1>5
  <2>2. track' = track /\ shown' = shown
    BY <1>2, <1>5
  <2>3. ShownOK'
    BY <1>1, <1>3, <2>1, <2>2, ShownFrame
  <2>4. MutesOK'
    BY <1>1, <1>3, <2>1, <2>2, Members, MutesFrame
  <2> QED BY <1>1, <2>3, <2>4
<1>6. CASE o \in member
  <2>1. /\ track'[s][o].muted = GetPeerMediaInfo(o) /\ track'[s][o].asked = FALSE
        /\ \A r \in Session, q \in Owner : r # s \/ q # o => track'[r][q] = track[r][q]
        /\ shown' = IF Active(s) THEN shown \cup {<<s, o>>} ELSE shown
        /\ ses'[s].tracks = ses[s].tracks \cup {o}
    BY <1>1, <1>2, <1>6
  <2>2. GetPeerMediaInfo(o) = presence[o].muted
    <3>1. presence[o].muted \in BOOLEAN
      BY <1>2 DEF Types, OwnerPresence
    <3> QED BY <1>6, <3>1 DEF GetPeerMediaInfo, MutesOK, SourceInfo
  <2>3. \A r \in Session, q \in Owner :
          <<r, q>> \in shown' <=> <<r, q>> \in shown \/ (r = s /\ q = o /\ Active(s))
    BY <2>1
  <2>4. \A r \in Session, q \in Owner : q \in ses'[r].tracks <=> q \in ses[r].tracks \/ (r = s /\ q = o)
    BY <1>1, <2>1
  <2>5. \A r \in Session, q \in Owner :
          <<r, q>> \in shown' <=> q \in member' /\ q \in ses'[r].tracks /\ Active(r)'
    BY <1>1, <1>4, <1>6, <2>3, <2>4 DEF ShownOK
  <2>6. \A r \in Session, q \in Owner : track'[r][q].asked => <<r, q>> \in shown'
    BY <2>1, <2>3 DEF ShownOK
  <2>7. \A q \in member' : SendsSourceInfo(q)' => sources'[q] = SourceInfo(presence'[q].muted)
    BY <1>1, <1>3 DEF MutesOK, SendsSourceInfo
  <2>8. ASSUME NEW r \in Session, NEW q \in ses'[r].tracks \cap member'
        PROVE  track'[r][q].muted = presence'[q].muted
    <3>1. q \in Owner /\ q \in member
      BY <1>1, Members
    <3>2. CASE r = s /\ q = o
      BY <1>3, <2>1, <2>2, <3>2
    <3>3. CASE r # s \/ q # o
      BY <1>3, <2>1, <2>4, <3>1, <3>3 DEF MutesOK, MutedAsTold
    <3> QED BY <3>2, <3>3
  <2> QED BY <1>1, <2>5, <2>6, <2>7, <2>8 DEF ShownOK, MutesOK, MutedAsTold
<1> QED BY <1>5, <1>6

LEMMA RemovedMutes ==
  ASSUME Types, SessionsOK, ShownOK, MutesOK, NEW s \in Session, RemoteTrackRemoved(s),
         NEW o, o = ses[s].event.owner
  PROVE  SessionsOK' /\ ShownOK' /\ MutesOK'
<1>1. /\ SessionsOK' /\ member' = member /\ ses'[s].tracks = ses[s].tracks \ {o}
      /\ \A r \in Session \ {s} : ses'[r] = ses[r]
  BY RemovedSessions
<1>2. /\ o \in Owner /\ track'[s][o] = NoTrack
      /\ \A r \in Session, q \in Owner : r # s \/ q # o => track'[r][q] = track[r][q]
      /\ shown' = shown \ {<<s, o>>}
  <2>1. o = ses[s].event.owner
    OBVIOUS
  <2>2. o \in Owner /\ track'[s][o] = NoTrack /\ shown' = shown \ {<<s, o>>}
    BY ONLY Types, RemoteTrackRemoved(s), s \in Session, <2>1, RemovedTypes
  <2>3. ASSUME NEW r \in Session, NEW q \in Owner, r # s \/ q # o
        PROVE  track'[r][q] = track[r][q]
    <3>1. track' = [track EXCEPT ![s][o] = NoTrack] /\ track \in [Session -> [Owner -> TrackState]]
      BY DEF RemoteTrackRemoved, Types
    <3> QED BY <2>2, <2>3, <3>1
  <2> QED BY <2>2, <2>3
<1>3. /\ presence' = presence /\ sources' = sources /\ names' = names /\ p2p' = p2p
  BY DEF RemoteTrackRemoved
<1>4. \A r \in Session : Active(r)' <=> Active(r)
  BY <1>3 DEF Active
<1>5. NoTrack.asked = FALSE
  BY DEF NoTrack
<1>6. \A r \in Session, q \in Owner :
        <<r, q>> \in shown' <=> <<r, q>> \in shown /\ ~(r = s /\ q = o)
  BY <1>2
<1>7. \A r \in Session, q \in Owner : q \in ses'[r].tracks <=> q \in ses[r].tracks /\ ~(r = s /\ q = o)
  BY <1>1
<1>8. \A r \in Session, q \in Owner :
        <<r, q>> \in shown' <=> q \in member' /\ q \in ses'[r].tracks /\ Active(r)'
  BY <1>1, <1>4, <1>6, <1>7 DEF ShownOK
<1>9. \A r \in Session, q \in Owner : track'[r][q].asked => <<r, q>> \in shown'
  BY <1>2, <1>5, <1>6 DEF ShownOK
<1>10. \A r \in Session : \A q \in ses'[r].tracks \cap member' :
         q \in ses[r].tracks /\ track'[r][q].muted = track[r][q].muted
  BY <1>1, <1>2, <1>7, Members
<1>11. MutesOK'
  BY <1>1, <1>3, <1>10, Members, MutesFrame
<1> QED BY <1>1, <1>8, <1>9, <1>11 DEF ShownOK

(* A session queues a task, or begins with one.                            *)
LEMMA TasksMutes ==
  ASSUME Types, SessionsOK, ShownOK, MutesOK,
         \/ \E o \in Owner : SourceAdd(o) \/ SourceRemove(o) \/ StartP2P(o)
         \/ \E s \in Session : RunTask(s)
  PROVE  /\ SessionsOK' /\ ShownOK' /\ MutesOK' /\ member' = member
         /\ ses' \in [Session -> SessionState] /\ presence' \in [Owner -> OwnerPresence]
         /\ \A o \in Owner : presence'[o].place = presence[o].place
         /\ (p2p' = "active") = (p2p = "active") /\ p2p' \in {"none", "starting", "active"}
         /\ UNCHANGED <<names, sources, track, shown, bridge, audioOnly, det>>
<1>1. /\ SessionsOK' /\ member' = member
      /\ ses' \in [Session -> SessionState] /\ presence' \in [Owner -> OwnerPresence]
      /\ \A s \in Session : ses'[s].tracks = ses[s].tracks
      /\ \A o \in Owner : /\ presence'[o].place = presence[o].place
                          /\ presence'[o].muted = presence[o].muted
                          /\ presence'[o].modern = presence[o].modern
      /\ (p2p' = "active") = (p2p = "active") /\ p2p' \in {"none", "starting", "active"}
      /\ UNCHANGED <<names, sources, track, shown, bridge, audioOnly, det>>
  <2>1. CASE \E o \in Owner : SourceAdd(o)
    <3>1. PICK o \in Owner : SourceAdd(o)
      BY <2>1
    <3>2. p2p' = p2p /\ UNCHANGED <<names, sources, track, shown, bridge, audioOnly, det>>
      BY <3>1 DEF SourceAdd
    <3> QED BY <3>1, <3>2, SourceAddSessions DEF Types
  <2>2. CASE \E o \in Owner : SourceRemove(o)
    <3>1. PICK o \in Owner : SourceRemove(o)
      BY <2>2
    <3>2. p2p' = p2p /\ UNCHANGED <<names, sources, track, shown, bridge, audioOnly, det>>
      BY <3>1 DEF SourceRemove
    <3> QED BY <3>1, <3>2, SourceRemoveSessions DEF Types
  <2>3. CASE \E o \in Owner : StartP2P(o)
    <3>1. PICK o \in Owner : StartP2P(o)
      BY <2>3
    <3>2. UNCHANGED <<names, sources, track, shown, bridge, audioOnly, det>>
      BY <3>1 DEF StartP2P
    <3> QED BY <3>1, <3>2, StartP2PSessions DEF Types
  <2>4. CASE \E s \in Session : RunTask(s)
    <3>1. PICK s \in Session : RunTask(s)
      BY <2>4
    <3>2. p2p' = p2p /\ presence' = presence
          /\ UNCHANGED <<names, sources, track, shown, bridge, audioOnly, det>>
      BY <3>1 DEF RunTask
    <3> QED BY <3>1, <3>2, RunTaskSessions DEF Types
  <2> QED BY <2>1, <2>2, <2>3, <2>4
<1>2. ShownOK'
  BY <1>1, ShownFrame
<1>3. \A r \in Session : \A q \in ses'[r].tracks \cap member' :
         q \in ses[r].tracks /\ track'[r][q].muted = track[r][q].muted
  BY <1>1
<1>4. MutesOK'
  BY <1>1, <1>3, Members, MutesFrame
<1> QED BY <1>1, <1>2, <1>4

-----------------------------------------------------------------------------
(***************************************************************************)
(* StatusOK.                                                               *)
(***************************************************************************)

LEMMA WatchedIs ==
  /\ \A k : k \in Watched <=> k \in Key /\ IF names THEN k[1] # "user" /\ track[k[1]][k[2]].asked
                                           ELSE k[1] = "user" /\ k[2] \in member
  /\ \A k : k \in Watched' <=> k \in Key /\ IF names' THEN k[1] # "user" /\ track'[k[1]][k[2]].asked
                                            ELSE k[1] = "user" /\ k[2] \in member'
BY DEF Watched

(* A track whose status is asked for is shown.                             *)
LEMMA WatchedShown ==
  ASSUME ShownOK, NEW k \in Watched, names
  PROVE  /\ k[1] \in Session /\ k[2] \in Owner /\ k[1] # "user"
         /\ k \in shown /\ k[2] \in member /\ k[2] \in ses[k[1]].tracks /\ Active(k[1])
<1>1. k \in Key /\ k[1] # "user" /\ track[k[1]][k[2]].asked
  BY WatchedIs
<1>2. k = <<k[1], k[2]>> /\ k[1] \in Session /\ k[2] \in Owner
  BY <1>1, KeyParts
<1>3. <<k[1], k[2]>> \in shown
  BY <1>1, <1>2 DEF ShownOK
<1> QED BY <1>1, <1>2, <1>3 DEF ShownOK

(* The videos of a participant are of the active session.                  *)
LEMMA VideosActive ==
  ASSUME ShownOK, NEW k \in Watched
  PROVE  \A s \in Videos(k) : s \in Session /\ k[2] \in ses[s].tracks /\ Active(s)
<1>1. k \in Key /\ k[2] \in Owner
  BY WatchedIs, KeyParts
<1>2. CASE names
  BY <1>2, WatchedShown DEF Videos
<1>3. CASE ~names
  <2>1. k[1] = "user"
    BY <1>3, WatchedIs
  <2> QED BY <1>1, <2>1 DEF Videos, ShownOK
<1> QED BY <1>2, <1>3

(* Nothing changed of a detector, nor of what it looks at.                 *)
LEMMA StatusFrame ==
  ASSUME NEW k \in Key, StatusAt(k), names' = names, det'[k] = det[k],
         k \in Watched' /\ det[k].figured => k \in Watched /\ View(k)' = View(k),
         names /\ k \notin Watched' => k \notin Watched,
         ~names /\ presence'[k[2]].place = "out" => presence[k[2]].place = "out",
         bridge'.forwarded[k[2]] = "all" => bridge.forwarded[k[2]] = "all"
  PROVE  StatusAt(k)'
<1>1. k \in Watched' => Tells(det'[k], View(k)')
  BY DEF StatusAt, Tells
<1> QED BY <1>1 DEF StatusAt

(* The detector has figured out its status, and that is what it tells.     *)
LEMMA StatusFigured ==
  ASSUME NEW k \in Key, k \in Watched', Tells(det'[k], View(k)'),
         names \/ presence'[k[2]].place # "out", names' = names,
         StatusAt(k), det'[k].enteredFor = det[k].enteredFor,
         bridge'.forwarded[k[2]] = bridge.forwarded[k[2]]
  PROVE  StatusAt(k)'
BY DEF StatusAt

(* A detector nobody needs is as it was, or new.                           *)
LEMMA StatusUnwatched ==
  ASSUME NEW k \in Key, k \notin Watched', names' = names, StatusAt(k),
         det'[k].enteredFor \in {det[k].enteredFor, Off},
         bridge'.forwarded[k[2]] = bridge.forwarded[k[2]],
         \/ ~det'[k].figured /\ ~Pending(det'[k])
         \/ /\ names => k \notin Watched /\ det'[k] = det[k]
            /\ ~names /\ presence'[k[2]].place = "out" => ~det'[k].figured
  PROVE  StatusAt(k)'
BY DEF StatusAt

LEMMA PlaceOf ==
  ASSUME NEW o \in Owner
  PROVE  /\ o \in member => presence[o].place # "out"
         /\ o \in member' => presence'[o].place # "out"
BY Members

(* Sessions queue their tasks, or begin with one.                          *)
LEMMA TasksStatus ==
  ASSUME Types, StatusOK,
         member' = member, \A o \in Owner : presence'[o].place = presence[o].place,
         (p2p' = "active") = (p2p = "active"),
         UNCHANGED <<names, track, shown, bridge, audioOnly, det>>
  PROVE  StatusOK'
<1> SUFFICES ASSUME NEW k \in Key PROVE StatusAt(k)'
  BY DEF StatusOK
<1>1. StatusAt(k) /\ k[2] \in Owner /\ audioOnly \in BOOLEAN
  BY KeyParts DEF StatusOK, Types
<1>2. k \in Watched' <=> k \in Watched
  BY WatchedIs
<1>3. View(k)' = View(k)
  <2>1. Videos(k)' = Videos(k)
    BY DEF Videos
  <2> QED BY <1>1, <2>1, SameView
<1> QED BY <1>1, <1>2, <1>3, StatusFrame

(* A presence changes the mute state of its owner's tracks.                *)
LEMMA PresenceStatus ==
  ASSUME Types, StatusOK, NEW o \in Owner, NEW muted \in BOOLEAN, Presence(o, muted),
         member' = member
  PROVE  StatusOK' /\ det' \in [Key -> Detector]
<1>1. /\ names' = names /\ shown' = shown /\ p2p' = p2p /\ bridge' = bridge
      /\ audioOnly' = audioOnly /\ SetMute(o, muted)
  BY DEF Presence
<1>2. /\ presence'[o].place = "in" /\ \A q \in Owner \ {o} : presence'[q] = presence[q]
  BY PresenceTypes
<1>3. \A s \in Session, q \in Owner :
        /\ track'[s][q].asked = track[s][q].asked /\ track'[s][q].dry = track[s][q].dry
  BY <1>1, SetMuteFields DEF Types, Tracks
<1> DEFINE e(k) == IF k \in Watched /\ View(k)'.muted # View(k).muted
                   THEN Figure(det[k], View(k)') ELSE det[k]
<1>4. det' = [k \in Key |-> e(k)]
  BY DEF Presence
<1>5. ASSUME NEW k \in Key
      PROVE  e(k) \in Detector /\ StatusAt(k)'
  <2>1. /\ StatusAt(k) /\ k[2] \in Owner /\ View(k) \in Sight /\ View(k)' \in Sight
        /\ det[k] \in Detector /\ det'[k] = e(k)
    BY <1>1, <1>4, KeyParts, ViewType, ViewTypeNext DEF StatusOK, Types
  <2>2. k \in Watched' <=> k \in Watched
    <3>1. k[1] # "user" => k[1] \in Session
      BY KeyParts
    <3> QED BY <1>1, <1>3, <2>1, <3>1, WatchedIs
  <2>3. CASE k \in Watched /\ View(k)'.muted # View(k).muted
    <3>1. det'[k] = Figure(det[k], View(k)')
      BY <2>1, <2>3
    <3>2. det'[k] \in Detector /\ det'[k].enteredFor = det[k].enteredFor /\ Tells(det'[k], View(k)')
      BY <2>1, <3>1, FigureFields, FigureTells
    <3>3. names \/ presence'[k[2]].place # "out"
      BY <2>1, <2>2, <2>3, <1>1, WatchedIs, PlaceOf
    <3> QED BY <1>1, <2>1, <2>2, <2>3, <3>2, <3>3, StatusFigured
  <2>4. CASE ~(k \in Watched /\ View(k)'.muted # View(k).muted)
    <3>1. det'[k] = det[k]
      BY <2>1, <2>4
    <3>2. k \in Watched => View(k)' = View(k)
      <4> SUFFICES ASSUME k \in Watched PROVE View(k)' = View(k)
        OBVIOUS
      <4>1. Videos(k)' = Videos(k) /\ Videos(k) \subseteq Session
        <5>1. k[1] = "user" \/ k[1] \in Session
          BY KeyParts
        <5> QED BY <1>1, <5>1 DEF Videos
      <4>2. (\E s \in Videos(k)' : track'[s][k[2]].dry) <=> (\E s \in Videos(k) : track[s][k[2]].dry)
        BY <1>3, <2>1, <4>1
      <4>3. View(k)'.dry = View(k).dry
        BY <4>2, ViewFields, ViewFieldsNext
      <4>4. View(k)'.muted = View(k).muted
        BY <2>4
      <4> QED BY <1>1, <2>1, <4>3, <4>4, ViewFields, ViewFieldsNext, SameSight
    <3>3. presence'[k[2]].place = "out" => presence[k[2]].place = "out"
      BY <1>2, <2>1
    <3> QED BY <1>1, <2>1, <2>2, <3>1, <3>2, <3>3, StatusFrame
  <2> QED BY <2>3, <2>4
<1> HIDE DEF e
<1> QED BY <1>4, <1>5 DEF StatusOK

(* P2P stops: the tracks of its session are gone, and those of the bridge  *)
(* come back.                                                              *)
LEMMA StopStatus ==
  ASSUME Types, ShownOK, ShownOK', StatusOK, StopP2P,
         names' = names, bridge' = bridge, audioOnly' = audioOnly,
         NEW M, member' = member \cup M, \A o \in M : presence[o].place = "out", M \subseteq Owner,
         \A o \in Owner : presence'[o].place = IF o \in M THEN "in" ELSE presence[o].place
  PROVE  StatusOK'
<1>1. /\ p2p' = "none" /\ track'["jvb"] = track["jvb"]
      /\ \A q \in Owner : track'["p2p"][q] = NoTrack
      /\ det' \in [Key -> Detector]
      /\ \A k \in Key : det'[k].enteredFor = det[k].enteredFor
  BY StopP2PTypes
<1> DEFINE removed == {j \in shown : j[1] = "p2p"}
<1>2. \A k \in Key : det'[k] = LET d == ForgetTimes(k, removed, View(k)) IN
           IF p2p = "active" /\ k \in Watched' THEN Figure(d, NoVideo(View(k)')) ELSE d
  BY DEF StopP2P
<1>3. NoTrack.asked = FALSE
  BY DEF NoTrack
<1>4. Active("jvb") <=> p2p # "active"
  BY DEF Active
<1> SUFFICES ASSUME NEW k \in Key PROVE StatusAt(k)'
  BY DEF StatusOK
<1>5. /\ StatusAt(k) /\ k[2] \in Owner /\ View(k) \in Sight /\ View(k)' \in Sight
      /\ det[k] \in Detector /\ det'[k].enteredFor \in {det[k].enteredFor, Off}
      /\ k = <<k[1], k[2]>> /\ k[1] \in Session \cup {"user"}
  BY <1>1, KeyParts, ViewType, ViewTypeNext DEF StatusOK, Types
<1>6. presence'[k[2]].place = "out" => presence[k[2]].place = "out"
  BY <1>5
<1>7. CASE names /\ k \in Watched'
  <2>1. k[1] # "user" /\ track'[k[1]][k[2]].asked
    BY <1>7, WatchedIs
  <2>2. k[1] = "jvb" /\ track["jvb"][k[2]].asked
    BY <1>1, <1>3, <1>5, <2>1, SessionIs
  <2>3. k \in Watched
    BY <1>7, <2>2, WatchedIs
  <2>4. p2p # "active"
    BY <1>4, <1>7, <2>2, <2>3, WatchedShown
  <2>5. k \notin removed
    BY <2>2
  <2>6. det'[k] = det[k]
    BY <1>2, <1>7, <2>4, <2>5 DEF ForgetTimes
  <2>7. View(k)' = View(k)
    <3>1. Videos(k)' = Videos(k) /\ Videos(k) = {"jvb"}
      BY <2>2 DEF Videos
    <3> QED BY <1>1, <2>4, <3>1, SameView DEF Types
  <2> QED BY <1>5, <1>7, <2>3, <2>6, <2>7, StatusFrame
<1>8. CASE names /\ k \notin Watched'
  <2>1. det'[k] = IF k \in removed THEN DisposeStatus(det[k]) ELSE det[k]
    BY <1>2, <1>8 DEF ForgetTimes
  <2>2. CASE k \in removed
    <3>1. ~det'[k].figured /\ ~Pending(det'[k])
      BY <1>5, <2>1, <2>2, DisposeStatusFields
    <3> QED BY <1>5, <1>8, <3>1, StatusUnwatched
  <2>3. CASE k \notin removed
    <3>1. k \notin Watched
      <4> SUFFICES ASSUME k \in Watched PROVE FALSE
        OBVIOUS
      <4>1. k[1] # "user" /\ track[k[1]][k[2]].asked /\ k \in shown
        BY <1>8, WatchedIs, WatchedShown
      <4>2. k[1] = "jvb"
        BY <1>5, <2>3, <4>1, SessionIs
      <4>3. track'[k[1]][k[2]].asked
        BY <1>1, <4>1, <4>2
      <4> QED BY <1>8, <4>1, <4>3, WatchedIs
    <3> QED BY <1>5, <1>8, <2>1, <2>3, <3>1, StatusUnwatched
  <2> QED BY <2>2, <2>3
<1>9. CASE ~names /\ k \in Watched'
  <2>1. k[1] = "user" /\ k[2] \in member \cup M
    BY <1>9, WatchedIs
  <2>2. CASE p2p = "active"
    <3> DEFINE d == ForgetTimes(k, removed, View(k))
    <3>1. det'[k] = Figure(d, NoVideo(View(k)'))
      BY <1>2, <1>9, <2>2
    <3>2. d \in Detector
      BY <1>5, ForgetTimesType DEF Types
    <3> HIDE DEF d
    <3>3. Tells(det'[k], View(k)')
      BY <1>5, <3>1, <3>2, FigureWithoutVideo
    <3>4. presence'[k[2]].place # "out"
      BY <1>5, <2>1, PlaceOf
    <3> QED BY <1>1, <1>5, <1>9, <3>3, <3>4, StatusFigured
  <2>3. CASE p2p # "active"
    <3>1. {<<s, k[2]>> : s \in Session} \cap removed = {}
      <4>1. \A o \in Owner : <<"p2p", o>> \notin shown
        <5>1. ~Active("p2p")
          BY <2>3 DEF Active
        <5> QED BY <5>1, SessionIs DEF ShownOK
      <4> QED BY <1>5, <4>1
    <3>2. det'[k] = det[k]
      BY <1>2, <1>9, <2>3, <3>1 DEF ForgetTimes
    <3>3. CASE k[2] \in M
      <4>1. ~det[k].figured
        BY <1>5, <1>9, <3>3 DEF StatusAt
      <4> QED BY <1>5, <1>6, <1>9, <3>2, <4>1, StatusFrame
    <3>4. CASE k[2] \in member
      <4>1. k \in Watched
        BY <1>9, <2>1, <3>4, WatchedIs
      <4>2. \A s \in Videos(k) : s = "jvb"
        BY <2>3, <4>1, VideosActive, SessionIs DEF Active
      <4>3. shown' = shown
        BY <2>3 DEF StopP2P
      <4>4. Videos(k)' = Videos(k)
        BY <4>3 DEF Videos
      <4>5. View(k)' = View(k)
        BY <1>1, <2>3, <4>2, <4>4, SameView DEF Types
      <4> QED BY <1>5, <1>6, <1>9, <3>2, <4>1, <4>5, StatusFrame
    <3> QED BY <2>1, <3>3, <3>4
  <2> QED BY <2>2, <2>3
<1>10. CASE ~names /\ k \notin Watched'
  <2>1. k \notin Watched
    BY <1>10, WatchedIs
  <2>2. det'[k] = det[k]
    BY <1>2, <1>10, <2>1 DEF ForgetTimes
  <2> QED BY <1>5, <1>6, <1>10, <2>1, <2>2, StatusFrame
<1> QED BY <1>7, <1>8, <1>9, <1>10

(* A participant leaves: its detectors go, or nothing is asked of them.    *)
LEMMA LeftStatus ==
  ASSUME Types, SessionsOK, ShownOK, StatusOK, NEW o \in Owner, MemberLeft(o)
  PROVE  StatusOK'
<1>1. /\ o \in member /\ presence'[o].place = "gone"
      /\ \A q \in Owner \ {o} : presence'[q] = presence[q]
      /\ member' = member \ {o} /\ p2p' = "none"
      /\ \A q \in Owner : /\ track'["p2p"][q] = NoTrack
                          /\ track'["jvb"][q].muted = track["jvb"][q].muted
                          /\ track'["jvb"][q].dry = track["jvb"][q].dry
                          /\ q # o => track'["jvb"][q].asked = track["jvb"][q].asked
                          /\ track'["jvb"][o].asked = FALSE
      /\ \A k \in Key : det'[k].enteredFor = det[k].enteredFor
  BY LeftTypes
<1> DEFINE its == {<<s, o>> : s \in {s \in Session : o \in ses[s].tracks}}
<1>2. /\ \A k \in Key : det'[k] = ForgetTimes(k, its, View(k))
      /\ names' = names /\ bridge' = bridge /\ audioOnly' = audioOnly
      /\ shown' = {k \in shown : k[2] # o}
  BY DEF MemberLeft
<1>3. NoTrack.asked = FALSE
  BY DEF NoTrack
<1> SUFFICES ASSUME NEW k \in Key PROVE StatusAt(k)'
  BY DEF StatusOK
<1>4. /\ StatusAt(k) /\ k[2] \in Owner /\ View(k) \in Sight /\ View(k)' \in Sight
      /\ det[k] \in Detector /\ det'[k].enteredFor \in {det[k].enteredFor, Off}
      /\ k = <<k[1], k[2]>> /\ k[1] \in Session \cup {"user"} /\ audioOnly \in BOOLEAN
  BY <1>1, <1>2, KeyParts, ViewType, ViewTypeNext DEF StatusOK, Types
<1>5. presence'[k[2]].place = "out" => presence[k[2]].place = "out"
  BY <1>1, <1>4
<1>6. CASE names /\ k \in Watched'
  <2>1. k[1] # "user" /\ track'[k[1]][k[2]].asked
    BY <1>2, <1>6, WatchedIs
  <2>2. k[1] = "jvb" /\ k[2] # o /\ track["jvb"][k[2]].asked
    BY <1>1, <1>3, <1>4, <2>1, SessionIs
  <2>3. k \in Watched
    BY <1>6, <2>2, WatchedIs
  <2>4. p2p # "active"
    BY <1>6, <2>2, <2>3, WatchedShown DEF Active
  <2>5. k \notin its
    BY <1>4, <2>2
  <2>6. det'[k] = det[k]
    BY <1>2, <1>6, <2>5 DEF ForgetTimes
  <2>7. View(k)' = View(k)
    <3>1. Videos(k)' = Videos(k) /\ Videos(k) = {"jvb"}
      BY <2>2 DEF Videos
    <3> QED BY <1>1, <1>2, <1>4, <2>4, <3>1, SameView
  <2> QED BY <1>2, <1>4, <1>6, <2>3, <2>6, <2>7, StatusFrame
<1>7. CASE names /\ k \notin Watched'
  <2>1. det'[k] = IF k \in its THEN DisposeStatus(det[k]) ELSE det[k]
    BY <1>2, <1>7 DEF ForgetTimes
  <2>2. CASE k \in its
    <3>1. ~det'[k].figured /\ ~Pending(det'[k])
      BY <1>4, <2>1, <2>2, DisposeStatusFields
    <3> QED BY <1>2, <1>4, <1>7, <3>1, StatusUnwatched
  <2>3. CASE k \notin its
    <3>1. k \notin Watched
      <4> SUFFICES ASSUME k \in Watched PROVE FALSE
        OBVIOUS
      <4>1. k[1] \in Session /\ k[1] # "user" /\ track[k[1]][k[2]].asked /\ k[2] \in member
            /\ k[2] \in ses[k[1]].tracks /\ Active(k[1])
        BY <1>7, WatchedIs, WatchedShown
      <4>2. k[2] # o
        BY <1>4, <2>3, <4>1
      <4>3. k[1] = "jvb"
        BY <1>1, <1>7, <4>1, <4>2, SessionIs DEF SessionsOK, Active
      <4>4. track'[k[1]][k[2]].asked
        BY <1>1, <1>4, <4>1, <4>2, <4>3
      <4> QED BY <1>2, <1>7, <4>1, <4>4, WatchedIs
    <3> QED BY <1>2, <1>4, <1>7, <2>1, <2>3, <3>1, StatusUnwatched
  <2> QED BY <2>2, <2>3
<1>8. CASE ~names
  <2>1. k[2] # o => det'[k] = det[k]
    <3>1. k[2] # o => {<<s, k[2]>> : s \in Session} \cap its = {}
      OBVIOUS
    <3> QED BY <1>2, <1>8, <3>1 DEF ForgetTimes
  <2>2. CASE k[2] = o
    <3>1. k \notin Watched' /\ presence'[k[2]].place # "out"
      BY <1>1, <1>2, <1>8, <2>2, WatchedIs
    <3> QED BY <1>2, <1>4, <1>8, <3>1, StatusUnwatched
  <2>3. CASE k[2] # o /\ k \in Watched'
    <3>1. k[1] = "user" /\ k[2] \in member /\ k \in Watched
      BY <1>1, <1>2, <1>8, <2>3, WatchedIs
    <3>2. p2p = "none"
      BY <1>1, <2>3, <3>1 DEF SessionsOK
    <3>3. \A s \in Videos(k) : s = "jvb"
      BY <3>1, <3>2, VideosActive, SessionIs DEF Active
    <3>4. Videos(k)' = Videos(k)
      BY <1>2, <2>3 DEF Videos
    <3>5. View(k)' = View(k)
      BY <1>1, <1>2, <1>4, <3>2, <3>3, <3>4, SameView
    <3> QED BY <1>2, <1>4, <1>5, <1>8, <2>1, <2>3, <3>1, <3>5, StatusFrame
  <2>4. CASE k[2] # o /\ k \notin Watched'
    BY <1>2, <1>4, <1>5, <1>8, <2>1, <2>4, StatusFrame
  <2> QED BY <2>2, <2>3, <2>4
<1> QED BY <1>6, <1>7, <1>8

(* P2P connects: the tracks of the bridge go with their status, and a      *)
(* participant's is figured out without a video.                           *)
LEMMA ConnectedStatus ==
  ASSUME Types, ShownOK, ShownOK', StatusOK, P2PConnected, member' = member
  PROVE  StatusOK'
<1>1. /\ p2p = "starting" /\ p2p' = "active" /\ track'["p2p"] = track["p2p"]
      /\ \A q \in Owner : track'["jvb"][q].asked = FALSE
      /\ \A k \in Key : det'[k].enteredFor = det[k].enteredFor
  BY ConnectedTypes
<1> DEFINE removed == {k \in shown : k[1] = "jvb"}
           connected(k) == [View(k) EXCEPT !.p2p = TRUE]
           refreshed(k) == IF k \in Watched THEN Figure(det[k], connected(k)) ELSE det[k]
<1>2. /\ \A k \in Key : det'[k] =
           IF names THEN IF k \in removed THEN DisposeStatus(refreshed(k)) ELSE refreshed(k)
           ELSE IF k \in Watched /\ <<"jvb", k[2]>> \in removed
                THEN Figure(ClearTimes(refreshed(k)), NoVideo(connected(k)))
                ELSE refreshed(k)
      /\ names' = names /\ bridge' = bridge /\ audioOnly' = audioOnly /\ presence' = presence
  BY DEF P2PConnected
<1> SUFFICES ASSUME NEW k \in Key PROVE StatusAt(k)'
  BY DEF StatusOK
<1>3. /\ StatusAt(k) /\ k[2] \in Owner /\ View(k) \in Sight /\ View(k)' \in Sight
      /\ det[k] \in Detector /\ det'[k].enteredFor \in {det[k].enteredFor, Off}
      /\ k = <<k[1], k[2]>> /\ k[1] \in Session \cup {"user"}
  BY <1>1, <1>2, KeyParts, ViewType, ViewTypeNext DEF StatusOK, Types
<1>4. connected(k) \in Sight /\ connected(k).p2p = TRUE /\ connected(k).bridgeOk = View(k).bridgeOk
      /\ connected(k).dry = View(k).dry
  BY <1>3 DEF Sight
<1>5. View(k)'.p2p = TRUE /\ View(k)'.bridgeOk = View(k).bridgeOk
  <2>1. View(k)'.p2p \in BOOLEAN
    BY <1>3 DEF Sight
  <2> QED BY <1>1, <1>2, <2>1, ViewFields, ViewFieldsNext
<1> HIDE DEF connected
<1>6. refreshed(k) \in Detector
  BY <1>3, <1>4, FigureFields
<1>7. CASE names
  <2>1. k \notin Watched'
    <3> SUFFICES ASSUME k \in Watched' PROVE FALSE
      OBVIOUS
    <3>1. k[1] # "user" /\ track'[k[1]][k[2]].asked
      BY <1>2, <1>7, WatchedIs
    <3>2. k[1] = "p2p" /\ track["p2p"][k[2]].asked
      BY <1>1, <1>3, <3>1, SessionIs
    <3>3. Active("p2p")
      BY <1>3, <3>2, SessionIs DEF ShownOK
    <3> QED BY <1>1, <3>3 DEF Active
  <2>2. CASE k \in removed
    <3>1. det'[k] = DisposeStatus(refreshed(k))
      BY <1>2, <1>7, <2>2
    <3> HIDE DEF refreshed
    <3>2. ~det'[k].figured /\ ~Pending(det'[k])
      BY <1>6, <3>1, DisposeStatusFields
    <3> QED BY <1>2, <1>3, <2>1, <3>2, StatusUnwatched
  <2>3. CASE k \notin removed
    <3>1. k \notin Watched
      <4> SUFFICES ASSUME k \in Watched PROVE FALSE
        OBVIOUS
      <4>1. k \in shown /\ Active(k[1]) /\ k[1] \in Session
        BY <1>7, WatchedShown
      <4> QED BY <1>1, <2>3, <4>1, SessionIs DEF Active
    <3>2. det'[k] = det[k]
      BY <1>2, <1>7, <2>3, <3>1
    <3> QED BY <1>2, <1>3, <1>7, <2>1, <3>1, <3>2, StatusUnwatched
  <2> QED BY <2>2, <2>3
<1>8. CASE ~names
  <2>1. k \in Watched' <=> k \in Watched
    BY <1>2, <1>8, WatchedIs
  <2>2. CASE k \notin Watched
    <3>1. det'[k] = det[k]
      BY <1>2, <1>8, <2>2
    <3> QED BY <1>2, <1>3, <1>8, <2>1, <2>2, <3>1, StatusFrame
  <2>3. CASE k \in Watched
    <3>1. k[1] = "user" /\ k[2] \in member
      BY <1>8, <2>3, WatchedIs
    <3>2. presence'[k[2]].place # "out"
      BY <1>2, <1>3, <3>1, PlaceOf
    <3>3. CASE <<"jvb", k[2]>> \in removed
      <4>1. det'[k] = Figure(ClearTimes(refreshed(k)), NoVideo(connected(k)))
        BY <1>2, <1>8, <2>3, <3>3
      <4> HIDE DEF refreshed
      <4>2. ClearTimes(refreshed(k)) \in Detector
        BY <1>6, ClearTimesFields
      <4>3. Tells(det'[k], View(k)')
        BY <1>3, <1>4, <1>5, <4>1, <4>2, FigureWithoutVideo
      <4> QED BY <1>1, <1>2, <1>3, <2>1, <2>3, <3>2, <4>3, StatusFigured
    <3>4. CASE <<"jvb", k[2]>> \notin removed
      <4>1. det'[k] = Figure(det[k], connected(k))
        BY <1>2, <1>8, <2>3, <3>4
      <4>2. Tells(det'[k], connected(k))
        BY <1>3, <1>4, <4>1, FigureTells
      <4>3. ~View(k).dry
        <5>1. Videos(k) = {}
          <6>1. \A s \in Videos(k) : s = "jvb" /\ <<s, k[2]>> \in shown
            BY <1>1, <2>3, <3>1, VideosActive, SessionIs DEF Active, Videos
          <6> QED BY <3>4, <6>1
        <5> QED BY <5>1, ViewFields
      <4>4. Tells(det'[k], View(k)')
        BY <1>3, <1>4, <1>5, <4>2, <4>3, TellsWithoutVideo
      <4> QED BY <1>1, <1>2, <1>3, <2>1, <2>3, <3>2, <4>4, StatusFigured
    <3> QED BY <3>3, <3>4
  <2> QED BY <2>2, <2>3
<1> QED BY <1>7, <1>8

(* A track is added to what had no video before.                           *)
LEMMA AddedStatus ==
  ASSUME Types, SessionsOK, ShownOK, StatusOK, NEW s \in Session, RemoteTrackAdded(s)
  PROVE  StatusOK'
<1> DEFINE o == ses[s].event.owner
<1>1. member' = member /\ ses[s].tasks # <<>> /\ o \in Owner
  BY AddedSessions, AddedTypes
<1>2. names' = names /\ bridge' = bridge /\ audioOnly' = audioOnly /\ presence' = presence
      /\ p2p' = p2p /\ det' = det /\ ses[s].event.kind = "added"
  BY DEF RemoteTrackAdded
<1>3. o \notin ses[s].tracks
  <2>1. Matches(ses[s], member) /\ ses[s].event # NoEvent
    BY <1>2, SessionFields DEF SessionsOK
  <2> QED BY <1>2, <2>1 DEF Matches
<1>4. /\ o \notin member => track' = track /\ shown' = shown
      /\ o \in member =>
           /\ track'[s][o].asked = FALSE
           /\ shown' = IF Active(s) THEN shown \cup {<<s, o>>} ELSE shown
  BY <1>1, AddedTypes
<1>5. ASSUME NEW r \in Session, NEW q \in Owner, r # s \/ q # o
      PROVE  track'[r][q] = track[r][q]
  <2>1. CASE o \notin member
    BY <1>4, <2>1
  <2>2. CASE o \in member
    <3>1. track' = [track EXCEPT ![s][o] =
                   [muted |-> GetPeerMediaInfo(o), dry |-> TRUE, asked |-> FALSE]]
      BY <2>2 DEF RemoteTrackAdded
    <3>2. track \in [Session -> [Owner -> TrackState]]
      BY DEF Types
    <3> QED BY <1>1, <1>5, <3>1, <3>2
  <2> QED BY <2>1, <2>2
<1> SUFFICES ASSUME NEW k \in Key PROVE StatusAt(k)'
  BY DEF StatusOK
<1>6. /\ StatusAt(k) /\ k[2] \in Owner /\ View(k) \in Sight /\ View(k)' \in Sight
      /\ k = <<k[1], k[2]>> /\ k[1] \in Session \cup {"user"} /\ audioOnly \in BOOLEAN
  BY <1>1, <1>2, KeyParts, ViewType, ViewTypeNext DEF StatusOK, Types
<1> HIDE DEF o
<1>7. <<s, o>> \notin shown /\ ~track[s][o].asked
  BY <1>1, <1>3 DEF ShownOK
<1>8. ASSUME NEW r \in Session, NEW q \in Owner, track'[r][q].asked
      PROVE  track[r][q].asked /\ (r # s \/ q # o)
  <2>1. CASE r # s \/ q # o
    BY <1>5, <1>8, <2>1
  <2>2. CASE r = s /\ q = o
    BY <1>4, <1>7, <1>8, <2>2
  <2> QED BY <2>1, <2>2
<1>9. k \in Watched' => k \in Watched
  <2>1. CASE names
    BY <1>2, <1>6, <1>8, <2>1, WatchedIs
  <2>2. CASE ~names
    BY <1>1, <1>2, <2>2, WatchedIs
  <2> QED BY <2>1, <2>2
<1>10. k \in Watched /\ names => k \in Watched'
  <2> SUFFICES ASSUME k \in Watched, names PROVE k \in Watched'
    OBVIOUS
  <2>1. k[1] \in Session /\ k[1] # "user" /\ track[k[1]][k[2]].asked
    BY WatchedIs, WatchedShown
  <2>2. k[1] # s \/ k[2] # o
    BY <1>7, <2>1
  <2>3. track'[k[1]][k[2]] = track[k[1]][k[2]]
    BY <1>5, <1>6, <2>1, <2>2
  <2> QED BY <1>2, <2>1, <2>3, WatchedIs
<1>11. CASE k \notin Watched'
  BY <1>2, <1>6, <1>10, <1>11, StatusFrame
<1>12. CASE k \in Watched'
  <2>1. k \in Watched
    BY <1>9, <1>12
  <2>2. \A r \in Videos(k) : r \in Session /\ k[2] \in ses[r].tracks /\ Active(r)
    BY <2>1, VideosActive
  <2>3. \A r \in Videos(k) : track'[r][k[2]] = track[r][k[2]]
    BY <1>3, <1>5, <1>6, <2>2
  <2>4. CASE Videos(k)' = Videos(k)
    <3>1. View(k)' = View(k)
      BY <1>2, <1>6, <2>3, <2>4, SameView
    <3> QED BY <1>2, <1>6, <1>10, <2>1, <3>1, StatusFrame
  <2>5. CASE Videos(k)' # Videos(k)
    <3>1. k[1] = "user" /\ k[2] = o /\ Active(s)
      <4>1. k[1] = "user" /\ shown' # shown
        BY <2>5 DEF Videos
      <4>2. shown' = shown \cup {<<s, o>>} /\ Active(s)
        BY <1>4, <4>1
      <4> QED BY <2>5, <4>1, <4>2 DEF Videos
    <3>2. Videos(k) = {}
      <4>1. \A r \in Videos(k) : r = s
        BY <2>2, <3>1, SessionIs DEF Active
      <4>2. s \notin Videos(k)
        BY <1>3, <2>2, <3>1
      <4> QED BY <4>1, <4>2
    <3>3. ~View(k).dry /\ View(k)'.p2p = View(k).p2p /\ View(k)'.bridgeOk = View(k).bridgeOk
      BY <1>2, <3>2, ViewFields, ViewFieldsNext
    <3>4. Tells(det[k], View(k))
      BY <1>6, <2>1 DEF StatusAt
    <3>5. Tells(det[k], View(k)')
      BY <1>6, <3>3, <3>4, TellsWithoutVideo
    <3>6. presence'[k[2]].place # "out"
      <4>1. ~names
        BY <2>1, <3>1, WatchedIs
      <4> QED BY <1>2, <1>6, <2>1, <4>1, WatchedIs, PlaceOf
    <3> QED BY <1>2, <1>6, <1>12, <3>5, <3>6, StatusFigured
  <2> QED BY <2>4, <2>5
<1> QED BY <1>11, <1>12

(* A track is removed, and its status with it.                             *)
LEMMA RemovedStatus ==
  ASSUME Types, SessionsOK, ShownOK, StatusOK, NEW s \in Session, RemoteTrackRemoved(s)
  PROVE  StatusOK'
<1> DEFINE o == ses[s].event.owner
<1>1. member' = member /\ o \in Owner
  BY RemovedSessions, RemovedTypes
<1>2. names' = names /\ bridge' = bridge /\ audioOnly' = audioOnly /\ presence' = presence
      /\ p2p' = p2p /\ shown' = shown \ {<<s, o>>}
  BY DEF RemoteTrackRemoved
<1>3. ASSUME NEW r \in Session, NEW q \in Owner, r # s \/ q # o
      PROVE  track'[r][q] = track[r][q]
  <2>1. track' = [track EXCEPT ![s][o] = NoTrack] /\ track \in [Session -> [Owner -> TrackState]]
    BY DEF RemoteTrackRemoved, Types
  <2> QED BY <1>1, <1>3, <2>1
<1>4. track'[s][o].asked = FALSE
  <2>1. track'[s][o] = NoTrack
    BY RemovedTypes
  <2> QED BY <2>1 DEF NoTrack
<1> SUFFICES ASSUME NEW k \in Key PROVE StatusAt(k)'
  BY DEF StatusOK
<1>5. /\ det'[<<s, o>>] = NewDetector /\ <<s, o>> \in Key
      /\ k # <<s, o>> => det'[k] = ForgetTimes(k, {<<s, o>>} \cap shown, NoVideo(View(k)))
      /\ det'[k].enteredFor \in {det[k].enteredFor, Off}
  BY <1>1, RemovedTypes, ZenonT(60) DEF Key
<1>6. /\ StatusAt(k) /\ k[2] \in Owner /\ View(k) \in Sight /\ View(k)' \in Sight
      /\ k = <<k[1], k[2]>> /\ k[1] \in Session \cup {"user"} /\ audioOnly \in BOOLEAN
      /\ det[k] \in Detector
  BY <1>1, <1>2, KeyParts, ViewType, ViewTypeNext DEF StatusOK, Types
<1> HIDE DEF o
<1>7. CASE k = <<s, o>>
  <2>1. k \notin Watched'
    <3>1. k[1] # "user" /\ ~track'[k[1]][k[2]].asked
      BY <1>4, <1>7, SessionIs
    <3> QED BY <3>1, WatchedIs
  <2>2. ~det'[k].figured /\ ~Pending(det'[k])
    BY <1>5, <1>7, NewDetectorFields
  <2> QED BY <1>2, <1>5, <1>6, <2>1, <2>2, StatusUnwatched
<1>8. CASE k # <<s, o>>
  <2> DEFINE removed == {<<s, o>>} \cap shown
  <2>1. k \in Watched' <=> k \in Watched
    <3>1. k[1] # "user" => track'[k[1]][k[2]] = track[k[1]][k[2]]
      BY <1>3, <1>6, <1>8
    <3> QED BY <1>1, <1>2, <1>6, <3>1, WatchedIs
  <2>2. CASE names \/ k \notin Watched \/ k[2] # o \/ <<s, o>> \notin shown
    <3>1. det'[k] = det[k]
      <4>1. det'[k] = ForgetTimes(k, removed, NoVideo(View(k)))
        BY <1>5, <1>8
      <4>2. names => k \notin removed
        BY <1>8
      <4>3. k[2] # o \/ <<s, o>> \notin shown => {<<r, k[2]>> : r \in Session} \cap removed = {}
        OBVIOUS
      <4> HIDE DEF removed
      <4> QED BY <2>2, <4>1, <4>2, <4>3 DEF ForgetTimes
    <3>2. k \in Watched => View(k)' = View(k)
      <4> SUFFICES ASSUME k \in Watched PROVE View(k)' = View(k)
        OBVIOUS
      <4>1. \A r \in Videos(k) : r \in Session /\ (r # s \/ k[2] # o)
        <5>1. \A r \in Videos(k) : r \in Session
          BY VideosActive
        <5>2. CASE names
          BY <1>6, <1>8, <5>1, <5>2, WatchedIs DEF Videos
        <5>3. CASE ~names
          <6>1. k[1] = "user"
            BY <5>3, WatchedIs
          <6> QED BY <2>2, <5>1, <5>3, <6>1 DEF Videos
        <5> QED BY <5>2, <5>3
      <4>2. Videos(k)' = Videos(k)
        <5>1. k[1] = "user" => k[2] # o \/ shown' = shown
          BY <1>2, <2>2, WatchedIs
        <5> QED BY <1>2, <5>1 DEF Videos
      <4>3. \A r \in Videos(k) : track'[r][k[2]] = track[r][k[2]]
        BY <1>3, <1>6, <4>1
      <4> QED BY <1>2, <1>6, <4>2, <4>3, SameView
    <3> QED BY <1>2, <1>6, <2>1, <3>1, <3>2, StatusFrame
  <2>3. CASE ~names /\ k \in Watched /\ k[2] = o /\ <<s, o>> \in shown
    <3>1. {<<r, k[2]>> : r \in Session} \cap removed # {}
      BY <2>3
    <3>2. det'[k] = ForgetTimes(k, removed, NoVideo(View(k)))
      BY <1>5, <1>8
    <3> HIDE DEF removed
    <3>3. det'[k] = Figure(ClearTimes(det[k]), NoVideo(View(k)))
      BY <2>3, <3>1, <3>2 DEF ForgetTimes
    <3>4. View(k)'.p2p = View(k).p2p /\ View(k)'.bridgeOk = View(k).bridgeOk
      BY <1>2, ViewFields, ViewFieldsNext
    <3>5. ClearTimes(det[k]) \in Detector /\ ClearTimes(det[k]).enteredFor = det[k].enteredFor
      BY <1>6, ClearTimesFields
    <3>6. Tells(det'[k], View(k)')
      BY <1>6, <3>3, <3>4, <3>5, FigureWithoutVideo
    <3>7. NoVideo(View(k)) \in Sight
      BY <1>6 DEF NoVideo, Sight
    <3>8. det'[k].enteredFor = det[k].enteredFor
      BY <3>3, <3>5, <3>7, FigureFields
    <3>9. presence'[k[2]].place # "out"
      BY <1>2, <1>6, <2>3, WatchedIs, PlaceOf
    <3> QED BY <1>2, <1>6, <2>1, <2>3, <3>6, <3>8, <3>9, StatusFigured
  <2> QED BY <2>2, <2>3
<1> QED BY <1>7, <1>8

(* The application asks for the status of a track, or stops.               *)
LEMMA ListenerStatus ==
  ASSUME Types, ShownOK, StatusOK, NEW j \in Key, AddEventListener(j) \/ RemoveEventListener(j)
  PROVE  /\ StatusOK' /\ ShownOK' /\ track' \in Tracks /\ det' \in [Key -> Detector]
         /\ \A s \in Session, o \in Owner : track'[s][o].muted = track[s][o].muted
         /\ UNCHANGED <<names, presence, sources, ses, shown, p2p, bridge, audioOnly>>
<1> DEFINE b == IF AddEventListener(j) THEN TRUE ELSE FALSE
<1>1. /\ names /\ j[1] \in Session /\ j[2] \in Owner /\ j[1] # "user" /\ j \in shown
      /\ UNCHANGED <<names, presence, sources, ses, shown, p2p, bridge, audioOnly>>
  <2>1. CASE AddEventListener(j)
    <3>1. j \in shown
      BY <2>1 DEF AddEventListener
    <3>2. j[1] \in Session
      BY <3>1 DEF Types
    <3> QED BY <2>1, <3>1, <3>2, KeyParts, SessionIs DEF AddEventListener
  <2>2. CASE RemoveEventListener(j)
    BY <2>2, WatchedShown DEF RemoveEventListener
  <2> QED BY <2>1, <2>2
<1>2. member' = member
  BY <1>1, Members
<1>3. /\ track' = [track EXCEPT ![j[1]][j[2]].asked = b] /\ b \in BOOLEAN
      /\ b = FALSE => j \in Watched
      /\ b = TRUE => j \notin Watched
      /\ det' = IF b = TRUE THEN det ELSE [det EXCEPT ![j] = DisposeStatus(@)]
  <2>1. CASE AddEventListener(j)
    <3>1. j \notin Watched
      BY <1>1, <2>1, WatchedIs DEF AddEventListener
    <3> QED BY <2>1, <3>1 DEF AddEventListener
  <2>2. CASE ~AddEventListener(j)
    BY <2>2 DEF RemoveEventListener
  <2> QED BY <2>1, <2>2
<1> HIDE DEF b
<1>4. /\ track' \in Tracks /\ track'[j[1]][j[2]].asked = b
      /\ track'[j[1]][j[2]].muted = track[j[1]][j[2]].muted
      /\ track'[j[1]][j[2]].dry = track[j[1]][j[2]].dry
      /\ \A r \in Session, q \in Owner : r # j[1] \/ q # j[2] => track'[r][q] = track[r][q]
  <2> DEFINE x == [track[j[1]][j[2]] EXCEPT !.asked = b]
  <2>1. track[j[1]][j[2]] \in TrackState /\ track \in Tracks
    BY <1>1, TracksType
  <2>2. x \in TrackState /\ x.asked = b /\ x.muted = track[j[1]][j[2]].muted
        /\ x.dry = track[j[1]][j[2]].dry
    BY <1>3, <2>1 DEF TrackState
  <2>3. track' = [track EXCEPT ![j[1]][j[2]] = x]
    BY <1>1, <1>3, <2>1, OneField
  <2> HIDE DEF x
  <2>4. /\ track' \in Tracks /\ track'[j[1]][j[2]] = x
        /\ \A r \in Session, q \in Owner : r # j[1] \/ q # j[2] => track'[r][q] = track[r][q]
    <3>1. j[1] \in Session /\ j[2] \in Owner /\ x \in TrackState
      BY <1>1, <2>2
    <3> QED BY ONLY <3>1, <2>1, <2>3 DEF Tracks
  <2> QED BY <2>2, <2>4
<1>5. \A s \in Session, o \in Owner : /\ track'[s][o].muted = track[s][o].muted
                                      /\ track'[s][o].dry = track[s][o].dry
  BY <1>1, <1>4
<1>6. ShownOK'
  <2>1. j = <<j[1], j[2]>>
    BY KeyParts
  <2>2. \A s \in Session, o \in Owner : track'[s][o].asked => track[s][o].asked \/ <<s, o>> \in shown
    BY <1>1, <1>4, <2>1
  <2> QED BY <1>1, <1>2, <2>2, ShownFrame
<1>7. ASSUME NEW k \in Key
      PROVE  StatusAt(k)' /\ det'[k] \in Detector
  <2>1. /\ StatusAt(k) /\ k[2] \in Owner /\ det[k] \in Detector
        /\ k = <<k[1], k[2]>> /\ k[1] \in Session \cup {"user"} /\ audioOnly \in BOOLEAN
    BY KeyParts DEF StatusOK, Types
  <2>2. CASE k # j
    <3>1. k[1] # "user" => track'[k[1]][k[2]] = track[k[1]][k[2]]
      <4>1. j = <<j[1], j[2]>>
        BY KeyParts
      <4>2. k[1] # j[1] \/ k[2] # j[2]
        BY <2>1, <2>2, <4>1
      <4> QED BY <1>4, <2>1, <4>2
    <3>2. k \in Watched' <=> k \in Watched
      BY <1>1, <1>2, <3>1, WatchedIs
    <3>3. det'[k] = det[k]
      BY <1>3, <2>2 DEF Types
    <3>4. Videos(k)' = Videos(k) /\ Videos(k) \subseteq Session
      BY <1>1, <2>1 DEF Videos
    <3>5. View(k)' = View(k)
      BY <1>1, <1>5, <2>1, <3>4, SameView
    <3> QED BY <1>1, <2>1, <3>2, <3>3, <3>5, StatusFrame
  <2>3. CASE k = j /\ b = TRUE
    <3>1. det'[k] = det[k] /\ ~det[k].figured
      BY <1>1, <1>3, <2>1, <2>3 DEF StatusAt
    <3>2. k \in Watched'
      BY <1>1, <1>4, <2>3, WatchedIs
    <3> QED BY <1>1, <2>1, <3>1, <3>2, StatusFrame
  <2>4. CASE k = j /\ b = FALSE
    <3>1. det'[k] = DisposeStatus(det[k])
      BY <1>3, <2>4 DEF Types
    <3>2. ~det'[k].figured /\ ~Pending(det'[k]) /\ det'[k].enteredFor = det[k].enteredFor
          /\ det'[k] \in Detector
      BY <2>1, <3>1, DisposeStatusFields
    <3>3. k \notin Watched'
      BY <1>1, <1>4, <2>4, WatchedIs
    <3> QED BY <1>1, <2>1, <3>2, <3>3, StatusUnwatched
  <2> QED BY <1>3, <2>2, <2>3, <2>4
<1>8. det' \in [Key -> Detector]
  <2>1. DOMAIN det' = Key /\ det' = [k \in Key |-> det'[k]]
    BY <1>3 DEF Types
  <2> QED BY <1>7, <2>1
<1> QED BY <1>1, <1>4, <1>5, <1>6, <1>7, <1>8 DEF StatusOK

(* The data of a track stops, or arrives.                                  *)
LEMMA DryTrack ==
  ASSUME Types, NEW s \in Session, NEW o \in Owner, NEW b \in BOOLEAN,
         track' = [track EXCEPT ![s][o].dry = b]
  PROVE  /\ track' \in Tracks
         /\ \A r \in Session, q \in Owner : /\ track'[r][q].asked = track[r][q].asked
                                            /\ track'[r][q].muted = track[r][q].muted
                                            /\ q # o => track'[r][q] = track[r][q]
<1> DEFINE x == [track[s][o] EXCEPT !.dry = b]
<1>1. track[s][o] \in TrackState /\ track \in Tracks
  BY TracksType
<1>2. x \in TrackState /\ x.asked = track[s][o].asked /\ x.muted = track[s][o].muted
  BY <1>1 DEF TrackState
<1>3. track' = [track EXCEPT ![s][o] = x]
  BY <1>1, OneField
<1> HIDE DEF x
<1>4. /\ track' \in Tracks /\ track'[s][o] = x
      /\ \A r \in Session, q \in Owner : r # s \/ q # o => track'[r][q] = track[r][q]
  BY ONLY <1>1, <1>2, <1>3, s \in Session, o \in Owner, OneTrack
<1> QED BY <1>2, <1>4

(* Only the data of the videos of o changed.                               *)
LEMMA DryViews ==
  ASSUME Types, NEW o \in Owner, NEW k \in Key,
         \A r \in Session, q \in Owner : /\ track'[r][q].asked = track[r][q].asked
                                         /\ track'[r][q].muted = track[r][q].muted
                                         /\ q # o => track'[r][q] = track[r][q],
         UNCHANGED <<names, presence, sources, ses, shown, p2p, bridge, audioOnly>>
  PROVE  /\ k \in Watched' <=> k \in Watched
         /\ View(k) \in Sight /\ View(k)' \in Sight
         /\ View(k)'.p2p = View(k).p2p /\ View(k)'.bridgeOk = View(k).bridgeOk
         /\ View(k)'.muted = View(k).muted
         /\ k[2] # o => View(k)' = View(k)
<1>1. k[2] \in Owner /\ k[1] \in Session \cup {"user"} /\ audioOnly \in BOOLEAN
  BY KeyParts DEF Types
<1>2. member' = member
  BY Members
<1>3. k \in Watched' <=> k \in Watched
  BY <1>1, <1>2, WatchedIs
<1>4. View(k) \in Sight /\ View(k)' \in Sight
  BY <1>1, ViewType, ViewTypeNext
<1>5. Videos(k)' = Videos(k) /\ Videos(k) \subseteq Session
  BY <1>1 DEF Videos
<1>6. (\A s \in Videos(k)' : track'[s][k[2]].muted) <=> (\A s \in Videos(k) : track[s][k[2]].muted)
  BY <1>1, <1>5
<1>7. View(k)'.p2p = View(k).p2p /\ View(k)'.bridgeOk = View(k).bridgeOk
      /\ View(k)'.muted = View(k).muted
  BY <1>6, ViewFields, ViewFieldsNext
<1>8. k[2] # o => View(k)' = View(k)
  BY <1>1, <1>5, SameView
<1> QED BY <1>3, <1>4, <1>7, <1>8

LEMMA TrackRtcMutedStatus ==
  ASSUME Types, ShownOK, MutesOK, StatusOK, NEW s \in Session, NEW o \in Owner, TrackRtcMuted(s, o)
  PROVE  StatusOK' /\ det' \in [Key -> Detector]
<1>1. /\ UNCHANGED <<names, presence, sources, ses, shown, p2p, bridge, audioOnly>>
      /\ o \in ses[s].tracks /\ track' = [track EXCEPT ![s][o].dry = TRUE]
  BY DEF TrackRtcMuted
<1>2. \A r \in Session, q \in Owner : /\ track'[r][q].asked = track[r][q].asked
                                      /\ track'[r][q].muted = track[r][q].muted
                                      /\ q # o => track'[r][q] = track[r][q]
  BY <1>1, DryTrack
<1> DEFINE m(k) == IF names THEN track[s][o].muted ELSE View(k).muted
           e(k) == IF k \in Hearing(o) \intersect Watched THEN RtcMuted(det[k], View(k), m(k))
                   ELSE det[k]
<1>3. det' = [k \in Key |-> e(k)]
  BY DEF TrackRtcMuted
<1>4. ASSUME NEW k \in Key
      PROVE  e(k) \in Detector /\ StatusAt(k)'
  <2>1. /\ StatusAt(k) /\ k[2] \in Owner /\ det[k] \in Detector /\ det'[k] = e(k)
        /\ k = <<k[1], k[2]>> /\ track[s][o].muted \in BOOLEAN
    BY <1>3, KeyParts, TracksType DEF StatusOK, Types
  <2>2. /\ k \in Watched' <=> k \in Watched
        /\ View(k) \in Sight /\ View(k)' \in Sight
        /\ View(k)'.p2p = View(k).p2p /\ View(k)'.bridgeOk = View(k).bridgeOk
        /\ View(k)'.muted = View(k).muted
        /\ k[2] # o => View(k)' = View(k)
    BY <1>1, <1>2, DryViews
  <2>3. CASE k \in Hearing(o) \intersect Watched
    <3>1. m(k) \in BOOLEAN /\ (m(k) => View(k).muted)
      <4>1. CASE names
        <5>1. /\ k[1] # "user" /\ k[2] = o /\ k[1] \in Session /\ o \in member
              /\ o \in ses[k[1]].tracks
          BY <2>3, <4>1, WatchedIs, WatchedShown DEF Hearing
        <5>2. track[k[1]][o].muted = presence[o].muted /\ track[s][o].muted = presence[o].muted
          BY <1>1, <5>1 DEF MutesOK, MutedAsTold
        <5>3. track[k[1]][o].muted => \A r \in Videos(k) : track[r][k[2]].muted
          BY <5>1 DEF Videos
        <5>4. track[k[1]][o].muted => View(k).muted
          BY <5>3, ViewFields
        <5> QED BY <2>1, <4>1, <5>2, <5>4
      <4>2. CASE ~names
        BY <2>2, <4>2 DEF Sight
      <4> QED BY <4>1, <4>2
    <3>2. det'[k] = RtcMuted(det[k], View(k), m(k))
      BY <2>1, <2>3
    <3> HIDE DEF m
    <3>3. Tells(det[k], View(k))
      BY <2>1, <2>3 DEF StatusAt
    <3>4. Tells(det'[k], View(k)')
      BY <2>1, <2>2, <3>1, <3>2, <3>3, RtcMutedTells
    <3>5. det'[k] \in Detector /\ det'[k].enteredFor = det[k].enteredFor
      BY <2>1, <2>2, <3>1, <3>2, RtcMutedFields
    <3>6. names \/ presence'[k[2]].place # "out"
      BY <1>1, <2>1, <2>3, WatchedIs, PlaceOf
    <3> QED BY <1>1, <2>1, <2>2, <2>3, <3>4, <3>5, <3>6, StatusFigured
  <2>4. CASE k \notin Hearing(o) \intersect Watched
    <3>1. det'[k] = det[k]
      BY <2>1, <2>4
    <3>2. k \in Watched => k[2] # o
      BY <2>4, WatchedIs DEF Hearing
    <3> QED BY <1>1, <2>1, <2>2, <3>1, <3>2, StatusFrame
  <2> QED BY <2>3, <2>4
<1> HIDE DEF e
<1> QED BY <1>3, <1>4 DEF StatusOK

LEMMA TrackRtcUnmutedStatus ==
  ASSUME Types, StatusOK, NEW s \in Session, NEW o \in Owner, TrackRtcUnmuted(s, o)
  PROVE  StatusOK' /\ det' \in [Key -> Detector]
<1>1. /\ UNCHANGED <<names, presence, sources, ses, shown, p2p, bridge, audioOnly>>
      /\ track' = [track EXCEPT ![s][o].dry = FALSE]
  BY DEF TrackRtcUnmuted
<1>2. \A r \in Session, q \in Owner : /\ track'[r][q].asked = track[r][q].asked
                                      /\ track'[r][q].muted = track[r][q].muted
                                      /\ q # o => track'[r][q] = track[r][q]
  BY <1>1, DryTrack
<1> DEFINE e(k) == IF k \in Hearing(o) THEN FigureOut(k, ClearTimes(det[k])) ELSE det[k]
<1>3. det' = [k \in Key |-> e(k)]
  BY DEF TrackRtcUnmuted
<1>4. ASSUME NEW k \in Key
      PROVE  e(k) \in Detector /\ StatusAt(k)'
  <2>1. /\ StatusAt(k) /\ k[2] \in Owner /\ det[k] \in Detector /\ det'[k] = e(k)
        /\ audioOnly' \in BOOLEAN
    BY <1>1, <1>3, KeyParts DEF StatusOK, Types
  <2>2. /\ k \in Watched' <=> k \in Watched
        /\ k[2] # o => View(k)' = View(k)
    BY <1>1, <1>2, DryViews
  <2>3. CASE k \in Hearing(o)
    <3> DEFINE d == ClearTimes(det[k])
    <3>1. d \in Detector /\ d.figured = det[k].figured /\ d.enteredFor = det[k].enteredFor
      BY <2>1, ClearTimesFields
    <3>2. det'[k] = FigureOut(k, d)
      BY <2>1, <2>3
    <3> HIDE DEF d
    <3>3. /\ det'[k] \in Detector /\ det'[k].enteredFor = det[k].enteredFor
          /\ k \in Watched' => Tells(det'[k], View(k)')
          /\ k \notin Watched' => det'[k] = d
      BY <2>1, <3>1, <3>2, FigureOutType
    <3>4. CASE k \in Watched'
      <4>1. names \/ presence'[k[2]].place # "out"
        BY <1>1, <2>1, <2>2, <3>4, WatchedIs, PlaceOf
      <4> QED BY <1>1, <2>1, <3>3, <3>4, <4>1, StatusFigured
    <3>5. CASE k \notin Watched'
      <4>1. ~names
        BY <2>2, <2>3, <3>5 DEF Hearing
      <4>2. presence'[k[2]].place = "out" => ~det'[k].figured
        BY <1>1, <2>1, <3>1, <3>3, <3>5, <4>1 DEF StatusAt
      <4> QED BY <1>1, <2>1, <3>3, <3>5, <4>1, <4>2, StatusUnwatched
    <3> QED BY <2>1, <3>3, <3>4, <3>5
  <2>4. CASE k \notin Hearing(o)
    <3>1. det'[k] = det[k]
      BY <2>1, <2>4
    <3>2. k \in Watched => k[2] # o
      BY <2>4, WatchedIs DEF Hearing
    <3> QED BY <1>1, <2>1, <2>2, <3>1, <3>2, StatusFrame
  <2> QED BY <2>3, <2>4
<1> HIDE DEF e
<1> QED BY <1>3, <1>4 DEF StatusOK

(* A step of the bridge, of lastN or of time.                              *)
LEMMA DetectorViews ==
  ASSUME Types, NEW k \in Key, audioOnly' \in BOOLEAN,
         UNCHANGED <<names, presence, sources, ses, track, shown, p2p>>
  PROVE  /\ k \in Watched' <=> k \in Watched
         /\ View(k) \in Sight /\ View(k)' \in Sight
         /\ View(k)'.p2p = View(k).p2p /\ View(k)'.muted = View(k).muted
         /\ View(k)'.dry = View(k).dry
         /\ audioOnly' = audioOnly => View(k)'.audioOnly = View(k).audioOnly
         /\ bridge'.dead = bridge.dead => View(k)'.bridgeOk = View(k).bridgeOk
         /\ /\ audioOnly' = audioOnly /\ (k[2] \in bridge'.dead <=> k[2] \in bridge.dead)
            /\ bridge'.forwarded[k[2]] = bridge.forwarded[k[2]]
            => View(k)' = View(k)
<1>1. k[2] \in Owner /\ k[1] \in Session \cup {"user"} /\ audioOnly \in BOOLEAN
  BY KeyParts DEF Types
<1>2. k \in Watched' <=> k \in Watched
  BY <1>1, Members, WatchedIs
<1>3. View(k) \in Sight /\ View(k)' \in Sight
  BY <1>1, ViewType, ViewTypeNext
<1>4. Videos(k)' = Videos(k)
  BY DEF Videos
<1>5. /\ (\A s \in Videos(k)' : track'[s][k[2]].muted) <=> (\A s \in Videos(k) : track[s][k[2]].muted)
      /\ (\E s \in Videos(k)' : track'[s][k[2]].dry) <=> (\E s \in Videos(k) : track[s][k[2]].dry)
  BY <1>4
<1>6. /\ View(k)'.p2p = View(k).p2p /\ View(k)'.muted = View(k).muted
      /\ View(k)'.dry = View(k).dry
  BY <1>5, ViewFields, ViewFieldsNext
<1>7. /\ audioOnly' = audioOnly => View(k)'.audioOnly = View(k).audioOnly
      /\ bridge'.dead = bridge.dead => View(k)'.bridgeOk = View(k).bridgeOk
  BY ViewFields, ViewFieldsNext
<1>8. ASSUME audioOnly' = audioOnly, k[2] \in bridge'.dead <=> k[2] \in bridge.dead,
             bridge'.forwarded[k[2]] = bridge.forwarded[k[2]]
      PROVE  View(k)' = View(k)
  BY <1>1, <1>4, <1>8, SameView
<1> QED BY <1>2, <1>3, <1>6, <1>7, <1>8

LEMMA FigureOutStatus ==
  ASSUME Types, NEW k \in Key, StatusAt(k), NEW d \in Detector, det'[k] = FigureOut(k, d),
         audioOnly' \in BOOLEAN, names' = names, presence' = presence,
         k \in Watched' <=> k \in Watched, d.figured = det[k].figured,
         names => k \in Watched \/ d = det[k],
         bridge'.forwarded[k[2]] = "all" => d.enteredFor = Off
  PROVE  StatusAt(k)' /\ det'[k] \in Detector
<1>1. /\ det'[k] \in Detector /\ det'[k].enteredFor = d.enteredFor
      /\ k \in Watched' => Tells(det'[k], View(k)')
      /\ k \notin Watched' => det'[k] = d
  BY FigureOutType
<1>2. ~names /\ k \in Watched' => presence'[k[2]].place # "out"
  <2>1. k[2] \in Owner
    BY KeyParts
  <2> QED BY <2>1, WatchedIs, PlaceOf
<1> QED BY <1>1, <1>2 DEF StatusAt

(* The bridge tells which sources it forwards.                             *)
LEMMA ForwardedStatus ==
  ASSUME Types, StatusOK, NEW list \in SUBSET Owner, ForwardedSourcesChanged(list)
  PROVE  StatusOK' /\ det' \in [Key -> Detector] /\ bridge' \in Bridge
<1> DEFINE now == [o \in Owner |-> IF o \in list THEN "in" ELSE "out"]
           was == bridge.forwarded
           heard(k) == ~names \/ k \in Watched
           e(k) == LET o == k[2] IN
             CASE heard(k) /\ was[o] = "in" /\ now[o] = "out" -> FigureOut(k, Leaves(det[k]))
               [] heard(k) /\ was[o] # "in" /\ now[o] = "in" -> FigureOut(k, Enters(det[k]))
               [] OTHER -> det[k]
<1>1. /\ bridge' = [bridge EXCEPT !.forwarded = now]
      /\ UNCHANGED <<names, presence, sources, ses, track, shown, p2p, audioOnly>>
  BY DEF ForwardedSourcesChanged
<1>2. det' = [k \in Key |-> e(k)]
  BY DEF ForwardedSourcesChanged
<1>3. now \in [Owner -> {"all", "in", "out"}] /\ \A o \in Owner : now[o] \in {"in", "out"}
  OBVIOUS
<1>4. was \in [Owner -> {"all", "in", "out"}] /\ bridge \in Bridge
  BY DEF Types, Bridge
<1> HIDE DEF now
<1>5. bridge' \in Bridge /\ bridge'.forwarded = now /\ bridge'.dead = bridge.dead
  BY <1>1, <1>3, <1>4 DEF Bridge
<1>6. ASSUME NEW k \in Key
      PROVE  e(k) \in Detector /\ StatusAt(k)'
  <2>1. /\ StatusAt(k) /\ k[2] \in Owner /\ det[k] \in Detector /\ det'[k] = e(k)
        /\ audioOnly' \in BOOLEAN
    BY <1>1, <1>2, KeyParts DEF StatusOK, Types
  <2>2. /\ k \in Watched' <=> k \in Watched
        /\ View(k) \in Sight /\ View(k)' \in Sight
        /\ View(k)'.p2p = View(k).p2p /\ View(k)'.muted = View(k).muted
        /\ View(k)'.dry = View(k).dry /\ View(k)'.audioOnly = View(k).audioOnly
        /\ View(k)'.bridgeOk = View(k).bridgeOk
        /\ bridge'.forwarded[k[2]] = bridge.forwarded[k[2]] => View(k)' = View(k)
    BY <1>1, <1>5, <2>1, DetectorViews
  <2>3. bridge'.forwarded[k[2]] # "all" /\ now[k[2]] \in {"in", "out"}
        /\ was[k[2]] \in {"all", "in", "out"} /\ bridge'.forwarded[k[2]] = now[k[2]]
    BY <1>3, <1>4, <1>5, <2>1
  <2>4. CASE heard(k) /\ was[k[2]] = "in" /\ now[k[2]] = "out"
    <3>1. det'[k] = FigureOut(k, Leaves(det[k]))
      BY <2>1, <2>4
    <3>2. Leaves(det[k]) \in Detector /\ Leaves(det[k]).figured = det[k].figured
      BY <2>1, LeavesEntersFields
    <3>3. names => k \in Watched
      BY <2>4
    <3> QED BY <1>1, <2>1, <2>2, <2>3, <3>1, <3>2, <3>3, FigureOutStatus
  <2>5. CASE heard(k) /\ was[k[2]] # "in" /\ now[k[2]] = "in"
    <3>1. det'[k] = FigureOut(k, Enters(det[k]))
      BY <2>1, <2>5
    <3>2. Enters(det[k]) \in Detector /\ Enters(det[k]).figured = det[k].figured
      BY <2>1, LeavesEntersFields
    <3>3. names => k \in Watched
      BY <2>5
    <3> QED BY <1>1, <2>1, <2>2, <2>3, <3>1, <3>2, <3>3, FigureOutStatus
  <2>6. CASE /\ ~(heard(k) /\ was[k[2]] = "in" /\ now[k[2]] = "out")
             /\ ~(heard(k) /\ was[k[2]] # "in" /\ now[k[2]] = "in")
    <3>1. det'[k] = det[k]
      BY <2>1, <2>6
    <3>2. CASE k \notin Watched'
      BY <1>1, <2>1, <2>2, <2>3, <3>1, <3>2, StatusFrame
    <3>3. CASE k \in Watched'
      <4>1. k \in Watched /\ heard(k)
        BY <2>2, <3>3
      <4>2. CASE now[k[2]] = was[k[2]]
        BY <1>1, <2>1, <2>2, <2>3, <3>1, <4>1, <4>2, StatusFrame
      <4>3. CASE now[k[2]] # was[k[2]]
        <5>1. was[k[2]] = "all" /\ now[k[2]] = "out"
          BY <2>3, <2>6, <4>1, <4>3
        <5>2. View(k).forwarded
          BY <5>1, ViewFields
        <5>3. Tells(det[k], View(k)) /\ det[k].enteredFor = Off
          BY <2>1, <4>1, <5>1 DEF StatusAt
        <5>4. Tells(det'[k], View(k)')
          BY <2>1, <2>2, <3>1, <5>2, <5>3, UnforwardedTells
        <5>5. names \/ presence'[k[2]].place # "out"
          BY <1>1, <2>1, <4>1, WatchedIs, PlaceOf
        <5>6. names' = names /\ bridge'.forwarded[k[2]] # "all"
          BY <1>1, <2>3
        <5>7. StatusAt(k)'
          BY ONLY <3>3, <5>4, <5>5, <5>6 DEF StatusAt
        <5> QED BY <2>1, <3>1, <5>7
      <4> QED BY <4>2, <4>3
    <3> QED BY <2>1, <3>1, <3>2, <3>3
  <2> QED BY <2>1, <2>4, <2>5, <2>6
<1> HIDE DEF e
<1> QED BY <1>2, <1>5, <1>6 DEF StatusOK

(* An endpoint dies, or lives again.                                       *)
LEMMA EndpointStatus ==
  ASSUME Types, StatusOK, NEW o \in Owner, EndpointConnStatusChanged(o)
  PROVE  StatusOK' /\ det' \in [Key -> Detector] /\ bridge' \in Bridge
<1> DEFINE e(k) == IF k = <<"user", o>> THEN FigureOut(k, det[k]) ELSE det[k]
           dead == IF o \in bridge.dead THEN bridge.dead \ {o} ELSE bridge.dead \union {o}
<1>1. /\ ~names /\ bridge' = [bridge EXCEPT !.dead = dead]
      /\ UNCHANGED <<names, presence, sources, ses, track, shown, p2p, audioOnly>>
  BY DEF EndpointConnStatusChanged
<1>2. det' = [k \in Key |-> e(k)]
  BY DEF EndpointConnStatusChanged
<1>3. bridge \in Bridge /\ dead \in SUBSET Owner /\ \A q : q # o => (q \in dead <=> q \in bridge.dead)
  BY DEF Types, Bridge
<1> HIDE DEF dead
<1>4. bridge' \in Bridge /\ bridge'.forwarded = bridge.forwarded /\ bridge'.dead = dead
  BY <1>1, <1>3 DEF Bridge
<1>5. ASSUME NEW k \in Key
      PROVE  e(k) \in Detector /\ StatusAt(k)'
  <2>1. /\ StatusAt(k) /\ k[2] \in Owner /\ det[k] \in Detector /\ det'[k] = e(k)
        /\ audioOnly' \in BOOLEAN /\ k = <<k[1], k[2]>>
    BY <1>1, <1>2, KeyParts DEF StatusOK, Types
  <2>2. /\ k \in Watched' <=> k \in Watched
        /\ k[2] # o => View(k)' = View(k)
    BY <1>1, <1>3, <1>4, <2>1, DetectorViews
  <2>3. CASE k = <<"user", o>>
    <3>1. det'[k] = FigureOut(k, det[k])
      BY <2>1, <2>3
    <3>2. bridge'.forwarded[k[2]] = "all" => det[k].enteredFor = Off
      BY <1>4, <2>1 DEF StatusAt
    <3> QED BY <1>1, <2>1, <2>2, <3>1, <3>2, FigureOutStatus
  <2>4. CASE k # <<"user", o>>
    <3>1. det'[k] = det[k]
      BY <2>1, <2>4
    <3>2. k \in Watched => k[2] # o
      BY <1>1, <2>1, <2>4, WatchedIs
    <3> QED BY <1>1, <1>4, <2>1, <2>2, <3>1, <3>2, StatusFrame
  <2> QED BY <2>1, <2>3, <2>4
<1> HIDE DEF e
<1> QED BY <1>2, <1>4, <1>5 DEF StatusOK

(* lastN changes: every status is figured out.                             *)
LEMMA LastNStatus ==
  ASSUME Types, StatusOK, LastNChanged
  PROVE  StatusOK' /\ det' \in [Key -> Detector] /\ audioOnly' \in BOOLEAN
<1>1. /\ audioOnly' \in BOOLEAN
      /\ UNCHANGED <<names, presence, sources, ses, track, shown, p2p, bridge>>
      /\ det' = [k \in Key |-> FigureOut(k, det[k])]
  BY DEF LastNChanged, RefreshAll
<1>2. ASSUME NEW k \in Key
      PROVE  FigureOut(k, det[k]) \in Detector /\ StatusAt(k)'
  <2>1. StatusAt(k) /\ det[k] \in Detector /\ det'[k] = FigureOut(k, det[k])
    BY <1>1 DEF StatusOK, Types
  <2>2. k \in Watched' <=> k \in Watched
    BY <1>1, DetectorViews
  <2>3. bridge'.forwarded[k[2]] = "all" => det[k].enteredFor = Off
    BY <1>1, <2>1 DEF StatusAt
  <2> QED BY <1>1, <2>1, <2>2, <2>3, FigureOutStatus
<1> QED BY <1>1, <1>2 DEF StatusOK

(* Time passes.                                                            *)
LEMMA TickStatus ==
  ASSUME Types, StatusOK, Tick
  PROVE  StatusOK' /\ det' \in [Key -> Detector]
<1>1. /\ UNCHANGED <<names, presence, sources, ses, track, shown, p2p, bridge, audioOnly>>
      /\ det' = [k \in Key |-> Older(det[k])]
  BY DEF Tick
<1>2. ASSUME NEW k \in Key
      PROVE  Older(det[k]) \in Detector /\ StatusAt(k)'
  <2>1. StatusAt(k) /\ det[k] \in Detector /\ det'[k] = Older(det[k]) /\ audioOnly' \in BOOLEAN
    BY <1>1 DEF StatusOK, Types
  <2>2. (k \in Watched' <=> k \in Watched) /\ View(k)' = View(k) /\ View(k) \in Sight
    BY <1>1, <2>1, DetectorViews
  <2>3. /\ det'[k] \in Detector /\ det'[k].figured = det[k].figured
        /\ (det'[k].enteredFor = Off) = (det[k].enteredFor = Off)
        /\ ~Pending(det[k]) => ~Pending(det'[k])
    BY <2>1, OlderFields
  <2>4. k \in Watched => Tells(det'[k], View(k))
    BY <2>1, <2>2, OlderTells DEF StatusAt
  <2> QED BY <1>1, <2>1, <2>2, <2>3, <2>4 DEF StatusAt
<1> QED BY <1>1, <1>2 DEF StatusOK

(* A timer goes off.                                                       *)
LEMMA TimerStatus ==
  ASSUME Types, StatusOK, NEW j \in Key, TrackTimer(j) \/ RestoringTimer(j)
  PROVE  StatusOK' /\ det' \in [Key -> Detector]
<1> DEFINE d == IF TrackTimer(j) THEN [det[j] EXCEPT !.trackTimer = Off]
                ELSE [det[j] EXCEPT !.restoringTimer = Spent]
<1>1. /\ UNCHANGED <<names, presence, sources, ses, track, shown, p2p, bridge, audioOnly>>
      /\ det' = [det EXCEPT ![j] = FigureOut(j, d)] /\ Pending(det[j])
  <2>1. CASE TrackTimer(j)
    <3>1. 0 # Off
      BY DEF Off
    <3> QED BY <2>1, <3>1 DEF TrackTimer, Pending
  <2>2. CASE ~TrackTimer(j)
    BY <2>2 DEF RestoringTimer, Pending
  <2> QED BY <2>1, <2>2
<1>2. d \in Detector /\ d.figured = det[j].figured /\ d.enteredFor = det[j].enteredFor
  <2>1. det[j] \in Detector
    BY DEF Types
  <2> QED BY <2>1, TimerFields
<1> HIDE DEF d
<1>3. det \in [Key -> Detector] /\ audioOnly' \in BOOLEAN
  BY <1>1 DEF Types
<1>4. ASSUME NEW k \in Key
      PROVE  det'[k] \in Detector /\ StatusAt(k)'
  <2>1. StatusAt(k) /\ det[k] \in Detector
    BY <1>3 DEF StatusOK
  <2>2. (k \in Watched' <=> k \in Watched) /\ View(k)' = View(k)
    BY <1>1, <1>3, DetectorViews
  <2>3. CASE k # j
    <3>1. det'[k] = det[k]
      BY <1>1, <1>3, <2>3
    <3> QED BY <1>1, <2>1, <2>2, <3>1, StatusFrame
  <2>4. CASE k = j
    <3>1. det'[k] = FigureOut(k, d)
      BY <1>1, <1>3, <2>4
    <3>2. names => k \in Watched
      BY <1>1, <2>1, <2>4 DEF StatusAt
    <3>3. bridge'.forwarded[k[2]] = "all" => d.enteredFor = Off
      BY <1>1, <1>2, <2>1, <2>4 DEF StatusAt
    <3> QED BY <1>1, <1>2, <1>3, <2>1, <2>2, <2>4, <3>1, <3>2, <3>3, FigureOutStatus
  <2> QED BY <2>3, <2>4
<1>5. det' \in [Key -> Detector]
  <2>1. DOMAIN det' = Key /\ det' = [k \in Key |-> det'[k]]
    BY <1>1, <1>3
  <2> QED BY <1>4, <2>1
<1> QED BY <1>4, <1>5 DEF StatusOK

-----------------------------------------------------------------------------
(***************************************************************************)
(* The invariant.                                                          *)
(***************************************************************************)

LEMMA InitIInv == Init => IInv
<1> SUFFICES ASSUME Init PROVE IInv
  OBVIOUS
<1>1. /\ names \in BOOLEAN /\ audioOnly = FALSE
      /\ presence \in [Owner -> [place : {"out"}, muted : {TRUE}, modern : BOOLEAN,
                               source : {"none"}, changes : {0}]]
      /\ sources = [o \in Owner |-> "none"]
      /\ ses = [s \in Session |-> NewSession]
      /\ track = [s \in Session |-> [o \in Owner |-> NoTrack]]
      /\ shown = {} /\ p2p = "none"
      /\ bridge = [forwarded |-> [o \in Owner |-> "all"], dead |-> {}]
      /\ det = [k \in Key |-> NewDetector]
  BY DEF Init
<1>2. \A o \in Owner : presence[o].place = "out" /\ presence[o].source = "none"
  BY <1>1
<1>3. member = {}
  BY <1>2 DEF member
<1>4. Types
  <2>1. presence \in [Owner -> OwnerPresence]
    <3>1. 0 \in 0..Changes
      BY RemoteTracksAssumption
    <3> QED BY <1>1, <3>1 DEF OwnerPresence
  <2>2. ses \in [Session -> SessionState]
    BY <1>1, NewSessionOK
  <2>3. track \in [Session -> [Owner -> TrackState]]
    BY <1>1 DEF NoTrack, TrackState
  <2>4. bridge \in Bridge
    BY <1>1 DEF Bridge
  <2>5. det \in [Key -> Detector]
    BY <1>1, NewDetectorFields
  <2> QED BY <1>1, <2>1, <2>2, <2>3, <2>4, <2>5 DEF Types
<1>5. SessionsOK
  <2>1. \A s \in Session : ses[s] = NewSession
    BY <1>1
  <2>2. \A s \in Session, o \in Owner : Matches(ses[s], member) /\ Without(ses[s], o)
    BY <2>1, NewSessionOK
  <2>3. \A s \in Session : Matches(ses[s], member)
    BY <2>1, NewSessionOK
  <2>4. \A o \in Owner : NotAdded(ses["jvb"], o)
    BY <2>2, SessionIs DEF Without, NotAdded
  <2> QED BY <1>1, <1>2, <2>1, <2>2, <2>3, <2>4, SessionIs DEF SessionsOK
<1>6. ShownOK
  <2>1. \A s \in Session, o \in Owner : track[s][o].asked = FALSE
    BY <1>1 DEF NoTrack
  <2> QED BY <1>1, <1>3, <2>1 DEF ShownOK
<1>7. MutesOK
  BY <1>3 DEF MutesOK, MutedAsTold
<1>8. StatusOK
  <2>1. \A k \in Key : det[k] = NewDetector
    BY <1>1
  <2> QED BY <2>1, NewDetectorFields DEF StatusOK, StatusAt, Tells
<1> QED BY <1>4, <1>5, <1>6, <1>7, <1>8 DEF IInv

LEMMA PresenceInv ==
  ASSUME IInv, NEW o \in Owner, NEW muted \in BOOLEAN, Presence(o, muted)
  PROVE  IInv'
<1>1. Types /\ SessionsOK /\ ShownOK /\ MutesOK /\ StatusOK
  BY DEF IInv
<1>2. SessionsOK' /\ ShownOK' /\ MutesOK' /\ member' = member
  BY <1>1, PresenceMutes
<1>3. StatusOK' /\ det' \in [Key -> Detector]
  BY <1>1, <1>2, PresenceStatus
<1>4. presence' \in [Owner -> OwnerPresence] /\ sources' \in [Owner -> {"none", "muted", "unmuted"}]
  BY <1>1, PresenceTypes
<1>5. /\ UNCHANGED <<names, ses, shown, p2p, bridge, audioOnly>> /\ SetMute(o, muted)
  BY DEF Presence
<1>6. track' \in Tracks
  BY <1>1, <1>5, SetMuteFields DEF Types, Tracks
<1> QED BY <1>1, <1>2, <1>3, <1>4, <1>5, <1>6 DEF IInv, Types, Tracks

LEMMA JoinedInv ==
  ASSUME IInv, NEW o \in Owner, NEW muted \in BOOLEAN, MemberJoined(o, muted)
  PROVE  IInv'
<1>1. Types /\ SessionsOK /\ ShownOK /\ MutesOK /\ StatusOK
  BY DEF IInv
<1>2. SessionsOK' /\ ShownOK' /\ MutesOK'
  BY <1>1, JoinedMutes
<1>3. StopP2P /\ UNCHANGED <<names, bridge, audioOnly>>
  BY DEF MemberJoined
<1>4. /\ presence' \in [Owner -> OwnerPresence]
      /\ sources' \in [Owner -> {"none", "muted", "unmuted"}]
      /\ presence[o].place = "out" /\ presence'[o].place = "in"
      /\ \A q \in Owner \ {o} : presence'[q] = presence[q]
      /\ member' = member \cup {o}
  BY <1>1, JoinedTypes
<1>5. /\ p2p' = "none" /\ ses' \in [Session -> SessionState] /\ track' \in Tracks
      /\ shown' \subseteq Session \X Owner /\ det' \in [Key -> Detector]
  BY <1>1, <1>3, StopP2PTypes
<1> DEFINE M == {o}
<1>6. /\ member' = member \cup M /\ M \subseteq Owner /\ \A q \in M : presence[q].place = "out"
      /\ \A q \in Owner : presence'[q].place = IF q \in M THEN "in" ELSE presence[q].place
  BY <1>4
<1> HIDE DEF M
<1>7. StatusOK'
  BY <1>1, <1>2, <1>3, <1>6, StopStatus
<1> QED BY <1>1, <1>2, <1>3, <1>4, <1>5, <1>7 DEF IInv, Types, Tracks

LEMMA StoppedInv ==
  ASSUME IInv, P2PStopped
  PROVE  IInv'
<1>1. Types /\ SessionsOK /\ ShownOK /\ MutesOK /\ StatusOK
  BY DEF IInv
<1>2. SessionsOK' /\ ShownOK' /\ MutesOK' /\ member' = member
  BY <1>1, StoppedMutes
<1>3. StopP2P /\ UNCHANGED <<names, presence, sources, bridge, audioOnly>>
  BY DEF P2PStopped
<1>4. /\ p2p' = "none" /\ ses' \in [Session -> SessionState] /\ track' \in Tracks
      /\ shown' \subseteq Session \X Owner /\ det' \in [Key -> Detector]
  BY <1>1, <1>3, StopP2PTypes
<1> DEFINE M == {}
<1>5. /\ member' = member \cup M /\ M \subseteq Owner /\ \A q \in M : presence[q].place = "out"
      /\ \A q \in Owner : presence'[q].place = IF q \in M THEN "in" ELSE presence[q].place
  BY <1>2, <1>3
<1> HIDE DEF M
<1>6. StatusOK'
  BY <1>1, <1>2, <1>3, <1>5, StopStatus
<1> QED BY <1>1, <1>2, <1>3, <1>4, <1>6 DEF IInv, Types, Tracks

LEMMA LeftInv ==
  ASSUME IInv, NEW o \in Owner, MemberLeft(o)
  PROVE  IInv'
<1>1. Types /\ SessionsOK /\ ShownOK /\ MutesOK /\ StatusOK
  BY DEF IInv
<1>2. SessionsOK' /\ ShownOK' /\ MutesOK'
  BY <1>1, LeftMutes
<1>3. StatusOK'
  BY <1>1, LeftStatus
<1>4. UNCHANGED <<names, bridge, audioOnly>>
  BY DEF MemberLeft
<1>5. /\ presence' \in [Owner -> OwnerPresence]
      /\ sources' \in [Owner -> {"none", "muted", "unmuted"}] /\ p2p' = "none"
      /\ ses' \in [Session -> SessionState] /\ track' \in Tracks
      /\ shown' \subseteq Session \X Owner /\ det' \in [Key -> Detector]
  BY <1>1, LeftTypes
<1> QED BY <1>1, <1>2, <1>3, <1>4, <1>5 DEF IInv, Types, Tracks

LEMMA ConnectedInv ==
  ASSUME IInv, P2PConnected
  PROVE  IInv'
<1>1. Types /\ SessionsOK /\ ShownOK /\ MutesOK /\ StatusOK
  BY DEF IInv
<1>2. SessionsOK' /\ ShownOK' /\ MutesOK' /\ member' = member
  BY <1>1, ConnectedMutes
<1>3. StatusOK'
  BY <1>1, <1>2, ConnectedStatus
<1>4. UNCHANGED <<names, presence, sources, ses, bridge, audioOnly>>
  BY DEF P2PConnected
<1>5. /\ p2p' = "active" /\ track' \in Tracks /\ shown' \subseteq Session \X Owner
      /\ det' \in [Key -> Detector]
  BY <1>1, ConnectedTypes
<1> QED BY <1>1, <1>2, <1>3, <1>4, <1>5 DEF IInv, Types, Tracks

LEMMA TasksInv ==
  ASSUME IInv,
         \/ \E o \in Owner : SourceAdd(o) \/ SourceRemove(o) \/ StartP2P(o)
         \/ \E s \in Session : RunTask(s)
  PROVE  IInv'
<1>1. Types /\ SessionsOK /\ ShownOK /\ MutesOK /\ StatusOK
  BY DEF IInv
<1>2. /\ SessionsOK' /\ ShownOK' /\ MutesOK' /\ member' = member
      /\ ses' \in [Session -> SessionState] /\ presence' \in [Owner -> OwnerPresence]
      /\ \A o \in Owner : presence'[o].place = presence[o].place
      /\ (p2p' = "active") = (p2p = "active") /\ p2p' \in {"none", "starting", "active"}
      /\ UNCHANGED <<names, sources, track, shown, bridge, audioOnly, det>>
  BY <1>1, TasksMutes
<1>3. StatusOK'
  BY <1>1, <1>2, TasksStatus
<1> QED BY <1>1, <1>2, <1>3 DEF IInv, Types

LEMMA TrackEventInv ==
  ASSUME IInv, NEW s \in Session, RemoteTrackAdded(s) \/ RemoteTrackRemoved(s)
  PROVE  IInv'
<1>1. Types /\ SessionsOK /\ ShownOK /\ MutesOK /\ StatusOK
  BY DEF IInv
<1>2. CASE RemoteTrackAdded(s)
  <2>1. SessionsOK' /\ ShownOK' /\ MutesOK'
    BY <1>1, <1>2, AddedMutes
  <2>2. ses' \in [Session -> SessionState] /\ ses[s].tasks # <<>>
    BY <1>1, <1>2, AddedSessions
  <2>3. track' \in Tracks /\ shown' \subseteq Session \X Owner
    BY <1>1, <1>2, <2>2, AddedTypes
  <2>4. StatusOK'
    BY <1>1, <1>2, AddedStatus
  <2>5. UNCHANGED <<names, presence, sources, p2p, bridge, audioOnly, det>>
    BY <1>2 DEF RemoteTrackAdded
  <2> QED BY <1>1, <2>1, <2>2, <2>3, <2>4, <2>5 DEF IInv, Types, Tracks
<1>3. CASE RemoteTrackRemoved(s)
  <2>1. SessionsOK' /\ ShownOK' /\ MutesOK'
    BY <1>1, <1>3, RemovedMutes
  <2>2. ses' \in [Session -> SessionState]
    BY <1>1, <1>3, RemovedSessions
  <2>3. track' \in Tracks /\ shown' \subseteq Session \X Owner /\ det' \in [Key -> Detector]
    BY <1>1, <1>3, RemovedTypes
  <2>4. StatusOK'
    BY <1>1, <1>3, RemovedStatus
  <2>5. UNCHANGED <<names, presence, sources, p2p, bridge, audioOnly>>
    BY <1>3 DEF RemoteTrackRemoved
  <2> QED BY <1>1, <2>1, <2>2, <2>3, <2>4, <2>5 DEF IInv, Types, Tracks
<1> QED BY <1>2, <1>3


(* Steps that change neither presence nor sessions leave the tracks be.    *)
LEMMA DetectorFrame ==
  ASSUME IInv, track' \in Tracks, det' \in [Key -> Detector], bridge' \in Bridge,
         audioOnly' \in BOOLEAN, StatusOK',
         UNCHANGED <<names, presence, sources, ses, shown, p2p>>,
         \A s \in Session, o \in Owner : /\ track'[s][o].asked = track[s][o].asked
                                         /\ track'[s][o].muted = track[s][o].muted
  PROVE  IInv'
<1>1. Types /\ SessionsOK /\ ShownOK /\ MutesOK /\ StatusOK
  BY DEF IInv
<1>2. SessionsOK' /\ member' = member
  BY <1>1, SessionsFrame
<1>3. ShownOK'
  BY <1>1, <1>2, ShownFrame
<1>4. MutesOK'
  <2>1. member \subseteq Owner
    BY Members
  <2> QED BY <1>1, <1>2, <2>1, MutesFrame
<1>5. Types'
  BY <1>1 DEF Types, Tracks
<1> QED BY <1>2, <1>3, <1>4, <1>5 DEF IInv

LEMMA ListenerInv ==
  ASSUME IInv, NEW j \in Key, AddEventListener(j) \/ RemoveEventListener(j)
  PROVE  IInv'
<1>1. Types /\ SessionsOK /\ ShownOK /\ MutesOK /\ StatusOK
  BY DEF IInv
<1>2. /\ StatusOK' /\ ShownOK' /\ track' \in Tracks /\ det' \in [Key -> Detector]
      /\ \A s \in Session, o \in Owner : track'[s][o].muted = track[s][o].muted
      /\ UNCHANGED <<names, presence, sources, ses, shown, p2p, bridge, audioOnly>>
  BY <1>1, ListenerStatus
<1>3. SessionsOK' /\ member' = member
  BY <1>1, <1>2, SessionsFrame
<1>4. MutesOK'
  <2>1. member \subseteq Owner
    BY Members
  <2> QED BY <1>1, <1>2, <1>3, <2>1, MutesFrame
<1>5. Types'
  BY <1>1, <1>2 DEF Types, Tracks
<1> QED BY <1>2, <1>3, <1>4, <1>5 DEF IInv

LEMMA RtcInv ==
  ASSUME IInv, NEW s \in Session, NEW o \in Owner, TrackRtcMuted(s, o) \/ TrackRtcUnmuted(s, o)
  PROVE  IInv'
<1>1. Types /\ SessionsOK /\ ShownOK /\ MutesOK /\ StatusOK
  BY DEF IInv
<1>2. StatusOK' /\ det' \in [Key -> Detector]
  BY <1>1, TrackRtcMutedStatus, TrackRtcUnmutedStatus
<1>3. \/ track' = [track EXCEPT ![s][o].dry = TRUE]
      \/ track' = [track EXCEPT ![s][o].dry = FALSE]
  BY DEF TrackRtcMuted, TrackRtcUnmuted
<1>4. UNCHANGED <<names, presence, sources, ses, shown, p2p, bridge, audioOnly>>
  BY DEF TrackRtcMuted, TrackRtcUnmuted
<1>5. /\ track' \in Tracks
      /\ \A r \in Session, q \in Owner : /\ track'[r][q].asked = track[r][q].asked
                                         /\ track'[r][q].muted = track[r][q].muted
                                         /\ q # o => track'[r][q] = track[r][q]
  <2>1. Types
    BY <1>1
  <2>2. CASE track' = [track EXCEPT ![s][o].dry = TRUE]
    BY ONLY <2>1, <2>2, s \in Session, o \in Owner, DryTrack
  <2>3. CASE track' = [track EXCEPT ![s][o].dry = FALSE]
    BY ONLY <2>1, <2>3, s \in Session, o \in Owner, DryTrack
  <2> QED BY <1>3, <2>2, <2>3
<1>6. bridge' \in Bridge /\ audioOnly' \in BOOLEAN
  BY <1>1, <1>4 DEF Types
<1> QED BY <1>2, <1>4, <1>5, <1>6, DetectorFrame

LEMMA LookInv ==
  ASSUME IInv,
         \/ \E list \in SUBSET Owner : ForwardedSourcesChanged(list)
         \/ \E o \in Owner : EndpointConnStatusChanged(o)
         \/ \E j \in Key : TrackTimer(j) \/ RestoringTimer(j)
         \/ LastNChanged \/ Tick
  PROVE  IInv'
<1>1. Types /\ SessionsOK /\ ShownOK /\ MutesOK /\ StatusOK
  BY DEF IInv
<1>2. UNCHANGED <<names, presence, sources, ses, shown, p2p, track>>
  BY DEF ForwardedSourcesChanged, EndpointConnStatusChanged, TrackTimer, RestoringTimer,
         LastNChanged, Tick
<1>3. bridge \in Bridge /\ audioOnly \in BOOLEAN /\ track' \in Tracks
  BY <1>1, <1>2 DEF Types, Tracks
<1>4. StatusOK' /\ det' \in [Key -> Detector] /\ bridge' \in Bridge /\ audioOnly' \in BOOLEAN
  <2>1. CASE \E list \in SUBSET Owner : ForwardedSourcesChanged(list)
    <3>1. audioOnly' = audioOnly
      BY <2>1 DEF ForwardedSourcesChanged
    <3> QED BY <1>1, <1>3, <2>1, <3>1, ForwardedStatus
  <2>2. CASE \E o \in Owner : EndpointConnStatusChanged(o)
    <3>1. audioOnly' = audioOnly
      BY <2>2 DEF EndpointConnStatusChanged
    <3> QED BY <1>1, <1>3, <2>2, <3>1, EndpointStatus
  <2>3. CASE \E j \in Key : TrackTimer(j) \/ RestoringTimer(j)
    <3>1. bridge' = bridge /\ audioOnly' = audioOnly
      BY <2>3 DEF TrackTimer, RestoringTimer
    <3> QED BY <1>1, <1>3, <2>3, <3>1, TimerStatus
  <2>4. CASE LastNChanged
    <3>1. bridge' = bridge
      BY <2>4 DEF LastNChanged
    <3> QED BY <1>1, <1>3, <2>4, <3>1, LastNStatus
  <2>5. CASE Tick
    <3>1. bridge' = bridge /\ audioOnly' = audioOnly
      BY <2>5 DEF Tick
    <3> QED BY <1>1, <1>3, <2>5, <3>1, TickStatus
  <2> QED BY <2>1, <2>2, <2>3, <2>4, <2>5
<1> QED BY <1>2, <1>3, <1>4, DetectorFrame

LEMMA NextIInv == IInv /\ [Next]_vars => IInv'
<1> SUFFICES ASSUME IInv, [Next]_vars PROVE IInv'
  OBVIOUS
<1>1. CASE \E o \in Owner, muted \in BOOLEAN : MemberJoined(o, muted) \/ Presence(o, muted)
  BY <1>1, JoinedInv, PresenceInv
<1>2. CASE \E o \in Owner : MemberLeft(o)
  BY <1>2, LeftInv
<1>3. CASE \/ \E o \in Owner : SourceAdd(o) \/ SourceRemove(o) \/ StartP2P(o)
           \/ \E s \in Session : RunTask(s)
  BY <1>3, TasksInv
<1>4. CASE \E o \in Owner, s \in Session : TrackRtcMuted(s, o) \/ TrackRtcUnmuted(s, o)
  BY <1>4, RtcInv
<1>5. CASE P2PConnected \/ P2PStopped
  BY <1>5, ConnectedInv, StoppedInv
<1>6. CASE \E s \in Session : RemoteTrackAdded(s) \/ RemoteTrackRemoved(s)
  BY <1>6, TrackEventInv
<1>7. CASE \E k \in Key : AddEventListener(k) \/ RemoveEventListener(k)
  BY <1>7, ListenerInv
<1>8. CASE \/ \E list \in SUBSET Owner : ForwardedSourcesChanged(list)
           \/ \E o \in Owner : EndpointConnStatusChanged(o)
           \/ \E k \in Key : TrackTimer(k) \/ RestoringTimer(k)
           \/ LastNChanged \/ Tick
  BY <1>8, LookInv
<1>9. CASE UNCHANGED vars
  <2>1. /\ UNCHANGED <<names, presence, sources, ses, shown, p2p, track>>
        /\ UNCHANGED <<bridge, audioOnly, det>>
    BY <1>9 DEF vars
  <2>2. track \in Tracks /\ det \in [Key -> Detector] /\ bridge \in Bridge /\ audioOnly \in BOOLEAN
    BY DEF IInv, Types, Tracks
  <2>3. StatusOK'
    BY <2>1, ZenonT(60) DEF IInv, StatusOK, StatusAt, Watched, View, member
  <2> QED BY <2>1, <2>2, <2>3, DetectorFrame
<1> QED BY <1>1, <1>2, <1>3, <1>4, <1>5, <1>6, <1>7, <1>8, <1>9 DEF Next

(* The tracks of the sessions, what the application is shown of them and   *)
(* the detectors stay consistent through every step of the presence, the   *)
(* sessions' task queues, the browser's events, P2P and the timers.        *)
THEOREM Inductive == Spec => []IInv
BY InitIInv, NextIInv, PTL DEF Spec

-----------------------------------------------------------------------------

(* No track is described twice or left without a description, none is      *)
(* shown of an owner that is not in the room, and the application asks for *)
(* the status only of tracks it is shown.                                  *)
THEOREM TypeCorrect == Spec => []TypeOK
<1>1. IInv => TypeOK
  <2> SUFFICES ASSUME IInv PROVE TypeOK
    OBVIOUS
  <2>1. Types /\ SessionsOK /\ ShownOK
    BY DEF IInv
  <2>2. ASSUME NEW s \in Session
        PROVE  /\ ses[s].described \subseteq Owner
               /\ ses[s].tracks \subseteq ses[s].described \union
                    (IF ses[s].event = NoEvent THEN {} ELSE {ses[s].event.owner})
               /\ ses[s].tasks \in Seq(Task)
    <3>1. ses[s] \in SessionState /\ Matches(ses[s], member)
      BY <2>1 DEF Types, SessionsOK
    <3>2. /\ ses[s].described \subseteq Owner /\ ses[s].tasks \in Seq(Task)
          /\ ses[s].event = NoEvent \/ ses[s].event.kind \in {"added", "removed"}
      BY <3>1 DEF SessionState, Event
    <3>3. CASE ses[s].event = NoEvent
      BY <3>1, <3>2, <3>3 DEF Matches
    <3>4. CASE ses[s].event # NoEvent
      BY <3>1, <3>2, <3>4 DEF Matches
    <3> QED BY <3>3, <3>4
  <2>3. shown \subseteq Session \X member
    BY <2>1 DEF Types, ShownOK
  <2>4. \A k \in Session \X Owner : track[k[1]][k[2]].asked => k \in shown
    BY <2>1 DEF ShownOK
  <2> QED BY <2>1, <2>2, <2>3, <2>4 DEF TypeOK, Types, OwnerPresence, TrackState, Bridge
<1> QED BY <1>1, Inductive, PTL

(* The mute state of every track of a participant is the one its presence  *)
(* said last, in either session, whether the track or the presence came    *)
(* first: RemoteTrackAdded reads what SetMute would have told it.          *)
THEOREM MutesAreTold == Spec => []MutedAsTold
<1>1. IInv => MutedAsTold
  BY DEF IInv, MutesOK
<1> QED BY <1>1, Inductive, PTL

(* However sources are added, taken back and re-added while their owners   *)
(* come and go, a session whose queue is empty has the tracks of its       *)
(* described sources, and the application is shown those of the active     *)
(* session.                                                                *)
THEOREM TracksAreKept == Spec => []TracksKept
<1>1. IInv => TracksKept
  <2> SUFFICES ASSUME IInv, NEW s \in Session, ses[s].tasks = <<>>
               PROVE  /\ ses[s].described \intersect member = ses[s].tracks \intersect member
                      /\ \A o \in member : (<<s, o>> \in shown) =
                              (o \in ses[s].tracks /\ (s = "p2p") = (p2p = "active"))
                      /\ s = "jvb" => \A o \in ses[s].described : presence[o].source = "added"
                      /\ ses[s].tracks \subseteq ses[s].described
    BY DEF TracksKept
  <2>1. Types /\ SessionsOK /\ ShownOK
    BY DEF IInv
  <2>2. Matches(ses[s], member) /\ ses[s] \in SessionState
    BY <2>1 DEF SessionsOK, Types
  <2>3. ses[s].event = NoEvent
    BY <2>2 DEF Matches
  <2>4. /\ ses[s].tracks \subseteq ses[s].described
        /\ ses[s].described \cap member \subseteq ses[s].tracks
    BY <2>2, <2>3 DEF Matches
  <2>5. \A o \in member : (<<s, o>> \in shown) =
                (o \in ses[s].tracks /\ (s = "p2p") = (p2p = "active"))
    BY <2>1, Members DEF ShownOK, Active
  <2>6. ASSUME s = "jvb", NEW o \in ses[s].described
        PROVE  presence[o].source = "added"
    <3>1. o \in Owner
      BY <2>2 DEF SessionState
    <3>2. presence[o].source \in {"none", "added", "removed"}
      BY <2>1, <3>1 DEF Types, OwnerPresence
    <3>3. presence[o].source # "none"
      BY <2>1, <2>6, <3>1 DEF SessionsOK, NotAdded
    <3>4. ~TakenBack(ses["jvb"], o)
      <4>1. Len(ses["jvb"].tasks) = 0
        BY <2>6
      <4>2. \A i \in 0..Len(ses["jvb"].tasks) : i = 0
        BY <4>1
      <4> QED BY <2>6, <4>2 DEF TakenBack
    <3>5. presence[o].source # "removed"
      BY <2>1, <3>1, <3>4 DEF SessionsOK
    <3> QED BY <3>2, <3>3, <3>5
  <2> QED BY <2>4, <2>5, <2>6
<1> QED BY <1>1, Inductive, PTL

(* A detector whose timers have all gone off has the status the state of   *)
(* the conference calls for, or one that Overlooked excuses, for any       *)
(* timeouts and any order of mutes, forwarding, P2P changes, lastN and     *)
(* late timers.                                                            *)
THEOREM StatusIsCurrent == Spec => []StatusCurrent
<1>1. IInv => StatusCurrent
  <2> SUFFICES ASSUME IInv, NEW k \in Key
               PROVE  IF k \in Watched
                      THEN det[k].figured /\ ~Pending(det[k]) =>
                             det[k].status = StatusNow(det[k], View(k)) \/ Overlooked(k)
                      ELSE names => ~Pending(det[k])
    BY DEF StatusCurrent
  <2>1. Types /\ StatusAt(k)
    BY DEF IInv, StatusOK
  <2>2. det[k].restoringTimer \in Spent..Longest /\ Spent = -2 /\ Off = -1
    BY <2>1 DEF Types, Detector, Spent, Off
  <2>3. CASE k \notin Watched
    BY <2>1, <2>3 DEF StatusAt
  <2>4. CASE k \in Watched
    <3> SUFFICES ASSUME det[k].figured, ~Pending(det[k])
                 PROVE  det[k].status = StatusNow(det[k], View(k)) \/ Overlooked(k)
      BY <2>4
    <3>1. det[k].trackTimer = Off /\ ~(det[k].restoringTimer >= 0)
      BY DEF Pending
    <3>2. Tells(det[k], View(k))
      BY <2>1, <2>4 DEF StatusAt
    <3>3. CASE det[k].status = "restoring"
      <4>1. det[k].restoringTimer # Off
        BY <3>2, <3>3 DEF Tells
      <4>2. Longest \in Int
        BY Timeouts
      <4>3. det[k].restoringTimer = Spent
        BY <2>2, <3>1, <4>1, <4>2
      <4> QED BY <3>3, <4>3 DEF Overlooked
    <3>4. CASE det[k].status # "restoring"
      BY <3>1, <3>2, <3>4 DEF Tells, Overlooked
    <3> QED BY <3>3, <3>4
  <2> QED BY <2>3, <2>4
<1> QED BY <1>1, Inductive, PTL

===============================================================================
