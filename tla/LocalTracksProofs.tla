-------------------------- MODULE LocalTracksProofs --------------------------
(***************************************************************************)
(* That a kind which the focus muted, and which nobody unmuted since, has  *)
(* no track that is heard or seen, for any tracks, sessions and calls.     *)
(*                                                                         *)
(* The functions of LocalTracks work on a world, and so does the           *)
(* invariant.  A function in the middle of a call, or about to change a    *)
(* track, keeps it but for that call and that track (InvBut); one that     *)
(* touches neither tracks nor calls does so by Same.                       *)
(***************************************************************************)
EXTENDS LocalTracks, SequenceTheorems, TLAPS

-----------------------------------------------------------------------------
(***************************************************************************)
(* The inductive invariant, of a world w.                                  *)
(***************************************************************************)

(* Of the values only the shape matters, and of some not even that.        *)
TrackShape ==
  [live : BOOLEAN, gen : Nat, ended : BOOLEAN, effect : BOOLEAN,
   made : BOOLEAN, original : {"none", "device", "effect"}, enabled : BOOLEAN,
   in : BOOLEAN, disposed : BOOLEAN, switching : BOOLEAN,
   chain : Seq([mute : BOOLEAN, focus : BOOLEAN]),
   waits : {"no", "device", "sessions"}, left : SUBSET Session]

ConfShape(c) ==
  c \in [tracks : Seq(Track), byFocus : [Kind -> BOOLEAN], pres : {c.pres}, sent : {c.sent},
         calls : Nat, unsent : {c.unsent}, unsaid : {c.unsaid}, astray : SUBSET Track]

OpShape ==
  {op \in [type : {"initial", "replace", "mute", "unmute"}, old : MaybeTrack, new : MaybeTrack,
           call : Nat, tracks : SUBSET Track] :
     op.type \in {"mute", "unmute"} => op.old \in Track}

SesShape(x) ==
  x \in [on : BOOLEAN, starts : {x.starts}, queue : Seq(OpShape), tracks : {x.tracks},
         sender : {x.sender}, dir : {x.dir}, told : {x.told}, acks : {x.acks},
         active : {x.active}]

Shape(w) ==
  /\ w \in [trk : [Track -> TrackShape], conf : {w.conf}, ses : {w.ses},
            calls : [DOMAIN w.calls -> Call]]
  /\ ConfShape(w.conf)
  /\ w.ses \in [Session -> {w.ses[s] : s \in Session}]
  /\ \A s \in Session : SesShape(w.ses[s])
  /\ DOMAIN w.calls \subseteq Nat

(* A track knows whether it is in the conference, where it is once.        *)
TracksOK(w) ==
  /\ IsInjective(w.conf.tracks)
  /\ \A t \in Track : w.trk[t].in <=> t \in Tracks(w)

(* The focus only mutes; a device is waited for to unmute.                 *)
ChainOK(x) ==
  /\ \A i \in DOMAIN x.chain : x.chain[i].focus => x.chain[i].mute
  /\ x.waits # "no" => x.chain # <<>>
  /\ x.waits = "device" => ~Head(x.chain).mute

(* What a call waits for.                                                  *)
CallShape(c) ==
  /\ c \in Call
  /\ c.old # NoTrack \/ c.new # NoTrack
  /\ c.old # NoTrack /\ c.new # NoTrack => KindOf(c.old) = KindOf(c.new)
  /\ c.then \in {"fxRemove", "dispose"} => c.new = NoTrack
  /\ c.then = "fxAdd" => c.old = NoTrack

CallKind(c) == KindOf(IF c.new = NoTrack THEN c.old ELSE c.new)

(* Each call is about a kind of its own, but for i, and brings a track     *)
(* that is not in the conference.                                          *)
CallsBut(w, i) ==
  \A j \in DOMAIN w.calls \ {i} :
    /\ CallShape(w.calls[j])
    /\ w.calls[j].new \notin Tracks(w)
    /\ \A k \in DOMAIN w.calls \ {i, j} : CallKind(w.calls[k]) # CallKind(w.calls[j])

CallsOK(w) ==
  \A j \in DOMAIN w.calls :
    /\ CallShape(w.calls[j])
    /\ w.calls[j].new \notin Tracks(w)
    /\ \A k \in DOMAIN w.calls \ {j} : CallKind(w.calls[k]) # CallKind(w.calls[j])

(* The sessions are about to be done with the unmute of a track.           *)
Unmuting(x) == x.waits = "sessions" /\ ~Head(x.chain).mute

FocusOK(w, t) ==
  t \in Tracks(w) \ w.conf.astray /\ w.conf.byFocus[KindOf(t)]
    => Muted(w.trk[t], t) \/ Unmuting(w.trk[t])

WInv(w) ==
  /\ Shape(w)
  /\ TracksOK(w)
  /\ \A t \in Track : ChainOK(w.trk[t])
  /\ CallsOK(w)
  /\ \A t \in Track : FocusOK(w, t)

FocusInv == WInv(World)
-----------------------------------------------------------------------------
(***************************************************************************)
(* What leaves the tracks and the calls alone.                             *)
(***************************************************************************)

Same(w, v) ==
  /\ Shape(v) /\ v.trk = w.trk /\ v.calls = w.calls
  /\ v.conf.tracks = w.conf.tracks
  /\ \A k \in Kind : v.conf.byFocus[k] => w.conf.byFocus[k]
  /\ w.conf.astray \subseteq v.conf.astray

(* The invariant but for the call i and, of the focus, for the track t.    *)
InvBut(w, i, t) ==
  /\ Shape(w)
  /\ TracksOK(w)
  /\ \A u \in Track : ChainOK(w.trk[u])
  /\ CallsBut(w, i)
  /\ \A u \in Track \ {t} : FocusOK(w, u)

LEMMA KindType == ASSUME NEW t PROVE KindOf(t) \in Kind
  BY DEF KindOf, Video, Kind

LEMMA SameRefl == ASSUME NEW w, Shape(w) PROVE Same(w, w)
  BY DEF Same

LEMMA SameTrans ==
  ASSUME NEW u, NEW v, NEW w, Same(u, v), Same(v, w) PROVE Same(u, w)
  BY DEF Same

LEMMA SameBut ==
  ASSUME NEW w, NEW v, NEW i, NEW t, InvBut(w, i, t), Same(w, v)
  PROVE  InvBut(v, i, t)
  <1>1. Tracks(v) = Tracks(w)
    BY DEF Same, Tracks
  <1>2. TracksOK(v)
    BY <1>1 DEF InvBut, Same, TracksOK
  <1>3. \A u \in Track : ChainOK(v.trk[u])
    BY DEF InvBut, Same
  <1>4. CallsBut(v, i)
    BY <1>1 DEF InvBut, Same, CallsBut
  <1>5. \A u \in Track \ {t} : FocusOK(v, u)
    BY <1>1, KindType DEF InvBut, Same, FocusOK
  <1> QED
    BY <1>2, <1>3, <1>4, <1>5 DEF InvBut, Same

(* No call is 0, and no track is NoTrack.                                  *)
LEMMA AllBut ==
  ASSUME NEW w
  PROVE  WInv(w) <=> InvBut(w, -1, NoTrack)
  <1>1. NoTrack \notin Track
    BY LocalTracksAssumption
  <1>2. ASSUME Shape(w) PROVE -1 \notin DOMAIN w.calls
    BY <1>2 DEF Shape
  <1>3. ASSUME Shape(w) PROVE CallsBut(w, -1) <=> CallsOK(w)
    BY <1>2, <1>3 DEF CallsBut, CallsOK
  <1> QED
    BY <1>1, <1>3 DEF WInv, InvBut

LEMMA SameInv ==
  ASSUME NEW w, NEW v, WInv(w), Same(w, v) PROVE WInv(v)
  BY AllBut, SameBut

(* A change of the conference only.                                        *)
LEMMA ConfSame ==
  ASSUME NEW w, Shape(w), NEW c, ConfShape(c), c.tracks = w.conf.tracks,
         \A k \in Kind : c.byFocus[k] => w.conf.byFocus[k],
         w.conf.astray \subseteq c.astray,
         NEW v, v = [w EXCEPT !.conf = c]
  PROVE  Same(w, v)
  <1>1. v.trk = w.trk /\ v.calls = w.calls /\ v.conf = c /\ v.ses = w.ses
    BY DEF Shape
  <1>2. v \in [trk : [Track -> TrackShape], conf : {v.conf}, ses : {v.ses},
               calls : [DOMAIN v.calls -> Call]]
    BY DEF Shape
  <1>3. Shape(v)
    BY <1>1, <1>2 DEF Shape
  <1> QED
    BY <1>1, <1>3 DEF Same

(* A change of the sessions only.                                          *)
LEMMA SesSame ==
  ASSUME NEW w, Shape(w), NEW f, f \in [Session -> {f[s] : s \in Session}],
         \A s \in Session : SesShape(f[s]),
         NEW v, v = [w EXCEPT !.ses = f]
  PROVE  Same(w, v)
  <1>1. v.trk = w.trk /\ v.calls = w.calls /\ v.conf = w.conf /\ v.ses = f
    BY DEF Shape
  <1>2. v \in [trk : [Track -> TrackShape], conf : {v.conf}, ses : {v.ses},
               calls : [DOMAIN v.calls -> Call]]
    BY DEF Shape
  <1>3. Shape(v)
    BY <1>1, <1>2 DEF Shape
  <1> QED
    BY <1>1, <1>3 DEF Same

LEMMA QueueSame ==
  ASSUME NEW w, Shape(w), NEW s \in Session, NEW x, SesShape(x),
         NEW v, v = [w EXCEPT !.ses[s] = x]
  PROVE  Same(w, v)
  <1> DEFINE f == [w.ses EXCEPT ![s] = x]
  <1>1. f \in [Session -> {f[u] : u \in Session}] /\ \A u \in Session : SesShape(f[u])
    BY DEF Shape
  <1>2. v = [w EXCEPT !.ses = f]
    OBVIOUS
  <1> HIDE DEF f
  <1> QED
    BY <1>1, <1>2, SesSame

LEMMA PushSame ==
  ASSUME NEW w, Shape(w), NEW op \in OpShape PROVE Same(w, Push(w, op))
  <1> DEFINE f == [s \in Session |->
                     IF w.ses[s].on THEN [w.ses[s] EXCEPT !.queue = Append(@, op)] ELSE w.ses[s]]
  <1>1. ASSUME NEW s \in Session PROVE SesShape(f[s])
    <2>1. SesShape(w.ses[s])
      BY DEF Shape
    <2>2. w.ses[s].queue \in Seq(OpShape)
      BY <2>1 DEF SesShape
    <2>3. Append(w.ses[s].queue, op) \in Seq(OpShape)
      BY <2>2
    <2>4. SesShape([w.ses[s] EXCEPT !.queue = Append(@, op)])
      BY <2>1, <2>3 DEF SesShape
    <2> QED
      BY <2>1, <2>4
  <1>2. f \in [Session -> {f[s] : s \in Session}]
    OBVIOUS
  <1>3. Push(w, op) = [w EXCEPT !.ses = f]
    BY DEF Push
  <1> HIDE DEF f
  <1> QED
    BY <1>1, <1>2, <1>3, SesSame

(* What the room is told is not looked at.                                 *)
LEMMA UpdateSame ==
  ASSUME NEW w, Shape(w), NEW s PROVE Same(w, UpdateRoomPresence(w, s))
  <1>1. \E p, q, u, r, c : /\ UpdateRoomPresence(w, s) = [w EXCEPT !.conf = c]
                        /\ \/ c = [w.conf EXCEPT !.pres = p, !.unsaid = q, !.unsent = u]
                           \/ c = [[w.conf EXCEPT !.pres = p, !.unsaid = q, !.unsent = u]
                                   EXCEPT !.sent = r, !.unsent = {}]
    BY DEF UpdateRoomPresence
  <1>2. PICK p, q, u, r, c : /\ UpdateRoomPresence(w, s) = [w EXCEPT !.conf = c]
                          /\ \/ c = [w.conf EXCEPT !.pres = p, !.unsaid = q, !.unsent = u]
                             \/ c = [[w.conf EXCEPT !.pres = p, !.unsaid = q, !.unsent = u]
                                     EXCEPT !.sent = r, !.unsent = {}]
    BY <1>1
  <1>3. ConfShape(c) /\ c.tracks = w.conf.tracks /\ c.byFocus = w.conf.byFocus
          /\ c.astray = w.conf.astray
    BY <1>2 DEF Shape, ConfShape
  <1> QED
    BY <1>2, <1>3, ConfSame

LEMMA AstraySame ==
  ASSUME NEW w, Shape(w), NEW T, T \subseteq Track
  PROVE  Same(w, [w EXCEPT !.conf.astray = @ \cup T])
  <1> DEFINE c == [w.conf EXCEPT !.astray = @ \cup T]
  <1>1. ConfShape(c) /\ c.tracks = w.conf.tracks /\ c.byFocus = w.conf.byFocus
          /\ w.conf.astray \subseteq c.astray
    BY DEF Shape, ConfShape
  <1>2. [w EXCEPT !.conf.astray = @ \cup T] = [w EXCEPT !.conf = c]
    OBVIOUS
  <1> HIDE DEF c
  <1> QED
    BY <1>1, <1>2, ConfSame

LEMMA TracksType == ASSUME NEW w, Shape(w) PROVE Tracks(w) \subseteq Track
  BY DEF Shape, ConfShape, Tracks, ToSet

LEMMA ActiveSame ==
  ASSUME NEW w, Shape(w) PROVE Same(w, UpdateActive(w))
  BY UpdateSame, AstraySame, TracksType DEF UpdateActive

(* The mute of the focus ends, unless the track is muted.                  *)
LEMMA FireSame ==
  ASSUME NEW w, Shape(w), NEW t \in Track
  PROVE  /\ Same(w, FireMuteChange(w, t))
         /\ FireMuteChange(w, t).conf.byFocus[KindOf(t)] => Muted(w.trk[t], t)
  <1>1. CASE Muted(w.trk[t], t)
    BY <1>1, SameRefl DEF FireMuteChange
  <1>2. CASE ~Muted(w.trk[t], t)
    <2> DEFINE c == [w.conf EXCEPT !.byFocus[KindOf(t)] = FALSE]
    <2>1. ConfShape(c) /\ c.tracks = w.conf.tracks /\ c.astray = w.conf.astray
            /\ c.byFocus = [w.conf.byFocus EXCEPT ![KindOf(t)] = FALSE]
      BY DEF Shape, ConfShape
    <2>2. FireMuteChange(w, t) = [w EXCEPT !.conf = c]
      BY <1>2 DEF FireMuteChange
    <2>3. \A k \in Kind : c.byFocus[k] => w.conf.byFocus[k]
      BY <2>1 DEF Shape, ConfShape
    <2>4. ~c.byFocus[KindOf(t)]
      BY <2>1, KindType DEF Shape, ConfShape
    <2>5. FireMuteChange(w, t).conf = c
      BY <2>2 DEF Shape
    <2> HIDE DEF c
    <2>6. Same(w, FireMuteChange(w, t))
      BY <2>1, <2>2, <2>3, ConfSame
    <2> QED
      BY <2>4, <2>5, <2>6
  <1> QED
    BY <1>1, <1>2

-----------------------------------------------------------------------------
(***************************************************************************)
(* Mute and unmute.                                                        *)
(***************************************************************************)

LEMMA ButTrack == NoTrack \notin Track
  BY LocalTracksAssumption

SetTrack(w, t, x) == [w EXCEPT !.trk[t] = x]

LEMMA TrackSet ==
  ASSUME NEW w, Shape(w), NEW t \in Track, NEW x \in TrackShape
  PROVE  LET v == SetTrack(w, t, x)
         IN  /\ Shape(v)
             /\ v.conf = w.conf /\ v.calls = w.calls /\ v.ses = w.ses
             /\ v.trk[t] = x
             /\ \A u \in Track \ {t} : v.trk[u] = w.trk[u]
             /\ Tracks(v) = Tracks(w)
  <1> DEFINE v == SetTrack(w, t, x)
  <1>1. v.conf = w.conf /\ v.calls = w.calls /\ v.ses = w.ses /\ v.trk = [w.trk EXCEPT ![t] = x]
    BY DEF Shape, SetTrack
  <1>2. v \in [trk : {v.trk}, conf : {v.conf}, ses : {v.ses}, calls : {v.calls}]
    BY DEF Shape, SetTrack
  <1> HIDE DEF v
  <1>3. v.trk \in [Track -> TrackShape] /\ v.trk[t] = x
          /\ \A u \in Track \ {t} : v.trk[u] = w.trk[u]
    BY <1>1 DEF Shape
  <1>4. Shape(v)
    BY <1>1, <1>2, <1>3 DEF Shape
  <1>5. Tracks(v) = Tracks(w)
    BY <1>1 DEF Tracks
  <1> QED
    BY <1>1, <1>3, <1>4, <1>5 DEF v

(* A track changes, and stays where it is.                                 *)
LEMMA TrackBut ==
  ASSUME NEW w, NEW i, NEW t \in Track, InvBut(w, i, t),
         NEW x \in TrackShape, x.in = w.trk[t].in, ChainOK(x)
  PROVE  InvBut(SetTrack(w, t, x), i, t)
  <1> DEFINE v == SetTrack(w, t, x)
  <1>1. /\ Shape(v)
        /\ v.conf = w.conf /\ v.calls = w.calls /\ v.trk[t] = x
        /\ \A u \in Track \ {t} : v.trk[u] = w.trk[u]
        /\ Tracks(v) = Tracks(w)
    <2>1. Shape(w)
      BY DEF InvBut
    <2> QED
      BY <2>1, TrackSet
  <1> HIDE DEF v
  <1>2. TracksOK(v)
    BY <1>1 DEF InvBut, TracksOK
  <1>3. \A u \in Track : ChainOK(v.trk[u])
    BY <1>1 DEF InvBut
  <1>4. CallsBut(v, i)
    BY <1>1 DEF InvBut, CallsBut
  <1>5. \A u \in Track \ {t} : FocusOK(v, u)
    BY <1>1 DEF InvBut, FocusOK
  <1> QED
    BY <1>1, <1>2, <1>3, <1>4, <1>5 DEF InvBut, v

(* And the mute of the focus holds of it.                                  *)
LEMMA ButAll ==
  ASSUME NEW w, NEW i, NEW t, InvBut(w, i, t), t \in Track => FocusOK(w, t)
  PROVE  InvBut(w, i, NoTrack)
  BY DEF InvBut

LEMMA AllFocus ==
  ASSUME NEW w, NEW i, InvBut(w, i, NoTrack), NEW t \in Track
  PROVE  InvBut(w, i, t) /\ FocusOK(w, t)
  BY ButTrack DEF InvBut

LEMMA NextInv ==
  ASSUME NEW w, NEW i, NEW t \in Track, InvBut(w, i, t), w.trk[t].chain # <<>>,
         NEW ok \in BOOLEAN,
         t \in Tracks(w) \ w.conf.astray /\ w.conf.byFocus[KindOf(t)] => Muted(w.trk[t], t),
         ok /\ Head(w.trk[t].chain).focus => Muted(w.trk[t], t)
  PROVE  InvBut(NextInChain(w, t, ok), i, NoTrack)
  <1> DEFINE C == [mute : BOOLEAN, focus : BOOLEAN]
             x == [w.trk[t] EXCEPT !.chain = Tail(@), !.waits = "no", !.left = {}]
             v == [w EXCEPT !.trk[t].chain = Tail(@), !.trk[t].waits = "no", !.trk[t].left = {}]
             others == {u \in Tracks(w) \ {t} : KindOf(u) = KindOf(t)}
  <1>1. w.trk[t] \in TrackShape /\ w.trk[t].chain \in Seq(C) /\ ChainOK(w.trk[t])
    BY DEF InvBut, Shape, TrackShape
  <1>2. /\ Tail(w.trk[t].chain) \in Seq(C)
        /\ \A j \in DOMAIN Tail(w.trk[t].chain) :
             /\ j + 1 \in DOMAIN w.trk[t].chain
             /\ Tail(w.trk[t].chain)[j] = w.trk[t].chain[j + 1]
    BY <1>1
  <1>3. x \in TrackShape /\ x.in = w.trk[t].in /\ Muted(x, t) = Muted(w.trk[t], t)
          /\ x.chain = Tail(w.trk[t].chain) /\ x.waits = "no"
    BY <1>1, <1>2 DEF TrackShape, Muted
  <1>4. ChainOK(x)
    BY <1>1, <1>2, <1>3 DEF ChainOK
  <1>5. v = SetTrack(w, t, x)
    BY DEF InvBut, Shape, SetTrack
  <1> HIDE DEF x, v
  <1>a. InvBut(v, i, t)
    BY <1>3, <1>4, <1>5, TrackBut
  <1>b. v.conf = w.conf /\ v.trk[t] = x /\ Tracks(v) = Tracks(w)
    BY <1>3, <1>5, TrackSet DEF InvBut
  <1>6. /\ InvBut(v, i, t) /\ v.conf = w.conf /\ v.trk[t] = x /\ Tracks(v) = Tracks(w)
    BY <1>a, <1>b
  <1>7. CASE ~(ok /\ Head(w.trk[t].chain).focus)
    <2>1. FocusOK(v, t)
      BY <1>3, <1>6 DEF FocusOK
    <2>2. NextInChain(w, t, ok) = v
      BY <1>7 DEF NextInChain, v
    <2> QED
      BY <1>6, <2>1, <2>2, ButAll
  <1>8. CASE ok /\ Head(w.trk[t].chain).focus
    <2> DEFINE c == [v.conf EXCEPT !.byFocus[KindOf(t)] = TRUE, !.astray = @ \cup others]
               r == [v EXCEPT !.conf.byFocus[KindOf(t)] = TRUE, !.conf.astray = @ \cup others]
    <2>1. NextInChain(w, t, ok) = r
      BY <1>8 DEF NextInChain, v
    <2>2. r = [v EXCEPT !.conf = c]
      BY <1>6 DEF InvBut, Shape
    <2>3. others \subseteq Track
      BY <1>6, TracksType DEF InvBut
    <2>4. ConfShape(c) /\ c.tracks = v.conf.tracks /\ c.astray = v.conf.astray \cup others
            /\ c.byFocus = [v.conf.byFocus EXCEPT ![KindOf(t)] = TRUE]
      BY <1>6, <2>3, KindType DEF InvBut, Shape, ConfShape
    <2> HIDE DEF c, r
    <2>5. r.trk = v.trk /\ r.calls = v.calls /\ r.ses = v.ses /\ r.conf = c
      BY <1>6, <2>2 DEF InvBut, Shape
    <2>6. r \in [trk : [Track -> TrackShape], conf : {r.conf}, ses : {r.ses},
                 calls : [DOMAIN r.calls -> Call]]
      BY <1>6, <2>2, <2>5 DEF InvBut, Shape
    <2>7. Shape(r)
      BY <1>6, <2>4, <2>5, <2>6 DEF InvBut, Shape
    <2>8. Tracks(r) = Tracks(v)
      BY <2>4, <2>5 DEF Tracks
    <2>9. TracksOK(r)
      BY <1>6, <2>4, <2>5, <2>8 DEF InvBut, TracksOK
    <2>10. (\A u \in Track : ChainOK(r.trk[u])) /\ CallsBut(r, i)
      BY <1>6, <2>5, <2>8 DEF InvBut, CallsBut
    <2>11. FocusOK(r, t)
      BY <1>3, <1>6, <1>8, <2>5 DEF FocusOK
    <2>12. ASSUME NEW u \in Track, u # t PROVE FocusOK(r, u)
      <3>1. FocusOK(v, u)
        BY <1>6, <2>12 DEF InvBut
      <3>2. KindOf(u) = KindOf(t) => u \notin Tracks(r) \/ u \in r.conf.astray
        BY <1>6, <2>4, <2>5, <2>8, <2>12
      <3>3. KindOf(u) # KindOf(t) => r.conf.byFocus[KindOf(u)] = v.conf.byFocus[KindOf(u)]
        BY <1>6, <2>4, <2>5, KindType DEF InvBut, Shape, ConfShape
      <3> QED
        BY <2>4, <2>5, <2>8, <3>1, <3>2, <3>3 DEF FocusOK
    <2> QED
      BY <2>1, <2>7, <2>9, <2>10, <2>11, <2>12 DEF InvBut
  <1> QED
    BY <1>7, <1>8

LEMMA SendInv ==
  ASSUME NEW w, NEW i, NEW t \in Track, InvBut(w, i, t), w.trk[t].chain # <<>>,
         Head(w.trk[t].chain).focus => Muted(w.trk[t], t)
  PROVE  InvBut(SendMuteStatus(w, t), i, NoTrack)
  <1> DEFINE p == SetTrackMuteStatus(w.conf.pres, KindOf(t), Head(w.trk[t].chain).mute)
             told == IF p = w.conf.pres THEN w.conf
                     ELSE [w.conf EXCEPT !.pres = p, !.sent = p, !.unsent = {}]
             coming == {t} \cap {w.calls[j].new : j \in DOMAIN w.calls}
             c == [told EXCEPT !.unsaid = @ \ ({t} \cap Audio)]
             out == [w EXCEPT !.conf.unsaid = @ \cup {t}, !.conf.astray = @ \cup coming]
  <1>1. CASE w.trk[t].in
    <2> DEFINE a == [w EXCEPT !.conf = c]
               v == FireMuteChange(a, t)
    <2>1. SendMuteStatus(w, t) = NextInChain(v, t, TRUE)
      BY <1>1 DEF SendMuteStatus
    <2>2. ConfShape(c) /\ c.tracks = w.conf.tracks /\ c.astray = w.conf.astray
            /\ c.byFocus = w.conf.byFocus
      BY DEF InvBut, Shape, ConfShape
    <2> HIDE DEF c
    <2>3. Same(w, a)
      BY <2>2, ConfSame DEF InvBut
    <2> HIDE DEF a
    <2>4. Shape(a) /\ a.trk = w.trk
      BY <2>3 DEF Same
    <2>5. Same(a, v) /\ (v.conf.byFocus[KindOf(t)] => Muted(a.trk[t], t))
      BY <2>4, FireSame
    <2> HIDE DEF v
    <2>6. v.trk = w.trk /\ Same(w, v)
      BY <2>3, <2>4, <2>5, SameTrans DEF Same
    <2>7. InvBut(v, i, t)
      BY <2>6, SameBut
    <2> QED
      BY <2>1, <2>4, <2>5, <2>6, <2>7, NextInv
  <1>2. CASE ~w.trk[t].in
    <2> DEFINE d == [w.conf EXCEPT !.unsaid = @ \cup {t}, !.astray = @ \cup coming]
    <2>1. SendMuteStatus(w, t) = NextInChain(out, t, TRUE)
      BY <1>2 DEF SendMuteStatus
    <2>2. ConfShape(d) /\ d.tracks = w.conf.tracks /\ w.conf.astray \subseteq d.astray
            /\ d.byFocus = w.conf.byFocus
      BY DEF InvBut, Shape, ConfShape
    <2>3. out = [w EXCEPT !.conf = d]
      BY DEF InvBut, Shape
    <2> HIDE DEF d, out
    <2>4. Same(w, out)
      BY <2>2, <2>3, ConfSame DEF InvBut
    <2>5. InvBut(out, i, t) /\ out.trk = w.trk
      BY <2>4, SameBut DEF Same
    <2>6. t \notin Tracks(out)
      BY <1>2, <2>5 DEF InvBut, TracksOK
    <2> QED
      BY <2>1, <2>5, <2>6, NextInv
  <1> QED
    BY <1>1, <1>2

LEMMA RunningType == ASSUME NEW w PROVE Running(w) \subseteq Session
  BY DEF Running

LEMMA WaitInv ==
  ASSUME NEW w, NEW i, NEW t \in Track, InvBut(w, i, t), w.trk[t].chain # <<>>,
         NEW what \in {"device", "sessions"}, NEW S, S \subseteq Session,
         what = "device" => ~Head(w.trk[t].chain).mute,
         t \in Tracks(w) \ w.conf.astray /\ w.conf.byFocus[KindOf(t)]
           => Muted(w.trk[t], t) \/ (what = "sessions" /\ ~Head(w.trk[t].chain).mute)
  PROVE  InvBut(Wait(w, t, what, S), i, NoTrack)
  <1> DEFINE x == [w.trk[t] EXCEPT !.waits = what, !.left = S]
             v == Wait(w, t, what, S)
  <1>1. w.trk[t] \in TrackShape /\ ChainOK(w.trk[t])
    BY DEF InvBut, Shape
  <1>2. x \in TrackShape /\ x.in = w.trk[t].in /\ Muted(x, t) = Muted(w.trk[t], t)
          /\ x.chain = w.trk[t].chain /\ x.waits = what
    BY <1>1 DEF TrackShape, Muted
  <1>3. ChainOK(x)
    BY <1>1, <1>2 DEF ChainOK
  <1>4. v = SetTrack(w, t, x)
    BY DEF Wait, InvBut, Shape, SetTrack
  <1> HIDE DEF x, v
  <1>a. InvBut(v, i, t)
    BY <1>2, <1>3, <1>4, TrackBut
  <1>5. v.conf = w.conf /\ v.trk[t] = x /\ Tracks(v) = Tracks(w)
    BY <1>2, <1>4, TrackSet DEF InvBut
  <1>6. FocusOK(v, t)
    BY <1>2, <1>5 DEF FocusOK, Unmuting
  <1> QED
    BY <1>a, <1>6, ButAll DEF v

LEMMA HeadType ==
  ASSUME NEW S, NEW s \in Seq(S), s # <<>>
  PROVE  Head(s) \in S
  <1>1. 1 \in 1..Len(s) /\ Head(s) = s[1]
    OBVIOUS
  <1> QED
    BY <1>1, ElementOfSeq

LEMMA OpType ==
  ASSUME NEW type \in {"initial", "replace", "mute", "unmute"}, NEW o \in MaybeTrack,
         NEW n \in MaybeTrack, NEW i \in Nat, type \in {"mute", "unmute"} => o \in Track
  PROVE  Operation(type, o, n, i) \in OpShape
  BY DEF Operation, OpShape

LEMMA AskInv ==
  ASSUME NEW w, NEW i, NEW t \in Track, InvBut(w, i, t), w.trk[t].chain # <<>>,
         NEW type \in {"mute", "unmute"},
         t \in Tracks(w) \ w.conf.astray /\ w.conf.byFocus[KindOf(t)]
           => Muted(w.trk[t], t) \/ ~Head(w.trk[t].chain).mute
  PROVE  InvBut(AskSessions(w, t, type), i, NoTrack)
  <1> DEFINE op == Operation(type, t, NoTrack, 0)
             v == Push(w, op)
  <1>1. op \in OpShape
    BY OpType DEF MaybeTrack
  <1> HIDE DEF op
  <1>2. Same(w, v)
    BY <1>1, PushSame DEF InvBut
  <1>3. InvBut(v, i, t)
    BY <1>2, SameBut
  <1>4. v.trk = w.trk /\ v.conf.tracks = w.conf.tracks /\ w.conf.astray \subseteq v.conf.astray
          /\ (v.conf.byFocus[KindOf(t)] => w.conf.byFocus[KindOf(t)])
    BY <1>2, KindType DEF Same
  <1>5. Tracks(v) = Tracks(w)
    BY <1>4 DEF Tracks
  <1>6. AskSessions(w, t, type) = Wait(v, t, "sessions", Running(w))
    BY DEF AskSessions, op
  <1> HIDE DEF v
  <1>7. InvBut(Wait(v, t, "sessions", Running(w)), i, NoTrack)
    BY <1>3, <1>4, <1>5, RunningType, WaitInv
  <1> QED
    BY <1>6, <1>7

(* What mutes a track, once the sessions have let go of it.                *)
LEMMA StopShape ==
  ASSUME NEW x \in TrackShape, NEW t
  PROVE  /\ StoppedAsMute(x) \in TrackShape /\ StoppedAsMute(x).in = x.in
         /\ StoppedAsMute(x).chain = x.chain /\ StoppedAsMute(x).waits = x.waits
         /\ Muted(StoppedAsMute(x), t)
  BY DEF StoppedAsMute, StopEffect, TrackShape, Muted

LEMMA SameChain ==
  ASSUME NEW x, NEW y, ChainOK(x), y.chain = x.chain, y.waits = x.waits
  PROVE  ChainOK(y)
  BY DEF ChainOK

(* A mute that is over.                                                    *)
LEMMA StopInv ==
  ASSUME NEW w, NEW i, NEW t \in Track, InvBut(w, i, t), w.trk[t].chain # <<>>
  PROVE  InvBut(SendMuteStatus([w EXCEPT !.trk[t] = StoppedAsMute(@)], t), i, NoTrack)
  <1> DEFINE x == StoppedAsMute(w.trk[t])
             v == [w EXCEPT !.trk[t] = StoppedAsMute(@)]
  <1>1. w.trk[t] \in TrackShape /\ ChainOK(w.trk[t])
    BY DEF InvBut, Shape
  <1>2. x \in TrackShape /\ x.in = w.trk[t].in /\ x.chain = w.trk[t].chain
          /\ x.waits = w.trk[t].waits /\ Muted(x, t)
    BY <1>1, StopShape
  <1>3. v = SetTrack(w, t, x)
    BY DEF SetTrack
  <1> HIDE DEF x, v
  <1>4. InvBut(v, i, t)
    BY <1>1, <1>2, <1>3, SameChain, TrackBut
  <1>5. v.trk[t] = x
    BY <1>2, <1>3, TrackSet DEF InvBut
  <1>6. InvBut(SendMuteStatus(v, t), i, NoTrack)
    BY <1>2, <1>4, <1>5, SendInv
  <1> QED
    BY <1>6 DEF v

LEMMA StartInv ==
  ASSUME NEW w, NEW i, NEW t \in Track, InvBut(w, i, NoTrack), w.trk[t].chain # <<>>,
         w.trk[t].waits = "no"
  PROVE  InvBut(StartSetMuted(w, t), i, NoTrack)
  <1> DEFINE x == w.trk[t]
             m == Head(x.chain).mute
  <1>1. InvBut(w, i, t) /\ FocusOK(w, t)
    BY AllFocus
  <1>2. x \in TrackShape /\ ChainOK(x) /\ x.chain \in Seq([mute : BOOLEAN, focus : BOOLEAN])
    BY <1>1 DEF InvBut, Shape, TrackShape
  <1>3. Head(x.chain) = x.chain[1] /\ 1 \in DOMAIN x.chain
    BY <1>2
  <1>12. Head(x.chain) \in [mute : BOOLEAN, focus : BOOLEAN]
    BY <1>2, HeadType
  <1>4. m \in BOOLEAN /\ (Head(x.chain).focus => m)
    BY <1>2, <1>3, <1>12 DEF ChainOK
  <1>5. t \in Tracks(w) \ w.conf.astray /\ w.conf.byFocus[KindOf(t)] => Muted(x, t)
    BY <1>1 DEF FocusOK, Unmuting
  <1>6. Muted(x, t) \in BOOLEAN
    BY <1>2 DEF Muted, TrackShape
  <1>7. CASE Muted(x, t) = m
    <2>1. StartSetMuted(w, t) = NextInChain(w, t, TRUE)
      BY <1>7 DEF StartSetMuted
    <2> QED
      BY <1>1, <1>4, <1>5, <1>7, <2>1, NextInv
  <1>8. CASE Muted(x, t) # m /\ x.disposed
    <2>1. StartSetMuted(w, t) = NextInChain(w, t, FALSE)
      BY <1>8 DEF StartSetMuted
    <2> QED
      BY <1>1, <1>5, <2>1, NextInv
  <1>9. CASE Muted(x, t) # m /\ ~x.disposed /\ ~Camera(t)
    <2> DEFINE y == [x EXCEPT !.enabled = ~m]
               v == [w EXCEPT !.trk[t].enabled = ~m]
    <2>1. y \in TrackShape /\ y.in = x.in /\ y.chain = x.chain /\ y.waits = x.waits
            /\ (m => Muted(y, t))
      BY <1>2, <1>4 DEF TrackShape, Muted
    <2>2. v = SetTrack(w, t, y)
      BY DEF SetTrack
    <2>3. StartSetMuted(w, t) = SendMuteStatus(v, t)
      BY <1>9 DEF StartSetMuted
    <2> HIDE DEF y, v
    <2>4. InvBut(v, i, t)
      BY <1>1, <1>2, <2>1, <2>2, SameChain, TrackBut
    <2>5. v.trk[t] = y
      BY <1>1, <2>1, <2>2, TrackSet DEF InvBut
    <2>6. InvBut(SendMuteStatus(v, t), i, NoTrack)
      BY <1>4, <2>1, <2>4, <2>5, SendInv
    <2> QED
      BY <2>3, <2>6
  <1>10. CASE Muted(x, t) # m /\ ~x.disposed /\ Camera(t) /\ ~m
    <2>1. StartSetMuted(w, t) = Wait(w, t, "device", {})
      BY <1>10 DEF StartSetMuted
    <2> QED
      BY <1>1, <1>5, <1>10, <2>1, WaitInv
  <1>11. CASE Muted(x, t) # m /\ ~x.disposed /\ Camera(t) /\ m
    <2>1. CASE x.in
      <3>1. StartSetMuted(w, t) = AskSessions(w, t, "mute")
        BY <1>11, <2>1 DEF StartSetMuted
      <3> QED
        BY <1>1, <1>5, <3>1, AskInv
    <2>2. CASE ~x.in
      <3>1. StartSetMuted(w, t) = SendMuteStatus([w EXCEPT !.trk[t] = StoppedAsMute(@)], t)
        BY <1>11, <2>2 DEF StartSetMuted
      <3> QED
        BY <1>1, <3>1, StopInv
    <2> QED
      BY <2>1, <2>2
  <1> QED
    BY <1>7, <1>8, <1>9, <1>10, <1>11

LEMMA DoneInv ==
  ASSUME NEW w, NEW i, NEW t \in Track, InvBut(w, i, NoTrack), w.trk[t].chain # <<>>
  PROVE  InvBut(SessionsDone(w, t), i, NoTrack)
  <1>1. InvBut(w, i, t)
    BY AllFocus
  <1>2. w.trk[t] \in TrackShape /\ ChainOK(w.trk[t])
          /\ w.trk[t].chain \in Seq([mute : BOOLEAN, focus : BOOLEAN])
    BY <1>1 DEF InvBut, Shape, TrackShape
  <1>3. Head(w.trk[t].chain) = w.trk[t].chain[1] /\ 1 \in DOMAIN w.trk[t].chain
    BY <1>2
  <1>4. Head(w.trk[t].chain).focus => Head(w.trk[t].chain).mute
    BY <1>2, <1>3 DEF ChainOK
  <1>5. CASE Head(w.trk[t].chain).mute
    BY <1>1, <1>5, StopInv DEF SessionsDone
  <1>6. CASE ~Head(w.trk[t].chain).mute
    BY <1>1, <1>4, <1>6, SendInv DEF SessionsDone
  <1> QED
    BY <1>5, <1>6

-----------------------------------------------------------------------------
(***************************************************************************)
(* What replaceTrack does, and what is built on it.                        *)
(***************************************************************************)

LEMMA SplicedSeq ==
  ASSUME NEW s \in Seq(Track), IsInjective(s), NEW o
  PROVE  /\ Spliced(s, o) \in Seq(Track) /\ IsInjective(Spliced(s, o))
         /\ ToSet(Spliced(s, o)) = ToSet(s) \ {o}
  <1>1. CASE ~Contains(s, o)
    <2>1. Spliced(s, o) = s
      BY <1>1 DEF Spliced
    <2>2. o \notin ToSet(s)
      BY <1>1 DEF Contains, ToSet
    <2> QED
      BY <2>1, <2>2
  <1>2. CASE Contains(s, o)
    <2> DEFINE k == CHOOSE i \in DOMAIN s : s[i] = o
               r == Spliced(s, o)
               a == SubSeq(s, 1, k - 1)
               b == SubSeq(s, k + 1, Len(s))
    <2>1. k \in DOMAIN s /\ s[k] = o
      BY <1>2 DEF Contains
    <2>2. r = a \o b
      BY <1>2 DEF Spliced, RemoveAt
    <2> HIDE DEF k, r
    <2>3. k \in 1..Len(s)
      BY <2>1
    <2>4. a \in Seq(Track) /\ Len(a) = k - 1 /\ \A j \in 1..k - 1 : a[j] = s[j]
      BY <2>3, SubSeqProperties
    <2>5. b \in Seq(Track) /\ Len(b) = Len(s) - k /\ \A j \in 1..Len(s) - k : b[j] = s[j + k]
      BY <2>3, SubSeqProperties
    <2> HIDE DEF a, b
    <2>6. /\ r \in Seq(Track) /\ Len(r) = Len(a) + Len(b)
          /\ \A j \in 1..Len(a) + Len(b) : r[j] = IF j <= Len(a) THEN a[j] ELSE b[j - Len(a)]
      BY <2>2, <2>4, <2>5, ConcatProperties
    <2>12. Len(r) = Len(s) - 1
      BY <2>3, <2>4, <2>5, <2>6
    <2>7. ASSUME NEW j \in 1..Len(s) - 1
          PROVE  r[j] = IF j < k THEN s[j] ELSE s[j + 1]
      <3>3. j \in 1..Len(a) + Len(b) /\ Len(a) = k - 1
        BY <2>3, <2>4, <2>5, <2>7
      <3>4. r[j] = IF j <= Len(a) THEN a[j] ELSE b[j - Len(a)]
        BY <2>6, <3>3
      <3>1. CASE j < k
        <4>1. j <= Len(a) /\ j \in 1..k - 1
          BY <2>3, <2>7, <3>1, <3>3
        <4> QED
          BY <2>4, <3>1, <3>4, <4>1
      <3>2. CASE j >= k
        <4>1. j - (k - 1) \in 1..Len(s) - k /\ (j - (k - 1)) + k = j + 1
          BY <2>3, <2>7, <3>2
        <4>2. r[j] = b[j - (k - 1)]
          <5>1. ~(j <= Len(a))
            BY <2>3, <2>7, <3>2, <3>3
          <5> QED
            BY <3>3, <3>4, <5>1
        <4> QED
          BY <2>3, <2>5, <2>7, <3>2, <4>1, <4>2
      <3> QED
        BY <2>3, <2>7, <3>1, <3>2
    <2>8. DOMAIN r = 1..Len(s) - 1 /\ DOMAIN s = 1..Len(s)
      BY <2>6, <2>12
    <2>9. IsInjective(r)
      BY <2>3, <2>7, <2>8 DEF IsInjective
    <2>10. ASSUME NEW x \in ToSet(r) PROVE x \in ToSet(s) /\ x # o
      BY <2>1, <2>3, <2>7, <2>8, <2>10 DEF ToSet, IsInjective
    <2>11. ASSUME NEW x \in ToSet(s), x # o PROVE x \in ToSet(r)
      <3>1. PICK j \in 1..Len(s) : x = s[j]
        BY <2>8 DEF ToSet
      <3>2. CASE j < k
        BY <2>3, <2>7, <2>8, <3>1, <3>2 DEF ToSet
      <3>3. CASE j > k
        <4>1. j - 1 \in 1..Len(s) - 1 /\ ~(j - 1 < k) /\ (j - 1) + 1 = j
          BY <2>3, <3>3
        <4>2. r[j - 1] = x
          BY <2>7, <3>1, <4>1
        <4> QED
          BY <2>8, <4>1, <4>2 DEF ToSet
      <3>4. j # k
        BY <2>1, <2>11, <3>1
      <3> QED
        BY <2>3, <3>2, <3>3, <3>4
    <2> QED
      BY <2>6, <2>9, <2>10, <2>11 DEF r
  <1> QED
    BY <1>1, <1>2

LEMMA AppendSet ==
  ASSUME NEW s \in Seq(Track), IsInjective(s), NEW n \in Track, n \notin ToSet(s)
  PROVE  /\ Append(s, n) \in Seq(Track) /\ IsInjective(Append(s, n))
         /\ ToSet(Append(s, n)) = ToSet(s) \cup {n}
  <1>1. /\ Append(s, n) \in Seq(Track) /\ DOMAIN Append(s, n) = 1..Len(s) + 1
        /\ DOMAIN s = 1..Len(s) /\ Append(s, n)[Len(s) + 1] = n
        /\ \A j \in 1..Len(s) : Append(s, n)[j] = s[j]
    OBVIOUS
  <1>2. Len(s) \in Nat
    OBVIOUS
  <1>3. IsInjective(Append(s, n))
    BY <1>1, <1>2 DEF IsInjective, ToSet
  <1>4. ASSUME NEW x PROVE x \in ToSet(Append(s, n)) <=> x \in ToSet(s) \cup {n}
    BY <1>1, <1>2 DEF ToSet
  <1> QED
    BY <1>1, <1>3, <1>4

(* A track changes but for what the invariant looks at.                    *)
LEMMA TrackInv ==
  ASSUME NEW w, NEW i, NEW t \in Track, InvBut(w, i, NoTrack),
         NEW x \in TrackShape, x.in = w.trk[t].in, x.chain = w.trk[t].chain,
         x.waits = w.trk[t].waits,
         (Muted(w.trk[t], t) => Muted(x, t)) \/ t \notin Tracks(w) \/ t \in w.conf.astray
  PROVE  InvBut(SetTrack(w, t, x), i, NoTrack)
  <1>1. InvBut(w, i, t) /\ FocusOK(w, t) /\ ChainOK(w.trk[t])
    BY AllFocus DEF InvBut
  <1>2. ChainOK(x)
    BY <1>1, SameChain
  <1>3. InvBut(SetTrack(w, t, x), i, t)
    BY <1>1, <1>2, TrackBut
  <1>4. /\ SetTrack(w, t, x).trk[t] = x /\ SetTrack(w, t, x).conf = w.conf
        /\ Tracks(SetTrack(w, t, x)) = Tracks(w)
    BY TrackSet DEF InvBut
  <1>5. FocusOK(SetTrack(w, t, x), t)
    BY <1>1, <1>4 DEF FocusOK, Unmuting
  <1> QED
    BY <1>3, <1>5, ButAll

SetCalls(w, f) == [w EXCEPT !.calls = f]

LEMMA CallsSet ==
  ASSUME NEW w, Shape(w), NEW f, f \in [DOMAIN f -> Call], DOMAIN f \subseteq Nat
  PROVE  LET v == SetCalls(w, f)
         IN  /\ Shape(v) /\ v.trk = w.trk /\ v.conf = w.conf /\ v.calls = f
             /\ Tracks(v) = Tracks(w)
  <1> DEFINE v == SetCalls(w, f)
  <1>1. v.trk = w.trk /\ v.conf = w.conf /\ v.ses = w.ses /\ v.calls = f
    BY DEF Shape, SetCalls
  <1>2. v \in [trk : {v.trk}, conf : {v.conf}, ses : {v.ses}, calls : {v.calls}]
    BY DEF Shape, SetCalls
  <1> HIDE DEF v
  <1>3. Shape(v)
    BY <1>1, <1>2 DEF Shape
  <1>4. Tracks(v) = Tracks(w)
    BY <1>1 DEF Tracks
  <1> QED
    BY <1>1, <1>3, <1>4 DEF v

(* The calls change, and are in order.                                     *)
LEMMA CallsInv ==
  ASSUME NEW w, NEW i, InvBut(w, i, NoTrack), NEW f, DOMAIN f \subseteq Nat,
         f \in [DOMAIN f -> Call],
         \A j \in DOMAIN f :
           /\ CallShape(f[j]) /\ f[j].new \notin Tracks(w)
           /\ \A k \in DOMAIN f \ {j} : CallKind(f[k]) # CallKind(f[j])
  PROVE  WInv(SetCalls(w, f))
  <1> DEFINE v == SetCalls(w, f)
  <1>1. Shape(v) /\ v.trk = w.trk /\ v.conf = w.conf /\ v.calls = f /\ Tracks(v) = Tracks(w)
    BY CallsSet DEF InvBut
  <1> HIDE DEF v
  <1>2. TracksOK(v) /\ \A u \in Track : ChainOK(v.trk[u])
    BY <1>1 DEF InvBut, TracksOK
  <1>3. CallsOK(v)
    BY <1>1 DEF CallsOK
  <1>4. \A u \in Track : FocusOK(v, u)
    BY <1>1, ButTrack DEF InvBut, FocusOK
  <1> QED
    BY <1>1, <1>2, <1>3, <1>4 DEF WInv, v

LEMMA EndInv ==
  ASSUME NEW w, NEW i, InvBut(w, i, NoTrack)
  PROVE  WInv(Ended(w, i))
  <1> DEFINE f == [j \in DOMAIN w.calls \ {i} |-> w.calls[j]]
  <1>1. Ended(w, i) = SetCalls(w, f)
    BY DEF Ended, SetCalls
  <1>2. DOMAIN f = DOMAIN w.calls \ {i} /\ \A j \in DOMAIN f : f[j] = w.calls[j]
    OBVIOUS
  <1>3. f \in [DOMAIN f -> Call] /\ DOMAIN f \subseteq Nat
    BY DEF InvBut, Shape
  <1> HIDE DEF f
  <1>4. \A j \in DOMAIN f :
           /\ CallShape(f[j]) /\ f[j].new \notin Tracks(w)
           /\ \A k \in DOMAIN f \ {j} : CallKind(f[k]) # CallKind(f[j])
    BY <1>2 DEF InvBut, CallsBut
  <1> QED
    BY <1>1, <1>3, <1>4, CallsInv

LEMMA DoReplaceInv ==
  ASSUME NEW w, NEW i \in Nat, InvBut(w, i, NoTrack), NEW c, CallShape(c),
         c.new \notin Tracks(w),
         \A j \in DOMAIN w.calls \ {i} : CallKind(w.calls[j]) # CallKind(c)
  PROVE  WInv(DoReplace(w, i, c))
  <1> DEFINE f == [j \in DOMAIN w.calls \cup {i} |-> IF j = i THEN c ELSE w.calls[j]]
             v == SetCalls(w, f)
             op == Operation("replace", c.old, c.new, i)
  <1>1. DoReplace(w, i, c) = Push(v, op)
    BY DEF DoReplace, SetCalls
  <1>2. DOMAIN f = DOMAIN w.calls \cup {i} /\ f[i] = c
          /\ \A j \in DOMAIN f \ {i} : f[j] = w.calls[j]
    OBVIOUS
  <1>3. c \in Call
    BY DEF CallShape
  <1>4. f \in [DOMAIN f -> Call] /\ DOMAIN f \subseteq Nat
    BY <1>3 DEF InvBut, Shape
  <1> HIDE DEF f
  <1>5. \A j \in DOMAIN f :
           /\ CallShape(f[j]) /\ f[j].new \notin Tracks(w)
           /\ \A k \in DOMAIN f \ {j} : CallKind(f[k]) # CallKind(f[j])
    BY <1>2 DEF InvBut, CallsBut
  <1>6. WInv(v)
    BY <1>4, <1>5, CallsInv
  <1>7. op \in OpShape
    BY <1>3, OpType DEF Call
  <1> HIDE DEF v, op
  <1> QED
    BY <1>1, <1>6, <1>7, PushSame, SameInv DEF WInv

SetPlace(w, t, in, s) == [w EXCEPT !.trk[t].in = in, !.conf.tracks = s]

Placed(w, v, t, in, s) ==
  /\ Shape(v) /\ v.calls = w.calls
  /\ v.conf.tracks = s /\ v.conf.byFocus = w.conf.byFocus
  /\ v.conf.astray = w.conf.astray
  /\ v.trk[t].in = in /\ v.trk[t].chain = w.trk[t].chain
  /\ v.trk[t].waits = w.trk[t].waits
  /\ \A u \in Track \ {t} : v.trk[u] = w.trk[u]

LEMMA PlaceSet ==
  ASSUME NEW w, Shape(w), NEW t \in Track, NEW in \in BOOLEAN, NEW s \in Seq(Track)
  PROVE  Placed(w, SetPlace(w, t, in, s), t, in, s)
  <1> DEFINE v == SetPlace(w, t, in, s)
             x == [w.trk[t] EXCEPT !.in = in]
             c == [w.conf EXCEPT !.tracks = s]
  <1>1. v.trk = [w.trk EXCEPT ![t] = x] /\ v.conf = c /\ v.ses = w.ses /\ v.calls = w.calls
    BY DEF Shape, SetPlace
  <1>2. v \in [trk : {v.trk}, conf : {v.conf}, ses : {v.ses}, calls : {v.calls}]
    BY DEF Shape, SetPlace
  <1> HIDE DEF v
  <1>3. x \in TrackShape /\ x.in = in /\ x.chain = w.trk[t].chain /\ x.waits = w.trk[t].waits
    <2>1. w.trk[t] \in TrackShape
      BY DEF Shape
    <2> QED
      BY <2>1 DEF TrackShape
  <1>4. ConfShape(c) /\ c.tracks = s /\ c.byFocus = w.conf.byFocus /\ c.astray = w.conf.astray
    BY DEF Shape, ConfShape
  <1> HIDE DEF x, c
  <1>5. v.trk \in [Track -> TrackShape] /\ v.trk[t] = x
          /\ \A u \in Track \ {t} : v.trk[u] = w.trk[u]
    BY <1>1, <1>3 DEF Shape
  <1>6. Shape(v)
    BY <1>1, <1>2, <1>4, <1>5 DEF Shape
  <1> QED
    BY <1>1, <1>3, <1>4, <1>5, <1>6 DEF v, Placed

LEMMA OutInv ==
  ASSUME NEW w, NEW i, InvBut(w, i, NoTrack), NEW o \in Track
  PROVE  LET v == SetPlace(w, o, FALSE, Spliced(w.conf.tracks, o))
         IN  /\ InvBut(v, i, NoTrack) /\ v.calls = w.calls
             /\ Tracks(v) = Tracks(w) \ {o}
  <1> DEFINE s == Spliced(w.conf.tracks, o)
             v == SetPlace(w, o, FALSE, s)
  <1>1. w.conf.tracks \in Seq(Track) /\ IsInjective(w.conf.tracks)
    BY DEF InvBut, Shape, ConfShape, TracksOK
  <1>2. s \in Seq(Track) /\ IsInjective(s) /\ ToSet(s) = Tracks(w) \ {o}
    BY <1>1, SplicedSeq DEF Tracks
  <1> HIDE DEF s
  <1>p. Placed(w, v, o, FALSE, s)
    BY <1>2, PlaceSet DEF InvBut
  <1>3. /\ Shape(v) /\ v.calls = w.calls
        /\ v.conf.tracks = s /\ v.conf.byFocus = w.conf.byFocus
        /\ v.conf.astray = w.conf.astray
        /\ v.trk[o].in = FALSE /\ v.trk[o].chain = w.trk[o].chain
        /\ v.trk[o].waits = w.trk[o].waits
        /\ \A u \in Track \ {o} : v.trk[u] = w.trk[u]
    BY <1>p DEF Placed
  <1> HIDE DEF v
  <1>4. Tracks(v) = Tracks(w) \ {o}
    BY <1>2, <1>3 DEF Tracks
  <1>5. TracksOK(v)
    BY <1>2, <1>3, <1>4 DEF InvBut, TracksOK
  <1>6. \A u \in Track : ChainOK(v.trk[u])
    BY <1>3, SameChain DEF InvBut
  <1>7. CallsBut(v, i)
    BY <1>3, <1>4 DEF InvBut, CallsBut
  <1>8. \A u \in Track : FocusOK(v, u)
    BY <1>3, <1>4, ButTrack DEF InvBut, FocusOK
  <1> QED
    BY <1>3, <1>4, <1>5, <1>6, <1>7, <1>8 DEF InvBut, v, s

Entered(w, v, i, n) ==
  InvBut(v, i, n) /\ v.calls = w.calls /\ Tracks(v) = Tracks(w) \cup {n}

LEMMA InInv ==
  ASSUME NEW w, NEW i, InvBut(w, i, NoTrack), NEW n \in Track, n \notin Tracks(w),
         \A j \in DOMAIN w.calls \ {i} : w.calls[j].new # n
  PROVE  Entered(w, SetPlace(w, n, TRUE, Append(w.conf.tracks, n)), i, n)
  <1> DEFINE s == Append(w.conf.tracks, n)
             v == SetPlace(w, n, TRUE, s)
  <1>1. w.conf.tracks \in Seq(Track) /\ IsInjective(w.conf.tracks)
    BY DEF InvBut, Shape, ConfShape, TracksOK
  <1>2. s \in Seq(Track) /\ IsInjective(s) /\ ToSet(s) = Tracks(w) \cup {n}
    BY <1>1, AppendSet DEF Tracks
  <1> HIDE DEF s
  <1>p. Placed(w, v, n, TRUE, s)
    BY <1>2, PlaceSet DEF InvBut
  <1>3. /\ Shape(v) /\ v.calls = w.calls
        /\ v.conf.tracks = s /\ v.conf.byFocus = w.conf.byFocus
        /\ v.conf.astray = w.conf.astray
        /\ v.trk[n].in = TRUE /\ v.trk[n].chain = w.trk[n].chain
        /\ v.trk[n].waits = w.trk[n].waits
        /\ \A u \in Track \ {n} : v.trk[u] = w.trk[u]
    BY <1>p DEF Placed
  <1> HIDE DEF v
  <1>4. Tracks(v) = Tracks(w) \cup {n}
    BY <1>2, <1>3 DEF Tracks
  <1>5. TracksOK(v)
    BY <1>2, <1>3, <1>4 DEF InvBut, TracksOK
  <1>6. \A u \in Track : ChainOK(v.trk[u])
    BY <1>3, SameChain DEF InvBut
  <1>7. CallsBut(v, i)
    BY <1>3, <1>4 DEF InvBut, CallsBut
  <1>8. \A u \in Track \ {n} : FocusOK(v, u)
    BY <1>3, <1>4, ButTrack DEF InvBut, FocusOK
  <1> QED
    BY <1>3, <1>4, <1>5, <1>6, <1>7, <1>8 DEF InvBut, Entered, v, s

(* What a call may do to the tracks when it is the only one of its kind.   *)
MayDo(w, i, c) ==
  /\ CallShape(c) /\ c.new \notin Tracks(w)
  /\ \A j \in DOMAIN w.calls \ {i} : CallKind(w.calls[j]) # CallKind(c)

LEMMA ReplacedInv ==
  ASSUME NEW w, NEW i, InvBut(w, i, NoTrack), NEW c, MayDo(w, i, c)
  PROVE  /\ InvBut(Replaced(w, c), i, NoTrack) /\ Replaced(w, c).calls = w.calls
         /\ Tracks(Replaced(w, c)) = (Tracks(w) \ {c.old}) \cup ({c.new} \ {NoTrack})
  <1> DEFINE o == c.old
             n == c.new
             out == IF o = NoTrack THEN w ELSE SetPlace(w, o, FALSE, Spliced(w.conf.tracks, o))
             in == IF n = NoTrack THEN out ELSE SetPlace(out, n, TRUE, Append(out.conf.tracks, n))
             switching == \E t \in {o, n} \ {NoTrack} : w.trk[t].switching
             told == IF o # NoTrack /\ Video(o) /\ ~switching THEN UpdateActive(in) ELSE in
  <1>1. Replaced(w, c) = IF n # NoTrack /\ (\E k \in Kind : w.conf.byFocus[k])
                         THEN FireMuteChange(told, n) ELSE told
    BY DEF Replaced, SetPlace
  <1>2. o \in MaybeTrack /\ n \in MaybeTrack /\ n \notin Tracks(w)
    BY DEF MayDo, CallShape, Call
  <1>3. Tracks(w) \subseteq Track
    BY TracksType DEF InvBut
  <1>4. InvBut(out, i, NoTrack) /\ out.calls = w.calls /\ Tracks(out) = Tracks(w) \ {o}
    <2>1. CASE o = NoTrack
      BY <1>3, <2>1, ButTrack
    <2>2. CASE o # NoTrack
      BY <1>2, <2>2, OutInv DEF MaybeTrack
    <2> QED
      BY <2>1, <2>2
  <1>12. \A k \in Kind : out.conf.byFocus[k] <=> w.conf.byFocus[k]
    <2>1. CASE o = NoTrack
      BY <2>1
    <2>2. CASE o # NoTrack
      <3>1. o \in Track /\ w.conf.tracks \in Seq(Track) /\ IsInjective(w.conf.tracks)
        BY <1>2, <2>2 DEF MaybeTrack, InvBut, Shape, ConfShape, TracksOK
      <3>2. Placed(w, out, o, FALSE, Spliced(w.conf.tracks, o))
        BY <2>2, <3>1, SplicedSeq, PlaceSet DEF InvBut
      <3>3. out.conf.byFocus = w.conf.byFocus
        BY <3>2 DEF Placed
      <3> QED
        BY <3>3
    <2> QED
      BY <2>1, <2>2
  <1> HIDE DEF out
  <1>5. /\ InvBut(in, i, n) /\ in.calls = w.calls
        /\ Tracks(in) = (Tracks(w) \ {o}) \cup ({n} \ {NoTrack})
    <2>1. CASE n = NoTrack
      BY <1>4, <2>1
    <2>2. CASE n # NoTrack
      <3>1. n \in Track /\ n \notin Tracks(out)
        BY <1>2, <1>4, <2>2 DEF MaybeTrack
      <3>2. ASSUME NEW j \in DOMAIN out.calls \ {i} PROVE out.calls[j].new # n
        BY <1>4, <2>2, <3>2 DEF MayDo, CallKind
      <3>3. in = SetPlace(out, n, TRUE, Append(out.conf.tracks, n))
        BY <2>2
      <3> HIDE DEF in
      <3>4. Entered(out, in, i, n)
        BY <1>4, <3>1, <3>2, <3>3, InInv
      <3> QED
        BY <1>4, <2>2, <3>1, <3>4, ButTrack DEF Entered
    <2> QED
      BY <2>1, <2>2
  <1>6. n \in Track => \A k \in Kind : in.conf.byFocus[k] <=> w.conf.byFocus[k]
    <2>1. CASE n \in Track
      <3>1. out.conf.tracks \in Seq(Track) /\ Append(out.conf.tracks, n) \in Seq(Track)
        BY <1>4, <2>1 DEF InvBut, Shape, ConfShape
      <3>3. Placed(out, in, n, TRUE, Append(out.conf.tracks, n))
        BY <1>4, <2>1, <3>1, PlaceSet, ButTrack DEF InvBut
      <3>2. in.conf.byFocus = out.conf.byFocus
        BY <3>3 DEF Placed
      <3> QED
        BY <1>12, <3>2
    <2> QED
      BY <2>1
  <1> HIDE DEF in
  <1>7. Same(in, told)
    BY <1>5, ActiveSame, SameRefl DEF InvBut
  <1> HIDE DEF told
  <1>8. InvBut(told, i, n) /\ told.calls = w.calls /\ Tracks(told) = Tracks(in)
    BY <1>5, <1>7, SameBut DEF Same, Tracks
  <1>9. CASE n = NoTrack
    BY <1>1, <1>5, <1>8, <1>9
  <1>10. CASE n # NoTrack /\ \E k \in Kind : w.conf.byFocus[k]
    <2> DEFINE v == FireMuteChange(told, n)
    <2>1. n \in Track
      BY <1>2, <1>10 DEF MaybeTrack
    <2>2. Same(told, v) /\ (v.conf.byFocus[KindOf(n)] => Muted(told.trk[n], n))
      BY <1>8, <2>1, FireSame DEF InvBut
    <2>3. Replaced(w, c) = v
      BY <1>1, <1>10
    <2> HIDE DEF v
    <2>4. InvBut(v, i, n) /\ v.calls = w.calls /\ Tracks(v) = Tracks(in) /\ v.trk = told.trk
      BY <1>8, <2>2, SameBut DEF Same, Tracks
    <2>5. FocusOK(v, n)
      BY <2>2, <2>4 DEF FocusOK
    <2> QED
      BY <1>5, <2>3, <2>4, <2>5, ButAll
  <1>11. CASE n # NoTrack /\ ~(\E k \in Kind : w.conf.byFocus[k])
    <2>1. n \in Track
      BY <1>2, <1>11 DEF MaybeTrack
    <2>2. ~told.conf.byFocus[KindOf(n)]
      BY <1>6, <1>7, <1>11, <2>1, KindType DEF Same
    <2>3. FocusOK(told, n)
      BY <2>2 DEF FocusOK
    <2> QED
      BY <1>1, <1>5, <1>8, <1>11, <2>3, ButAll
  <1> QED
    BY <1>9, <1>10, <1>11

(* No call but i is about the kind k.                                      *)
Free(w, i, k) == \A j \in DOMAIN w.calls \ {i} : CallKind(w.calls[j]) # k

LEMMA DoInv ==
  ASSUME NEW w, NEW i \in Nat, InvBut(w, i, NoTrack), NEW c, MayDo(w, i, c)
  PROVE  WInv(DoReplace(w, i, c))
  BY DoReplaceInv DEF MayDo

About(c, n, k) == CallShape(c) /\ c.new = n /\ CallKind(c) = k

LEMMA AskingShape ==
  ASSUME NEW w, NEW then \in {"app", "fxRemove", "fxAdd", "dispose"}, NEW on \in BOOLEAN,
         NEW disposing \in BOOLEAN, NEW o \in MaybeTrack, NEW n \in MaybeTrack,
         (o # NoTrack /\ w.trk[o].in) \/ n # NoTrack,
         o # NoTrack /\ n # NoTrack => KindOf(o) = KindOf(n),
         then \in {"fxRemove", "dispose"} => n = NoTrack,
         then = "fxAdd" => o = NoTrack
  PROVE  About(Asking(w, then, on, o, n, disposing), n, KindOf(IF n = NoTrack THEN o ELSE n))
  <1> DEFINE c == Asking(w, then, on, o, n, disposing)
  <1>1. /\ c \in [then : {then}, on : {on}, disposing : {disposing}, old : {c.old},
                  new : {n}, left : {c.left}, failed : {FALSE}]
        /\ c.old = IF o # NoTrack /\ w.trk[o].in THEN o ELSE NoTrack
        /\ c.left \in {Running(w), {}}
    BY DEF Asking
  <1> HIDE DEF c
  <1>2. c.left \subseteq Session /\ c.old \in MaybeTrack
    BY <1>1, RunningType DEF MaybeTrack
  <1>3. c \in Call
    BY <1>1, <1>2 DEF Call
  <1>4. CallShape(c)
    BY <1>1, <1>3 DEF CallShape
  <1>5. CallKind(c) = KindOf(IF n = NoTrack THEN o ELSE n)
    BY <1>1 DEF CallKind
  <1> QED
    BY <1>1, <1>4, <1>5 DEF c, About

(* A call about the kind k may be made when no other is.                   *)
LEMMA AskingDo ==
  ASSUME NEW w, NEW i \in Nat, InvBut(w, i, NoTrack),
         NEW then \in {"app", "fxRemove", "fxAdd", "dispose"}, NEW on \in BOOLEAN,
         NEW disposing \in BOOLEAN, NEW o \in MaybeTrack, NEW n \in MaybeTrack,
         (o # NoTrack /\ w.trk[o].in) \/ n # NoTrack,
         o # NoTrack /\ n # NoTrack => KindOf(o) = KindOf(n),
         then \in {"fxRemove", "dispose"} => n = NoTrack,
         then = "fxAdd" => o = NoTrack,
         n \notin Tracks(w), Free(w, i, KindOf(IF n = NoTrack THEN o ELSE n))
  PROVE  WInv(DoReplace(w, i, Asking(w, then, on, o, n, disposing)))
  <1> DEFINE c == Asking(w, then, on, o, n, disposing)
  <1>1. About(c, n, KindOf(IF n = NoTrack THEN o ELSE n))
    BY AskingShape
  <1> HIDE DEF c
  <1>2. MayDo(w, i, c)
    BY <1>1 DEF MayDo, Free, About
  <1>3. WInv(DoReplace(w, i, c))
    BY <1>2, DoInv
  <1> QED
    BY <1>3 DEF c

LEMMA NoTrackOut == ASSUME NEW w, Shape(w) PROVE NoTrack \notin Tracks(w)
  BY TracksType, ButTrack

LEMMA TrackAt ==
  ASSUME NEW w, NEW i, NEW u, InvBut(w, i, u), NEW t \in Track
  PROVE  w.trk[t] \in TrackShape /\ (w.trk[t].in <=> t \in Tracks(w))
  BY DEF InvBut, Shape, TracksOK

(* A track that is another only in its stream.                             *)
Alike(x, y) ==
  y \in TrackShape /\ y.in = x.in /\ y.chain = x.chain /\ y.waits = x.waits

LEMMA StopAlike ==
  ASSUME NEW x \in TrackShape PROVE Alike(x, StopEffect(x))
  BY DEF StopEffect, TrackShape, Alike

LEMMA StartAlike ==
  ASSUME NEW x \in TrackShape PROVE Alike(x, StartEffect(x))
  BY DEF StartEffect, TrackShape, Alike

LEMMA SwitchShape ==
  ASSUME NEW x \in TrackShape, NEW on \in BOOLEAN
  PROVE  /\ SwitchEffect(x, on) \in TrackShape /\ SwitchEffect(x, on).in = x.in
         /\ SwitchEffect(x, on).chain = x.chain /\ SwitchEffect(x, on).waits = x.waits
  <1> DEFINE s == StopEffect(x)
             y == [s EXCEPT !.effect = FALSE]
  <1>1. Alike(x, s)
    BY StopAlike
  <1>2. SwitchEffect(x, on) = IF on THEN StartEffect(y) ELSE y
    BY DEF SwitchEffect
  <1> HIDE DEF s
  <1>3. Alike(x, y)
    BY <1>1 DEF Alike, TrackShape
  <1> HIDE DEF y
  <1>4. Alike(y, StartEffect(y))
    BY <1>3, StartAlike DEF Alike
  <1> QED
    BY <1>2, <1>3, <1>4 DEF Alike

LEMMA SwitchInv ==
  ASSUME NEW w, NEW i, InvBut(w, i, NoTrack), NEW t \in Track, t \notin Tracks(w),
         NEW on \in BOOLEAN
  PROVE  InvBut([w EXCEPT !.trk[t] = SwitchEffect(@, on)], i, NoTrack)
  <1> DEFINE x == SwitchEffect(w.trk[t], on)
  <1>1. [w EXCEPT !.trk[t] = SwitchEffect(@, on)] = SetTrack(w, t, x)
    BY DEF SetTrack
  <1>2. x \in TrackShape /\ x.in = w.trk[t].in /\ x.chain = w.trk[t].chain
          /\ x.waits = w.trk[t].waits
    BY TrackAt, SwitchShape
  <1> HIDE DEF x
  <1>3. InvBut(SetTrack(w, t, x), i, NoTrack)
    BY <1>2, TrackInv
  <1> QED
    BY <1>1, <1>3

LEMMA DisposeInv ==
  ASSUME NEW w, NEW i \in Nat, InvBut(w, i, NoTrack), NEW t \in Track, Free(w, i, KindOf(t))
  PROVE  WInv(Dispose(w, i, t))
  <1>1. CASE w.trk[t].in
    <2>1. Dispose(w, i, t) = DoReplace(w, i, Asking(w, "dispose", FALSE, t, NoTrack, TRUE))
      BY <1>1 DEF Dispose
    <2>2. NoTrack \notin Tracks(w) /\ t \in MaybeTrack /\ NoTrack \in MaybeTrack /\ t # NoTrack
      BY NoTrackOut, ButTrack DEF InvBut, MaybeTrack
    <2>3. WInv(DoReplace(w, i, Asking(w, "dispose", FALSE, t, NoTrack, TRUE)))
      BY <1>1, <2>2, AskingDo
    <2> QED
      BY <2>1, <2>3
  <1>2. CASE ~w.trk[t].in
    <2> DEFINE x == [w.trk[t] EXCEPT !.disposed = TRUE]
               v == [w EXCEPT !.trk[t].disposed = TRUE]
    <2>1. x \in TrackShape /\ x.in = w.trk[t].in /\ x.chain = w.trk[t].chain
            /\ x.waits = w.trk[t].waits /\ t \notin Tracks(w)
      <3>1. w.trk[t] \in TrackShape /\ t \notin Tracks(w)
        BY <1>2, TrackAt
      <3> QED
        BY <3>1 DEF TrackShape
    <2>2. v = SetTrack(w, t, x)
      BY DEF SetTrack
    <2> HIDE DEF x
    <2>5. InvBut(SetTrack(w, t, x), i, NoTrack)
      BY <2>1, TrackInv
    <2>3. InvBut(v, i, NoTrack)
      BY <2>2, <2>5
    <2>4. Dispose(w, i, t) = Ended(v, i)
      BY <1>2 DEF Dispose
    <2> HIDE DEF v
    <2> QED
      BY <2>3, <2>4, EndInv
  <1> QED
    BY <1>1, <1>2

LEMMA EffectFailsInv ==
  ASSUME NEW w, NEW i, InvBut(w, i, NoTrack), NEW t \in Track
  PROVE  WInv(EffectFails(w, i, t))
  <1> DEFINE x == [SwitchEffect(w.trk[t], FALSE) EXCEPT !.switching = FALSE]
             a == [w EXCEPT !.conf.astray = @ \cup {t}]
             v == [w EXCEPT !.trk[t] = [SwitchEffect(@, FALSE) EXCEPT !.switching = FALSE],
                            !.conf.astray = @ \cup {t}]
  <1>1. SwitchEffect(w.trk[t], FALSE) \in TrackShape
          /\ SwitchEffect(w.trk[t], FALSE).in = w.trk[t].in
          /\ SwitchEffect(w.trk[t], FALSE).chain = w.trk[t].chain
          /\ SwitchEffect(w.trk[t], FALSE).waits = w.trk[t].waits
    BY TrackAt, SwitchShape
  <1>2. x \in TrackShape /\ x.in = w.trk[t].in /\ x.chain = w.trk[t].chain
          /\ x.waits = w.trk[t].waits
    BY <1>1 DEF TrackShape
  <1>3. v = SetTrack(a, t, x)
    BY DEF SetTrack, InvBut, Shape
  <1>4. EffectFails(w, i, t) = Ended(v, i)
    BY DEF EffectFails
  <1>5. Same(w, a) /\ t \in a.conf.astray
    BY AstraySame DEF InvBut, Shape, ConfShape
  <1> HIDE DEF x, a, v
  <1>6. InvBut(a, i, NoTrack) /\ a.trk = w.trk
    BY <1>5, SameBut DEF Same
  <1>7. InvBut(v, i, NoTrack)
    BY <1>2, <1>3, <1>5, <1>6, TrackInv
  <1> QED
    BY <1>4, <1>7, EndInv

LEMMA EffectSwitchedInv ==
  ASSUME NEW w, NEW i \in Nat, InvBut(w, i, NoTrack), NEW c, c.old \in Track,
         c.old \notin Tracks(w), c.on \in BOOLEAN, c.disposing \in BOOLEAN,
         Free(w, i, KindOf(c.old))
  PROVE  WInv(EffectSwitched(w, i, c))
  <1> DEFINE t == c.old
             v == [w EXCEPT !.trk[t] = SwitchEffect(@, c.on)]
             fails == (c.on /\ ~v.trk[t].live) \/ \E u \in Tracks(w) : KindOf(u) = KindOf(t)
  <1>1. CASE fails
    <2>1. EffectSwitched(w, i, c) = EffectFails(w, i, t)
      BY <1>1 DEF EffectSwitched
    <2> QED
      BY <2>1, EffectFailsInv
  <1>2. CASE ~fails
    <2>1. EffectSwitched(w, i, c)
            = DoReplace(v, i, Asking(v, "fxAdd", c.on, NoTrack, t, c.disposing))
      BY <1>2 DEF EffectSwitched
    <2>2. InvBut(v, i, NoTrack)
      BY SwitchInv
    <2>3. v.calls = w.calls /\ v.conf = w.conf
      BY DEF InvBut, Shape
    <2> HIDE DEF v
    <2>4. Free(v, i, KindOf(t)) /\ t \notin Tracks(v)
      BY <2>3 DEF Free, Tracks
    <2>5. t \in MaybeTrack /\ NoTrack \in MaybeTrack /\ t # NoTrack
      BY ButTrack DEF MaybeTrack
    <2>6. WInv(DoReplace(v, i, Asking(v, "fxAdd", c.on, NoTrack, t, c.disposing)))
      BY <2>2, <2>4, <2>5, AskingDo
    <2> QED
      BY <2>1, <2>6
  <1> QED
    BY <1>1, <1>2

LEMMA GoInv ==
  ASSUME NEW w, NEW i \in Nat, InvBut(w, i, NoTrack), NEW t \in Track,
         Free(w, i, KindOf(t)), NEW disposing
  PROVE  WInv(IF disposing THEN Dispose(w, i, t) ELSE Ended(w, i))
  BY DisposeInv, EndInv

LEMMA SetEffectInv ==
  ASSUME NEW w, NEW i \in Nat, InvBut(w, i, NoTrack), NEW t \in Track,
         Free(w, i, KindOf(t)), NEW on \in BOOLEAN, NEW disposing \in BOOLEAN
  PROVE  WInv(SetEffect(w, i, t, on, disposing))
  <1>0. w.trk[t] \in TrackShape /\ (w.trk[t].in <=> t \in Tracks(w))
    BY TrackAt
  <1>1. CASE Muted(w.trk[t], t) /\ Video(t)
    <2> DEFINE x == [w.trk[t] EXCEPT !.effect = on]
               v == [w EXCEPT !.trk[t].effect = on]
    <2>1. x \in TrackShape /\ x.in = w.trk[t].in /\ x.chain = w.trk[t].chain
            /\ x.waits = w.trk[t].waits /\ (Muted(w.trk[t], t) => Muted(x, t))
      BY <1>0 DEF TrackShape, Muted
    <2>2. v = SetTrack(w, t, x) /\ v.calls = w.calls
      BY DEF SetTrack, InvBut, Shape
    <2>3. SetEffect(w, i, t, on, disposing) = IF disposing THEN Dispose(v, i, t) ELSE Ended(v, i)
      BY <1>1 DEF SetEffect
    <2> HIDE DEF x, v
    <2>4. InvBut(SetTrack(w, t, x), i, NoTrack)
      BY <2>1, TrackInv
    <2>5. InvBut(v, i, NoTrack) /\ Free(v, i, KindOf(t))
      BY <2>2, <2>4 DEF Free
    <2> QED
      BY <2>3, <2>5, GoInv
  <1>2. CASE ~(Muted(w.trk[t], t) /\ Video(t)) /\ ~w.trk[t].in
    <2> DEFINE v == [w EXCEPT !.trk[t] = SwitchEffect(@, on)]
    <2>1. SetEffect(w, i, t, on, disposing) = IF disposing THEN Dispose(v, i, t) ELSE Ended(v, i)
      BY <1>2 DEF SetEffect
    <2>2. InvBut(v, i, NoTrack)
      BY <1>0, <1>2, SwitchInv
    <2>3. v.calls = w.calls
      BY DEF InvBut, Shape
    <2> HIDE DEF v
    <2>4. Free(v, i, KindOf(t))
      BY <2>3 DEF Free
    <2> QED
      BY <2>1, <2>2, <2>4, GoInv
  <1>3. CASE ~(Muted(w.trk[t], t) /\ Video(t)) /\ w.trk[t].in
    <2> DEFINE x == [w.trk[t] EXCEPT !.switching = TRUE]
               v == [w EXCEPT !.trk[t].switching = TRUE]
               c == Asking(w, "fxRemove", on, t, NoTrack, disposing)
    <2>1. x \in TrackShape /\ x.in = w.trk[t].in /\ x.chain = w.trk[t].chain
            /\ x.waits = w.trk[t].waits /\ (Muted(w.trk[t], t) => Muted(x, t))
      BY <1>0 DEF TrackShape, Muted
    <2>2. v = SetTrack(w, t, x) /\ v.calls = w.calls /\ v.conf = w.conf
      BY DEF SetTrack, InvBut, Shape
    <2>3. SetEffect(w, i, t, on, disposing) = DoReplace(v, i, c)
      BY <1>3 DEF SetEffect
    <2>4. t \in MaybeTrack /\ NoTrack \in MaybeTrack /\ t # NoTrack
      BY ButTrack DEF MaybeTrack
    <2>5. About(c, NoTrack, KindOf(t))
      BY <1>3, <2>4, AskingShape
    <2> HIDE DEF x, v, c
    <2>6. InvBut(SetTrack(w, t, x), i, NoTrack)
      BY <2>1, TrackInv
    <2>7. InvBut(v, i, NoTrack) /\ Free(v, i, KindOf(t)) /\ NoTrack \notin Tracks(v)
      BY <2>2, <2>6, NoTrackOut DEF Free, InvBut
    <2>8. MayDo(v, i, c)
      BY <2>5, <2>7 DEF MayDo, About, Free
    <2> QED
      BY <2>3, <2>7, <2>8, DoInv
  <1> QED
    BY <1>1, <1>2, <1>3

LEMMA InvCall ==
  ASSUME NEW w, WInv(w), NEW i
  PROVE  /\ InvBut(w, i, NoTrack)
         /\ i \in DOMAIN w.calls =>
              MayDo(w, i, w.calls[i]) /\ w.calls[i] \in Call /\ i \in Nat
  <1>1. InvBut(w, i, NoTrack)
    BY DEF WInv, InvBut, CallsOK, CallsBut
  <1>2. ASSUME i \in DOMAIN w.calls
        PROVE  MayDo(w, i, w.calls[i]) /\ w.calls[i] \in Call /\ i \in Nat
    BY <1>2 DEF WInv, CallsOK, MayDo, CallShape, Shape
  <1> QED
    BY <1>1, <1>2

LEMMA SettleInv ==
  ASSUME NEW w, WInv(w), NEW i \in DOMAIN w.calls
  PROVE  WInv(Settle(w, i))
  <1> DEFINE c == w.calls[i]
             v == Replaced(w, c)
             t == c.new
  <1>1. InvBut(w, i, NoTrack) /\ MayDo(w, i, c) /\ c \in Call /\ i \in Nat
    BY InvCall
  <1>2. CallShape(c) /\ t \notin Tracks(w) /\ Free(w, i, CallKind(c))
    BY <1>1 DEF MayDo, Free
  <1>3. c.old \in MaybeTrack /\ t \in MaybeTrack /\ c.on \in BOOLEAN /\ c.disposing \in BOOLEAN
          /\ c.failed \in BOOLEAN /\ c.then \in {"app", "fxRemove", "fxAdd", "dispose"}
    BY <1>1 DEF Call
  <1>4. (c.old # NoTrack \/ t # NoTrack)
          /\ (c.then \in {"fxRemove", "dispose"} => t = NoTrack /\ c.old \in Track)
          /\ (c.then = "fxAdd" => c.old = NoTrack /\ t \in Track)
    BY <1>2, <1>3 DEF CallShape, MaybeTrack
  <1>5. /\ InvBut(v, i, NoTrack) /\ v.calls = w.calls
        /\ Tracks(v) = (Tracks(w) \ {c.old}) \cup (({t}) \ {NoTrack})
    BY <1>1, ReplacedInv
  <1>6. Free(v, i, CallKind(c))
    BY <1>2, <1>5 DEF Free
  <1>7. CASE c.failed
    <2> DEFINE T == {c.old, c.new} \ {NoTrack}
               lost == [w EXCEPT !.conf.astray = @ \cup T]
               u == IF c.old = NoTrack THEN c.new ELSE c.old
    <2>1. Settle(w, i) = IF c.then \in {"fxRemove", "fxAdd"} THEN EffectFails(lost, i, u)
                         ELSE Ended(lost, i)
      BY <1>7 DEF Settle
    <2>2. T \subseteq Track
      BY <1>3 DEF MaybeTrack
    <2> HIDE DEF T
    <2>3. Same(w, lost)
      BY <1>1, <2>2, AstraySame DEF InvBut
    <2> HIDE DEF lost
    <2>4. InvBut(lost, i, NoTrack)
      BY <1>1, <2>3, SameBut
    <2>5. u \in Track
      BY <1>3, <1>4 DEF MaybeTrack
    <2> HIDE DEF u
    <2> QED
      BY <2>1, <2>4, <2>5, EffectFailsInv, EndInv
  <1>8. CASE ~c.failed /\ c.then = "app"
    <2>1. Settle(w, i) = Ended(v, i)
      BY <1>8 DEF Settle
    <2> HIDE DEF v
    <2> QED
      BY <1>5, <2>1, EndInv
  <1>9. CASE ~c.failed /\ c.then = "fxRemove"
    <2>1. Settle(w, i) = EffectSwitched(v, i, c)
      BY <1>9 DEF Settle
    <2>2. c.old \notin Tracks(v) /\ CallKind(c) = KindOf(c.old)
      BY <1>4, <1>5, <1>9 DEF CallKind
    <2> HIDE DEF v, c
    <2>3. WInv(EffectSwitched(v, i, c))
      BY <1>1, <1>3, <1>4, <1>5, <1>6, <1>9, <2>2, EffectSwitchedInv
    <2> QED
      BY <2>1, <2>3
  <1>10. CASE ~c.failed /\ c.then = "fxAdd"
    <2> DEFINE x == [v.trk[t] EXCEPT !.switching = FALSE]
               set == [v EXCEPT !.trk[t].switching = FALSE]
    <2>1. Settle(w, i) = IF c.disposing THEN Dispose(set, i, t) ELSE Ended(set, i)
      BY <1>10 DEF Settle
    <2>2. t \in Track /\ v.trk[t] \in TrackShape
      BY <1>4, <1>5, <1>10, TrackAt
    <2>3. x \in TrackShape /\ x.in = v.trk[t].in /\ x.chain = v.trk[t].chain
            /\ x.waits = v.trk[t].waits /\ (Muted(v.trk[t], t) => Muted(x, t))
      BY <2>2 DEF TrackShape, Muted
    <2>4. set = SetTrack(v, t, x) /\ set.calls = v.calls
      BY <1>5 DEF SetTrack, InvBut, Shape
    <2>5. CallKind(c) = KindOf(t)
      BY <2>2, ButTrack DEF CallKind
    <2> HIDE DEF x, set, v, c
    <2>6. InvBut(SetTrack(v, t, x), i, NoTrack)
      BY <1>5, <2>2, <2>3, TrackInv
    <2>7. InvBut(set, i, NoTrack) /\ Free(set, i, KindOf(t))
      BY <1>6, <2>4, <2>5, <2>6 DEF Free
    <2> QED
      BY <1>1, <2>1, <2>2, <2>7, GoInv
  <1>11. CASE ~c.failed /\ c.then = "dispose"
    <2> DEFINE o == c.old
               x == [v.trk[o] EXCEPT !.disposed = TRUE]
               d == [v EXCEPT !.trk[o].disposed = TRUE]
    <2>1. Settle(w, i) = Ended(d, i)
      BY <1>11 DEF Settle
    <2>2. o \in Track /\ v.trk[o] \in TrackShape
      BY <1>4, <1>5, <1>11, TrackAt
    <2>3. x \in TrackShape /\ x.in = v.trk[o].in /\ x.chain = v.trk[o].chain
            /\ x.waits = v.trk[o].waits /\ (Muted(v.trk[o], o) => Muted(x, o))
      BY <2>2 DEF TrackShape, Muted
    <2>4. d = SetTrack(v, o, x)
      BY DEF SetTrack
    <2> HIDE DEF x, d, v, o
    <2>5. InvBut(SetTrack(v, o, x), i, NoTrack)
      BY <1>5, <2>2, <2>3, TrackInv
    <2> QED
      BY <2>1, <2>4, <2>5, EndInv
  <1> QED
    BY <1>3, <1>7, <1>8, <1>9, <1>10, <1>11

-----------------------------------------------------------------------------
(***************************************************************************)
(* The queues of the sessions.                                             *)
(***************************************************************************)

LEMMA QueueTail ==
  ASSUME NEW w, Shape(w), NEW s \in Session, w.ses[s].queue # <<>>
  PROVE  Same(w, [w EXCEPT !.ses[s].queue = Tail(@)])
  <1> DEFINE x == [w.ses[s] EXCEPT !.queue = Tail(@)]
             v == [w EXCEPT !.ses[s].queue = Tail(@)]
  <1>1. SesShape(w.ses[s]) /\ w.ses[s].queue \in Seq(OpShape)
    BY DEF Shape, SesShape
  <1>2. Tail(w.ses[s].queue) \in Seq(OpShape)
    BY <1>1
  <1>3. SesShape(x)
    BY <1>1, <1>2 DEF SesShape
  <1>4. v = [w EXCEPT !.ses[s] = x]
    OBVIOUS
  <1> HIDE DEF x, v
  <1>5. Same(w, v)
    BY <1>3, <1>4, QueueSame
  <1> QED
    BY <1>5 DEF v

(* An operation changes what a session has, and not its queue.             *)
Ran(w, v, s) == Same(w, v) /\ v.ses[s].queue = w.ses[s].queue

LEMMA RanSet ==
  ASSUME NEW w, Shape(w), NEW s \in Session, NEW x, SesShape(x), x.queue = w.ses[s].queue
  PROVE  Ran(w, [w EXCEPT !.ses[s] = x], s)
  <1> DEFINE v == [w EXCEPT !.ses[s] = x]
  <1>1. v.ses[s] = x
    BY DEF Shape
  <1>2. Same(w, v)
    BY QueueSame
  <1> HIDE DEF v
  <1>3. Ran(w, v, s)
    BY <1>1, <1>2 DEF Ran
  <1> QED
    BY <1>3 DEF v

LEMMA FinishInv ==
  ASSUME NEW w, WInv(w), NEW s \in Session, w.ses[s].queue # <<>>, NEW op \in OpShape,
         NEW ok \in BOOLEAN
  PROVE  WInv(Finish(w, s, op, ok))
  <1> DEFINE v == [w EXCEPT !.ses[s].queue = Tail(@)]
  <1>1. Same(w, v)
    BY QueueTail DEF WInv
  <1>5. v.trk = w.trk /\ v.calls = w.calls
    BY DEF WInv, Shape
  <1>2. CASE op.type = "initial"
    BY <1>1, <1>2, SameInv DEF Finish
  <1>3. CASE op.type \in {"mute", "unmute"}
    <2> DEFINE t == op.old
               x == [v.trk[t] EXCEPT !.left = @ \ {s}]
               r == [v EXCEPT !.trk[t].left = @ \ {s}]
    <2>1. Finish(w, s, op, ok) = r
      BY <1>3 DEF Finish
    <2> HIDE DEF v
    <2>2. t \in Track
      BY <1>3 DEF OpShape
    <2>3. WInv(v)
      BY <1>1, SameInv
    <2>4. InvBut(v, -1, NoTrack)
      BY <2>3, AllBut
    <2>5. v.trk[t] \in TrackShape
      BY <2>2, <2>4, TrackAt
    <2>6. x \in TrackShape /\ x.in = v.trk[t].in /\ x.chain = v.trk[t].chain
            /\ x.waits = v.trk[t].waits /\ (Muted(v.trk[t], t) => Muted(x, t))
      BY <2>5 DEF TrackShape, Muted
    <2>7. r = SetTrack(v, t, x)
      BY DEF SetTrack
    <2> HIDE DEF x, r, t
    <2>8. InvBut(SetTrack(v, t, x), -1, NoTrack)
      BY <2>2, <2>4, <2>6, TrackInv
    <2> QED
      BY <2>1, <2>7, <2>8, AllBut
  <1>4. CASE op.type = "replace"
    <2>1. CASE op.call \in DOMAIN v.calls
      <3> DEFINE i == op.call
                 y == [v.calls[i] EXCEPT !.left = @ \ {s}, !.failed = @ \/ ~ok]
                 f == [v.calls EXCEPT ![i] = y]
                 r == [v EXCEPT !.calls[i].left = @ \ {s}, !.calls[i].failed = @ \/ ~ok]
      <3>1. Finish(w, s, op, ok) = r
        BY <1>4, <1>5, <2>1 DEF Finish
      <3> HIDE DEF v
      <3>2. WInv(v)
        BY <1>1, SameInv
      <3>3. InvBut(v, -1, NoTrack)
        BY <3>2, AllBut
      <3>4. v.calls[i] \in Call /\ CallShape(v.calls[i])
        BY <2>1, <3>2 DEF WInv, CallsOK, CallShape
      <3>5. y \in Call /\ y.then = v.calls[i].then /\ y.old = v.calls[i].old
              /\ y.new = v.calls[i].new
        BY <3>4 DEF Call
      <3>6. CallShape(y) /\ CallKind(y) = CallKind(v.calls[i])
        BY <3>4, <3>5 DEF CallShape, CallKind
      <3>7. r = SetCalls(v, f)
        BY DEF SetCalls
      <3>8. v.calls \in [DOMAIN v.calls -> Call] /\ DOMAIN v.calls \subseteq Nat
        BY <3>2 DEF WInv, Shape
      <3> HIDE DEF y
      <3>9. /\ DOMAIN f = DOMAIN v.calls /\ f \in [DOMAIN f -> Call] /\ f[i] = y
            /\ \A j \in DOMAIN f \ {i} : f[j] = v.calls[j]
        BY <2>1, <3>5, <3>8
      <3> HIDE DEF f, r, i
      <3>10. \A j \in DOMAIN f :
               /\ CallShape(f[j]) /\ f[j].new = v.calls[j].new
               /\ CallKind(f[j]) = CallKind(v.calls[j])
        BY <3>2, <3>5, <3>6, <3>9 DEF WInv, CallsOK
      <3>11. \A j \in DOMAIN f :
               /\ CallShape(f[j]) /\ f[j].new \notin Tracks(v)
               /\ \A k \in DOMAIN f \ {j} : CallKind(f[k]) # CallKind(f[j])
        BY <3>2, <3>9, <3>10 DEF WInv, CallsOK
      <3>12. WInv(SetCalls(v, f))
        BY <3>3, <3>8, <3>9, <3>11, CallsInv
      <3> QED
        BY <3>1, <3>7, <3>12
    <2>2. CASE op.call \notin DOMAIN v.calls
      <3>1. Finish(w, s, op, ok) = v
        BY <1>4, <1>5, <2>2 DEF Finish
      <3> HIDE DEF v
      <3> QED
        BY <1>1, <3>1, SameInv
    <2> QED
      BY <2>1, <2>2
  <1> QED
    BY <1>2, <1>3, <1>4 DEF OpShape

LEMMA RanFinish ==
  ASSUME NEW w, WInv(w), NEW s \in Session, w.ses[s].queue # <<>>, NEW op \in OpShape,
         NEW ok \in BOOLEAN, NEW v, Ran(w, v, s)
  PROVE  WInv(Finish(v, s, op, ok))
  <1>1. WInv(v) /\ v.ses[s].queue # <<>>
    BY SameInv DEF Ran
  <1> QED
    BY <1>1, FinishInv

LEMMA OperationInv ==
  ASSUME NEW w, WInv(w), NEW s \in Session, w.ses[s].queue # <<>>, NEW op \in OpShape
  PROVE  WInv(RunOperation(w, s, op))
  <1> DEFINE q == w.ses[s]
  <1>0. Shape(w) /\ SesShape(q)
    BY DEF WInv, Shape
  <1>1. CASE op.type = "initial"
    <2> DEFINE v == RunInitial(w, s, op)
    <2>1. RunOperation(w, s, op) = Finish(v, s, op, TRUE)
      BY <1>1 DEF RunOperation
    <2>2. PICK a, b, c, d, e :
            v = [w EXCEPT !.ses[s].tracks = a, !.ses[s].dir = b, !.ses[s].told = c,
                          !.ses[s].acks = d, !.ses[s].sender = e]
      BY DEF RunInitial
    <2> DEFINE x == [q EXCEPT !.tracks = a, !.dir = b, !.told = c, !.acks = d, !.sender = e]
    <2>3. SesShape(x) /\ x.queue = q.queue
      BY <1>0 DEF SesShape
    <2> DEFINE x1 == [q EXCEPT !.tracks = a, !.dir = b]
               x2 == [x1 EXCEPT !.told = c, !.acks = d]
    <2>6. v = [[[w EXCEPT !.ses[s].tracks = a, !.ses[s].dir = b] EXCEPT
                  !.ses[s].told = c, !.ses[s].acks = d] EXCEPT !.ses[s].sender = e]
      BY <2>2
    <2>7. [w EXCEPT !.ses[s].tracks = a, !.ses[s].dir = b] = [w EXCEPT !.ses[s] = x1]
      OBVIOUS
    <2>8. [[w EXCEPT !.ses[s] = x1] EXCEPT !.ses[s].told = c, !.ses[s].acks = d] = [w EXCEPT !.ses[s] = x2]
      BY <1>0 DEF Shape
    <2>9. [[w EXCEPT !.ses[s] = x2] EXCEPT !.ses[s].sender = e] = [w EXCEPT !.ses[s] = x]
      BY <1>0 DEF Shape
    <2>4. v = [w EXCEPT !.ses[s] = x]
      BY <2>6, <2>7, <2>8, <2>9
    <2> HIDE DEF v, x
    <2>5. Ran(w, v, s)
      BY <1>0, <2>3, <2>4, RanSet
    <2> QED
      BY <2>1, <2>5, RanFinish
  <1>2. CASE op.type = "replace"
    <2>1. CASE ReplaceFails(w, s, op)
      <3>1. RunOperation(w, s, op) = Finish(w, s, op, FALSE)
        BY <1>2, <2>1 DEF RunOperation
      <3> QED
        BY <3>1, FinishInv
    <2>2. CASE ~ReplaceFails(w, s, op)
      <3> DEFINE v == RunReplace(w, s, op)
      <3>1. RunOperation(w, s, op) = Finish(v, s, op, TRUE)
        BY <1>2, <2>2 DEF RunOperation
      <3> DEFINE o == op.old
                 n == op.new
                 k == KindOf(IF n = NoTrack THEN o ELSE n)
                 touched == n = NoTrack \/ w.trk[n].live
                 y == [q EXCEPT !.tracks = (@ \ {o}) \cup ({n} \ {NoTrack}),
                                !.sender[k] = IF ~touched THEN @
                                              ELSE IF n = NoTrack THEN NoMedia ELSE MediaOf(w.trk[n], n),
                                !.dir = IF ~touched THEN @
                                        ELSE IF n = NoTrack THEN @ \ {k} ELSE @ \cup {k}]
                 x == IF o = NoTrack \/ o \notin q.tracks THEN Renegotiated(y) ELSE y
      <3>2. v = [w EXCEPT !.ses[s] = x]
        BY DEF RunReplace
      <3>5. SesShape(y) /\ y.queue = q.queue
        BY <1>0 DEF SesShape
      <3> HIDE DEF y
      <3>6. SesShape(Renegotiated(y)) /\ Renegotiated(y).queue = y.queue
        BY <3>5 DEF SesShape, Renegotiated
      <3>3. SesShape(x) /\ x.queue = q.queue
        BY <3>5, <3>6
      <3> HIDE DEF x
      <3> HIDE DEF v
      <3>4. Ran(w, v, s)
        BY <1>0, <3>2, <3>3, RanSet
      <3> QED
        BY <3>1, <3>4, RanFinish
    <2> QED
      BY <2>1, <2>2
  <1>3. ASSUME NEW k, NEW m
        PROVE  Ran(w, [w EXCEPT !.ses[s].sender[k] = m], s)
    <2> DEFINE x == [q EXCEPT !.sender[k] = m]
    <2>1. SesShape(x) /\ x.queue = q.queue
      BY <1>0 DEF SesShape
    <2>2. [w EXCEPT !.ses[s].sender[k] = m] = [w EXCEPT !.ses[s] = x]
      OBVIOUS
    <2> HIDE DEF x
    <2>3. Ran(w, [w EXCEPT !.ses[s] = x], s)
      BY <1>0, <2>1, RanSet
    <2> QED
      BY <2>2, <2>3
  <1>4. CASE op.type = "mute"
    <2> DEFINE k == KindOf(op.old)
               v == [w EXCEPT !.ses[s].sender[k] = NoMedia]
    <2>1. RunOperation(w, s, op) \in {Finish(v, s, op, TRUE), Finish(w, s, op, FALSE)}
      BY <1>4 DEF RunOperation, RunMute
    <2>2. Ran(w, v, s)
      BY <1>3
    <2> HIDE DEF v
    <2>3. WInv(Finish(v, s, op, TRUE)) /\ WInv(Finish(w, s, op, FALSE))
      BY <2>2, RanFinish, FinishInv
    <2> QED
      BY <2>1, <2>3
  <1>5. CASE op.type = "unmute"
    <2> DEFINE k == KindOf(op.old)
               v == [w EXCEPT !.ses[s].sender[k] = MediaOf(w.trk[op.old], op.old)]
    <2>1. RunOperation(w, s, op) \in {Finish(v, s, op, TRUE), Finish(w, s, op, FALSE)}
      BY <1>5 DEF RunOperation, RunUnmute
    <2>2. Ran(w, v, s)
      BY <1>3
    <2> HIDE DEF v
    <2>3. WInv(Finish(v, s, op, TRUE)) /\ WInv(Finish(w, s, op, FALSE))
      BY <2>2, RanFinish, FinishInv
    <2> QED
      BY <2>1, <2>3
  <1> QED
    BY <1>1, <1>2, <1>4, <1>5 DEF OpShape

-----------------------------------------------------------------------------
(***************************************************************************)
(* The steps.                                                              *)
(***************************************************************************)

LEMMA BecomeInv ==
  ASSUME NEW w, WInv(w), Become(w)
  PROVE  FocusInv'
  <1>1. w \in [trk : {w.trk}, conf : {w.conf}, ses : {w.ses}, calls : {w.calls}]
    BY DEF WInv, Shape
  <1>2. w = [trk |-> w.trk, conf |-> w.conf, ses |-> w.ses, calls |-> w.calls]
    BY <1>1
  <1>3. World' = w
    BY <1>2 DEF World, Become
  <1> QED
    BY <1>3 DEF FocusInv

LEMMA WorldIs ==
  /\ World.trk = trk /\ World.conf = conf /\ World.ses = ses /\ World.calls = calls
  BY DEF World

LEMMA WorldBut ==
  ASSUME FocusInv PROVE InvBut(World, -1, NoTrack) /\ Shape(World)
  BY AllBut DEF FocusInv, WInv

LEMMA ChainStepInv ==
  ASSUME FocusInv, NEW t \in Track, ChainStep(t)
  PROVE  FocusInv'
  <1> DEFINE w == World
  <1>1. InvBut(w, -1, NoTrack)
    BY WorldBut
  <1>2. trk[t] \in TrackShape /\ w.trk = trk
    BY <1>1, TrackAt, WorldIs
  <1>3. trk[t].chain # <<>> /\ trk[t].waits \in {"no", "sessions"}
    BY DEF ChainStep, ChainReady
  <1>4. CASE trk[t].waits = "no"
    <2>1. InvBut(StartSetMuted(w, t), -1, NoTrack)
      BY <1>1, <1>2, <1>3, <1>4, StartInv
    <2>2. WInv(StartSetMuted(w, t)) /\ Become(StartSetMuted(w, t))
      BY <1>4, <2>1, AllBut DEF ChainStep
    <2> QED
      BY <2>2, BecomeInv
  <1>5. CASE trk[t].waits # "no"
    <2>1. InvBut(SessionsDone(w, t), -1, NoTrack)
      BY <1>1, <1>2, <1>3, DoneInv
    <2>2. WInv(SessionsDone(w, t)) /\ Become(SessionsDone(w, t))
      BY <1>5, <2>1, AllBut DEF ChainStep
    <2> QED
      BY <2>2, BecomeInv
  <1> QED
    BY <1>4, <1>5

LEMMA CallStepInv ==
  ASSUME FocusInv, NEW i \in DOMAIN calls, CallStep(i)
  PROVE  FocusInv'
  <1>1. WInv(Settle(World, i))
    BY SettleInv, WorldIs DEF FocusInv
  <1> QED
    BY <1>1, BecomeInv DEF CallStep

LEMMA GivenShape ==
  ASSUME NEW x \in TrackShape
  PROVE  /\ Given(x) \in TrackShape /\ Given(x).in = x.in
         /\ Given(x).chain = x.chain /\ Given(x).waits = x.waits
  <1> DEFINE n == x.gen + 1
             y == [x EXCEPT !.live = TRUE, !.gen = n, !.ended = FALSE]
             z == [y EXCEPT !.enabled = TRUE, !.made = FALSE]
  <1>1. n \in Nat
    BY DEF TrackShape
  <1>2. Given(x) = IF x.effect THEN StartEffect(z) ELSE z
    BY DEF Given
  <1> HIDE DEF n
  <1>3. Alike(x, y)
    BY <1>1 DEF Alike, TrackShape
  <1> HIDE DEF y
  <1>4. Alike(x, z)
    BY <1>3 DEF Alike, TrackShape
  <1> HIDE DEF z
  <1>5. Alike(z, StartEffect(z))
    BY <1>4, StartAlike DEF Alike
  <1> QED
    BY <1>2, <1>4, <1>5 DEF Alike

LEMMA DeviceOkInv ==
  ASSUME FocusInv, NEW t \in Track, DeviceOk(t)
  PROVE  FocusInv'
  <1> DEFINE w == World
             x == Given(w.trk[t])
             v == [w EXCEPT !.trk[t] = Given(@)]
             r == IF trk[t].in THEN AskSessions(v, t, "unmute") ELSE SendMuteStatus(v, t)
  <1>1. InvBut(w, -1, NoTrack) /\ w.trk = trk
    BY WorldBut, WorldIs
  <1>2. InvBut(w, -1, t) /\ w.trk[t] \in TrackShape /\ ChainOK(w.trk[t])
    BY <1>1, AllFocus, TrackAt DEF InvBut
  <1>3. w.trk[t].waits = "device"
    BY <1>1 DEF DeviceOk
  <1>4. w.trk[t].chain # <<>> /\ ~Head(w.trk[t].chain).mute
    BY <1>2, <1>3 DEF ChainOK
  <1>5. ~Head(w.trk[t].chain).focus
    <2>1. w.trk[t].chain \in Seq([mute : BOOLEAN, focus : BOOLEAN])
      BY <1>2 DEF TrackShape
    <2>2. Head(w.trk[t].chain) = w.trk[t].chain[1] /\ 1 \in DOMAIN w.trk[t].chain
      BY <1>4, <2>1
    <2> QED
      BY <1>2, <1>4, <2>2 DEF ChainOK
  <1>8. Become(r)
    BY DEF DeviceOk
  <1>6. x \in TrackShape /\ x.in = w.trk[t].in /\ x.chain = w.trk[t].chain
          /\ x.waits = w.trk[t].waits
    BY <1>2, GivenShape
  <1>7. v = SetTrack(w, t, x)
    BY DEF SetTrack
  <1> HIDE DEF w, v, x
  <1>9. InvBut(SetTrack(w, t, x), -1, t)
    BY <1>2, <1>6, SameChain, TrackBut
  <1>10. InvBut(v, -1, t) /\ v.trk[t] = x
    BY <1>2, <1>6, <1>7, <1>9, TrackSet DEF InvBut
  <1>11. InvBut(AskSessions(v, t, "unmute"), -1, NoTrack)
    BY <1>4, <1>6, <1>10, AskInv
  <1>12. InvBut(SendMuteStatus(v, t), -1, NoTrack)
    BY <1>4, <1>5, <1>6, <1>10, SendInv
  <1>13. WInv(r)
    BY <1>11, <1>12, AllBut
  <1> QED
    BY <1>8, <1>13, BecomeInv

LEMMA DeviceFailsInv ==
  ASSUME FocusInv, NEW t \in Track, DeviceFails(t)
  PROVE  FocusInv'
  <1> DEFINE w == World
  <1>1. InvBut(w, -1, NoTrack) /\ w.trk = trk
    BY WorldBut, WorldIs
  <1>2. InvBut(w, -1, t) /\ FocusOK(w, t) /\ ChainOK(w.trk[t])
    BY <1>1, AllFocus DEF InvBut
  <1>3. w.trk[t].waits = "device" /\ Become(NextInChain(w, t, FALSE))
    BY <1>1 DEF DeviceFails
  <1>4. w.trk[t].chain # <<>>
    BY <1>2, <1>3 DEF ChainOK
  <1> HIDE DEF w
  <1>5. InvBut(NextInChain(w, t, FALSE), -1, NoTrack)
    BY <1>2, <1>3, <1>4, NextInv DEF FocusOK, Unmuting
  <1> QED
    BY <1>3, <1>5, AllBut, BecomeInv

LEMMA CountedSame ==
  ASSUME FocusInv
  PROVE  /\ Same(World, Counted) /\ InvBut(Counted, -1, NoTrack) /\ WInv(Counted)
         /\ Counted.trk = trk /\ Counted.calls = calls /\ Counted.ses = ses
         /\ Tracks(Counted) = Tracks(World) /\ conf.calls + 1 \in Nat
  <1> DEFINE c == [conf EXCEPT !.calls = @ + 1]
  <1>1. ConfShape(conf) /\ Shape(World) /\ InvBut(World, -1, NoTrack)
    BY WorldBut, WorldIs DEF Shape
  <1>2. conf.calls + 1 \in Nat
    BY <1>1 DEF ConfShape
  <1>3. ConfShape(c) /\ c.tracks = conf.tracks /\ c.byFocus = conf.byFocus /\ c.astray = conf.astray
    BY <1>1, <1>2 DEF ConfShape
  <1>4. Counted = [World EXCEPT !.conf = c]
    BY DEF Counted, World
  <1> HIDE DEF c
  <1>5. Same(World, Counted)
    BY <1>1, <1>3, <1>4, ConfSame, WorldIs
  <1>6. InvBut(Counted, -1, NoTrack)
    BY <1>1, <1>5, SameBut
  <1>7. Counted.ses = ses /\ Counted.calls = calls /\ Counted.trk = trk
    BY <1>4 DEF World
  <1>8. Tracks(Counted) = Tracks(World)
    BY <1>5 DEF Same, Tracks
  <1> QED
    BY <1>2, <1>5, <1>6, <1>7, <1>8, AllBut

Called(x, m, f) == [x EXCEPT !.chain = Append(x.chain, [mute |-> m, focus |-> f])]

(* A track that waits its turn as before, or one more call does.           *)
Queued(x, y, t) ==
  /\ y \in TrackShape /\ y.in = x.in /\ ChainOK(y)
  /\ Muted(y, t) <=> Muted(x, t)
  /\ Unmuting(x) => Unmuting(y)

LEMMA CalledQueued ==
  ASSUME NEW x \in TrackShape, ChainOK(x), NEW m \in BOOLEAN, NEW f \in BOOLEAN, f => m, NEW t
  PROVE  Queued(x, Called(x, m, f), t)
  <1> DEFINE C == [mute : BOOLEAN, focus : BOOLEAN]
             e == [mute |-> m, focus |-> f]
             y == Called(x, m, f)
  <1>1. x.chain \in Seq(C) /\ e \in C
    BY DEF TrackShape
  <1>2. /\ Append(x.chain, e) \in Seq(C) /\ Append(x.chain, e) # <<>>
        /\ x.chain # <<>> => Head(Append(x.chain, e)) = Head(x.chain)
        /\ DOMAIN Append(x.chain, e) = 1..Len(x.chain) + 1 /\ Len(x.chain) \in Nat
        /\ DOMAIN x.chain = 1..Len(x.chain)
        /\ Append(x.chain, e)[Len(x.chain) + 1] = e
        /\ \A i \in 1..Len(x.chain) : Append(x.chain, e)[i] = x.chain[i]
    BY <1>1
  <1>3. \A i \in DOMAIN Append(x.chain, e) :
          Append(x.chain, e)[i].focus => Append(x.chain, e)[i].mute
    BY <1>2 DEF ChainOK
  <1>4. y \in TrackShape /\ y.in = x.in /\ y.chain = Append(x.chain, e) /\ y.waits = x.waits
          /\ y.live = x.live /\ y.ended = x.ended /\ y.enabled = x.enabled
    BY <1>2 DEF Called, TrackShape
  <1> HIDE DEF y, e
  <1>5. ChainOK(y)
    BY <1>2, <1>3, <1>4 DEF ChainOK
  <1>6. Muted(y, t) <=> Muted(x, t)
    BY <1>4 DEF Muted
  <1>7. Unmuting(x) => Unmuting(y)
    BY <1>2, <1>4 DEF Unmuting, ChainOK
  <1> QED
    BY <1>4, <1>5, <1>6, <1>7 DEF y, Queued

LEMMA SameQueued ==
  ASSUME NEW x \in TrackShape, ChainOK(x), NEW t PROVE Queued(x, x, t)
  BY DEF Queued

LEMMA QueuedInv ==
  ASSUME NEW w, InvBut(w, -1, NoTrack), NEW f, f \in [Track -> TrackShape],
         \A t \in Track : Queued(w.trk[t], f[t], t)
  PROVE  WInv([w EXCEPT !.trk = f])
  <1> DEFINE v == [w EXCEPT !.trk = f]
  <1>1. v.conf = w.conf /\ v.calls = w.calls /\ v.ses = w.ses /\ v.trk = f
    BY DEF InvBut, Shape
  <1>2. v \in [trk : {v.trk}, conf : {v.conf}, ses : {v.ses}, calls : {v.calls}]
    BY DEF InvBut, Shape
  <1> HIDE DEF v
  <1>3. Shape(v)
    BY <1>1, <1>2 DEF InvBut, Shape
  <1>4. Tracks(v) = Tracks(w)
    BY <1>1 DEF Tracks
  <1>5. TracksOK(v)
    BY <1>1, <1>4 DEF InvBut, TracksOK, Queued
  <1>6. \A t \in Track : ChainOK(v.trk[t])
    BY <1>1 DEF Queued
  <1>7. CallsOK(v)
    BY <1>1, <1>4, AllBut DEF WInv, CallsOK
  <1>8. ASSUME NEW t \in Track PROVE FocusOK(v, t)
    <2>1. FocusOK(w, t) /\ Queued(w.trk[t], v.trk[t], t)
      BY <1>1, AllFocus
    <2> QED
      BY <1>1, <1>4, <2>1 DEF FocusOK, Queued
  <1> QED
    BY <1>3, <1>5, <1>6, <1>7, <1>8 DEF WInv, v

LEMMA WorldTrack ==
  ASSUME FocusInv, NEW t \in Track
  PROVE  trk[t] \in TrackShape /\ ChainOK(trk[t]) /\ (trk[t].in <=> t \in Tracks(World))
  BY WorldIs DEF FocusInv, WInv, Shape, TracksOK

LEMMA SetMutedInv ==
  ASSUME FocusInv, NEW t \in Track, NEW m \in BOOLEAN, SetMuted(t, m)
  PROVE  FocusInv'
  <1> DEFINE x == Called(trk[t], m, FALSE)
             f == [trk EXCEPT ![t] = x]
             r == [World EXCEPT !.trk[t].chain = Append(@, [mute |-> m, focus |-> FALSE]),
                                !.conf.calls = @ + 1]
  <1>1. Become(r)
    BY DEF SetMuted
  <1>2. r = [Counted EXCEPT !.trk = f]
    BY DEF Counted, World, Called
  <1>3. trk \in [Track -> TrackShape]
    BY WorldIs DEF FocusInv, WInv, Shape
  <1>4. Queued(trk[t], x, t) /\ x \in TrackShape
    BY WorldTrack, CalledQueued DEF Queued
  <1> HIDE DEF x, r
  <1>5. f \in [Track -> TrackShape]
    BY <1>3, <1>4
  <1>6. ASSUME NEW u \in Track PROVE Queued(trk[u], f[u], u)
    BY <1>3, <1>4, WorldTrack, SameQueued
  <1> HIDE DEF f
  <1>7. InvBut(Counted, -1, NoTrack) /\ Counted.trk = trk
    BY CountedSame
  <1>8. WInv([Counted EXCEPT !.trk = f])
    BY <1>5, <1>6, <1>7, QueuedInv
  <1> QED
    BY <1>1, <1>2, <1>8, BecomeInv

(* A mute of the focus of a kind without a track.                          *)
LEMMA ByFocusInv ==
  ASSUME NEW w, WInv(w), NEW k \in Kind, \A t \in Tracks(w) : KindOf(t) # k
  PROVE  WInv([w EXCEPT !.conf.byFocus[k] = TRUE])
  <1> DEFINE c == [w.conf EXCEPT !.byFocus[k] = TRUE]
             v == [w EXCEPT !.conf.byFocus[k] = TRUE]
  <1>1. ConfShape(c) /\ c.tracks = w.conf.tracks /\ c.astray = w.conf.astray
          /\ c.byFocus = [w.conf.byFocus EXCEPT ![k] = TRUE]
    BY DEF WInv, Shape, ConfShape
  <1>2. v.trk = w.trk /\ v.calls = w.calls /\ v.ses = w.ses /\ v.conf = c
    BY DEF WInv, Shape
  <1>3. v \in [trk : {v.trk}, conf : {v.conf}, ses : {v.ses}, calls : {v.calls}]
    BY DEF WInv, Shape
  <1> HIDE DEF c, v
  <1>4. Shape(v)
    BY <1>1, <1>2, <1>3 DEF WInv, Shape
  <1>5. Tracks(v) = Tracks(w)
    BY <1>1, <1>2 DEF Tracks
  <1>6. TracksOK(v) /\ CallsOK(v) /\ \A t \in Track : ChainOK(v.trk[t])
    BY <1>1, <1>2, <1>5 DEF WInv, TracksOK, CallsOK
  <1>7. ASSUME NEW t \in Track PROVE FocusOK(v, t)
    <2>1. FocusOK(w, t)
      BY DEF WInv
    <2>2. t \in Tracks(v) => v.conf.byFocus[KindOf(t)] = w.conf.byFocus[KindOf(t)]
      BY <1>1, <1>2, <1>5, KindType DEF WInv, Shape, ConfShape
    <2> QED
      BY <1>1, <1>2, <1>5, <2>1, <2>2 DEF FocusOK
  <1> QED
    BY <1>4, <1>6, <1>7 DEF WInv, v

LEMMA MutedByFocusInv ==
  ASSUME FocusInv, NEW k \in Kind, MutedByFocus(k)
  PROVE  FocusInv'
  <1> DEFINE T == {t \in Tracks(World) : KindOf(t) = k}
             f == [t \in Track |-> IF t \in T THEN Called(trk[t], TRUE, TRUE) ELSE trk[t]]
             g == [t \in Track |->
                     IF t \in T THEN [trk[t] EXCEPT !.chain = Append(trk[t].chain, [mute |-> TRUE, focus |-> TRUE])]
                     ELSE trk[t]]
             v == [Counted EXCEPT !.trk = f]
             w == [World EXCEPT !.conf.calls = @ + 1,
                                !.trk = [t \in Track |->
                                   IF t \in T THEN [@[t] EXCEPT !.chain = Append(trk[t].chain, [mute |-> TRUE, focus |-> TRUE])]
                                   ELSE @[t]]]
  <1>1. Become(IF T = {} THEN [w EXCEPT !.conf.byFocus[k] = TRUE] ELSE w)
    BY DEF MutedByFocus
  <1>2. w = v
    <2>1. w = [World EXCEPT !.conf.calls = @ + 1, !.trk = g]
      BY DEF World
    <2>2. f = g
      BY DEF Called
    <2> HIDE DEF f, g, w
    <2> QED
      BY <2>1, <2>2 DEF Counted, World
  <1> HIDE DEF w
  <1>3. \A t \in Track : Queued(trk[t], f[t], t)
    BY WorldTrack, CalledQueued, SameQueued
  <1>4. f \in [Track -> TrackShape]
    BY <1>3 DEF Queued
  <1> HIDE DEF f
  <1>5. InvBut(Counted, -1, NoTrack) /\ Counted.trk = trk /\ Tracks(Counted) = Tracks(World)
    BY CountedSame
  <1>6. WInv(v)
    BY <1>3, <1>4, <1>5, QueuedInv
  <1>7. v.conf = Counted.conf
    BY <1>5 DEF InvBut, Shape
  <1>8. Tracks(v) = Tracks(World)
    BY <1>5, <1>7 DEF Tracks
  <1> HIDE DEF v
  <1>9. T = {} => WInv([v EXCEPT !.conf.byFocus[k] = TRUE])
    BY <1>6, <1>8, ByFocusInv
  <1> QED
    BY <1>1, <1>2, <1>6, <1>9, BecomeInv

(* The application has no other call on the kind under way.                *)
LEMMA MayFree ==
  ASSUME FocusInv, Careful, NEW k, MayCall(k), NEW i
  PROVE  Free(Counted, i, k)
  <1> SUFFICES ASSUME NEW j \in DOMAIN calls PROVE CallKind(calls[j]) # k
    BY CountedSame DEF Free
  <1>1. CallShape(calls[j])
    BY WorldIs DEF FocusInv, WInv, CallsOK
  <1>2. \A t \in {calls[j].old, calls[j].new} \ {NoTrack} : KindOf(t) # k
    BY DEF MayCall
  <1> QED
    BY <1>1, <1>2 DEF CallShape, CallKind

(* What the application asks of the conference.                            *)
LEMMA AskedInv ==
  ASSUME FocusInv, Careful, NEW o \in MaybeTrack, NEW n \in MaybeTrack,
         o # NoTrack => trk[o].in, o # NoTrack \/ n # NoTrack,
         o # NoTrack /\ n # NoTrack => KindOf(o) = KindOf(n),
         n \notin Tracks(World), MayCall(KindOf(IF n = NoTrack THEN o ELSE n)),
         Become(DoReplace(Counted, conf.calls + 1, Asking(World, "app", FALSE, o, n, FALSE)))
  PROVE  FocusInv'
  <1> DEFINE i == conf.calls + 1
             k == KindOf(IF n = NoTrack THEN o ELSE n)
  <1>1. Free(Counted, i, k)
    BY MayFree
  <1>2. InvBut(Counted, i, NoTrack)
    BY CountedSame, InvCall
  <1>3. /\ i \in Nat /\ n \notin Tracks(Counted)
        /\ o # NoTrack => Counted.trk[o].in
    BY CountedSame
  <1>4. Asking(World, "app", FALSE, o, n, FALSE) = Asking(Counted, "app", FALSE, o, n, FALSE)
    BY CountedSame, WorldIs DEF Asking, Running
  <1> HIDE DEF i
  <1>5. WInv(DoReplace(Counted, i, Asking(Counted, "app", FALSE, o, n, FALSE)))
    BY <1>1, <1>2, <1>3, AskingDo
  <1> QED
    BY <1>4, <1>5, BecomeInv DEF i

LEMMA AddTrackInv ==
  ASSUME FocusInv, Careful, NEW t \in Track, AddTrack(t)
  PROVE  FocusInv'
  <1>1. t \in MaybeTrack /\ NoTrack \in MaybeTrack /\ t # NoTrack /\ t \notin Tracks(World)
    BY ButTrack DEF MaybeTrack, AddTrack
  <1> QED
    BY <1>1, AskedInv DEF AddTrack

LEMMA RemoveTrackInv ==
  ASSUME FocusInv, Careful, NEW t \in Track, RemoveTrack(t)
  PROVE  FocusInv'
  <1>1. t \in MaybeTrack /\ NoTrack \in MaybeTrack /\ t # NoTrack /\ NoTrack \notin Tracks(World)
    BY ButTrack, NoTrackOut DEF MaybeTrack, FocusInv, WInv
  <1> QED
    BY <1>1, AskedInv DEF RemoveTrack

LEMMA ReplaceTrackInv ==
  ASSUME FocusInv, Careful, NEW o \in Track, NEW n \in Track, ReplaceTrack(o, n)
  PROVE  FocusInv'
  <1>1. o \in MaybeTrack /\ n \in MaybeTrack /\ o # NoTrack /\ n # NoTrack
    BY ButTrack DEF MaybeTrack
  <1>2. n \notin Tracks(World)
    BY WorldTrack DEF ReplaceTrack
  <1> QED
    BY <1>1, <1>2, AskedInv DEF ReplaceTrack

LEMMA ChangeEffectInv ==
  ASSUME FocusInv, Careful, NEW t \in Track, NEW on \in BOOLEAN, ChangeEffect(t, on)
  PROVE  FocusInv'
  <1>1. Free(Counted, conf.calls + 1, KindOf(t)) /\ InvBut(Counted, conf.calls + 1, NoTrack)
    BY MayFree, CountedSame, InvCall DEF ChangeEffect
  <1>2. WInv(SetEffect(Counted, conf.calls + 1, t, on, FALSE))
    BY <1>1, CountedSame, SetEffectInv
  <1> QED
    BY <1>2, BecomeInv DEF ChangeEffect

LEMMA DisposeTrackInv ==
  ASSUME FocusInv, Careful, NEW t \in Track, DisposeTrack(t)
  PROVE  FocusInv'
  <1> DEFINE i == conf.calls + 1
             w == IF trk[t].effect THEN SetEffect(Counted, i, t, FALSE, TRUE)
                  ELSE Dispose(Counted, i, t)
             v == [w EXCEPT !.trk[t].ended = @ \/ trk[t].live]
             x == [w.trk[t] EXCEPT !.ended = @ \/ trk[t].live]
  <1>1. Free(Counted, i, KindOf(t)) /\ InvBut(Counted, i, NoTrack) /\ i \in Nat
    BY MayFree, CountedSame, InvCall DEF DisposeTrack
  <1>2. Become(v)
    BY DEF DisposeTrack
  <1>3. v = SetTrack(w, t, x)
    BY DEF SetTrack
  <1> HIDE DEF i
  <1>4. WInv(w)
    BY <1>1, DisposeInv, SetEffectInv
  <1> HIDE DEF w, v
  <1>5. InvBut(w, -1, NoTrack)
    BY <1>4, AllBut
  <1>6. w.trk[t] \in TrackShape /\ trk[t].live \in BOOLEAN
    BY <1>5, TrackAt, WorldTrack DEF TrackShape
  <1>7. x \in TrackShape /\ x.in = w.trk[t].in /\ x.chain = w.trk[t].chain
          /\ x.waits = w.trk[t].waits /\ (Muted(w.trk[t], t) => Muted(x, t))
    BY <1>6 DEF TrackShape, Muted
  <1> HIDE DEF x
  <1>8. InvBut(SetTrack(w, t, x), -1, NoTrack)
    BY <1>5, <1>7, TrackInv
  <1> QED
    BY <1>2, <1>3, <1>8, AllBut, BecomeInv

(* The sessions.                                                           *)
LEMMA SesInv ==
  ASSUME FocusInv, NEW s \in Session, NEW x, SesShape(x), Become([World EXCEPT !.ses[s] = x])
  PROVE  FocusInv'
  <1>1. Same(World, [World EXCEPT !.ses[s] = x])
    BY WorldBut, QueueSame
  <1>2. WInv([World EXCEPT !.ses[s] = x])
    BY <1>1, SameInv DEF FocusInv
  <1> QED
    BY <1>2, BecomeInv

LEMMA SesIs ==
  ASSUME FocusInv, NEW s \in Session PROVE SesShape(ses[s])
  BY WorldIs DEF FocusInv, WInv, Shape

LEMMA StartSessionInv ==
  ASSUME FocusInv, NEW s \in Session, StartSession(s)
  PROVE  FocusInv'
  <1> DEFINE op == [Operation("initial", NoTrack, NoTrack, 0) EXCEPT !.tracks = Tracks(World)]
             pending == (UNION {{calls[i].old, calls[i].new} : i \in DOMAIN calls}) \ {NoTrack}
             x == [ses[s] EXCEPT !.on = TRUE, !.starts = @ + 1, !.queue = <<op>>]
             a == [World EXCEPT !.conf.astray = @ \cup pending]
             v == [World EXCEPT !.ses[s] = x, !.conf.astray = @ \cup pending]
  <1>1. Become(v)
    BY DEF StartSession
  <1>2. SesShape(ses[s]) /\ Shape(World)
    BY SesIs, WorldBut
  <1>3. Tracks(World) \subseteq Track
    BY <1>2, TracksType
  <1>4. op \in OpShape
    BY <1>3 DEF Operation, OpShape, MaybeTrack
  <1>5. pending \subseteq Track
    <2> SUFFICES ASSUME NEW t \in pending PROVE t \in Track
      OBVIOUS
    <2>1. t # NoTrack /\ t \in UNION {{calls[i].old, calls[i].new} : i \in DOMAIN calls}
      OBVIOUS
    <2> HIDE DEF pending
    <2>2. PICK Z \in {{calls[i].old, calls[i].new} : i \in DOMAIN calls} : t \in Z
      BY <2>1
    <2>3. PICK i \in DOMAIN calls : Z = {calls[i].old, calls[i].new}
      BY <2>2
    <2>4. calls[i] \in Call
      BY WorldIs DEF FocusInv, WInv, Shape
    <2> QED
      BY <2>1, <2>2, <2>3, <2>4 DEF Call, MaybeTrack
  <1> HIDE DEF op, pending
  <1>7. <<op>> \in Seq(OpShape)
    BY <1>4
  <1>8. SesShape(x)
    <2> DEFINE y == [ses[s] EXCEPT !.on = TRUE, !.starts = @ + 1]
    <2>1. SesShape(y)
      BY <1>2 DEF SesShape
    <2>2. x = [y EXCEPT !.queue = <<op>>]
      OBVIOUS
    <2> HIDE DEF x, y
    <2> QED
      BY <1>7, <2>1, <2>2 DEF SesShape
  <1>9. v = [a EXCEPT !.ses[s] = x]
    <2> HIDE DEF x
    <2> QED
      BY DEF World
  <1> HIDE DEF x, v
  <1>10. Same(World, a)
    BY <1>2, <1>5, AstraySame
  <1> HIDE DEF a
  <1>11. Shape(a)
    BY <1>10 DEF Same
  <1>12. Same(a, [a EXCEPT !.ses[s] = x])
    BY <1>8, <1>11, QueueSame
  <1>13. WInv(v)
    BY <1>9, <1>10, <1>12, SameInv DEF FocusInv
  <1> QED
    BY <1>1, <1>13, BecomeInv

LEMMA RunOpInv ==
  ASSUME FocusInv, NEW s \in Session, RunOp(s)
  PROVE  FocusInv'
  <1>1. ses[s].queue # <<>> /\ ses[s].queue \in Seq(OpShape)
    BY SesIs DEF RunOp, SesShape
  <1>2. Head(ses[s].queue) \in OpShape
    BY <1>1, HeadType
  <1>3. WInv(RunOperation(World, s, Head(ses[s].queue)))
    BY <1>1, <1>2, OperationInv, WorldIs DEF FocusInv
  <1> QED
    BY <1>3, BecomeInv DEF RunOp

LEMMA RenegotiateInv ==
  ASSUME FocusInv, NEW s \in Session, Renegotiate(s)
  PROVE  FocusInv'
  <1> DEFINE x == Renegotiated(ses[s])
  <1>1. [World EXCEPT !.ses[s] = Renegotiated(@)] = [World EXCEPT !.ses[s] = x]
    BY DEF World
  <1>2. SesShape(x)
    BY SesIs DEF Renegotiated, SesShape
  <1>3. Become([World EXCEPT !.ses[s] = x])
    BY <1>1 DEF Renegotiate
  <1> HIDE DEF x
  <1> QED
    BY <1>2, <1>3, SesInv

LEMMA AcknowledgeInv ==
  ASSUME FocusInv, NEW s \in Session, Acknowledge(s)
  PROVE  FocusInv'
  <1> DEFINE x == [ses[s] EXCEPT !.acks = @ - 1]
             v == [World EXCEPT !.ses[s].acks = @ - 1]
  <1>1. v = [World EXCEPT !.ses[s] = x]
    BY DEF World
  <1>2. SesShape(x)
    BY SesIs DEF SesShape
  <1>3. Become(UpdateRoomPresence(v, s))
    BY DEF Acknowledge
  <1> HIDE DEF x, v
  <1>4. Same(World, v)
    BY <1>1, <1>2, WorldBut, QueueSame
  <1>5. Same(v, UpdateRoomPresence(v, s))
    BY <1>4, UpdateSame DEF Same
  <1>6. WInv(UpdateRoomPresence(v, s))
    BY <1>4, <1>5, SameInv DEF FocusInv
  <1> QED
    BY <1>3, <1>6, BecomeInv

LEMMA IceConnectedInv ==
  ASSUME FocusInv, NEW s \in Session, IceConnected(s)
  PROVE  FocusInv'
  <1> DEFINE x == [ses[s] EXCEPT !.active = TRUE]
  <1>1. [World EXCEPT !.ses[s].active = TRUE] = [World EXCEPT !.ses[s] = x]
    BY DEF World
  <1>2. SesShape(x)
    BY SesIs DEF SesShape
  <1>3. Become([World EXCEPT !.ses[s] = x])
    BY <1>1 DEF IceConnected
  <1> HIDE DEF x
  <1> QED
    BY <1>2, <1>3, SesInv

LEMMA EndSessionInv ==
  ASSUME FocusInv, NEW s \in Session, EndSession(s)
  PROVE  FocusInv'
  <1> DEFINE x == [Closed EXCEPT !.starts = ses[s].starts]
  <1>1. <<>> \in Seq(OpShape)
    OBVIOUS
  <1>2. SesShape(x)
    BY <1>1 DEF Closed, SesShape
  <1>3. Become([World EXCEPT !.ses[s] = x])
    BY DEF EndSession
  <1> HIDE DEF x
  <1> QED
    BY <1>2, <1>3, SesInv

-----------------------------------------------------------------------------
(***************************************************************************)
(* The theorem.                                                            *)
(***************************************************************************)

LEMMA FocusInit ==
  ASSUME Init PROVE FocusInv
  <1> DEFINE w == World
  <1>1. w.trk = trk /\ w.conf = conf /\ w.ses = ses /\ w.calls = calls
          /\ w \in [trk : {w.trk}, conf : {w.conf}, ses : {w.ses}, calls : {w.calls}]
    BY DEF World
  <1>2. /\ calls = [i \in {} |-> {}] /\ DOMAIN calls = {}
    BY DEF Init
  <1>3. /\ conf.tracks = Present /\ conf.byFocus = [k \in Kind |-> FALSE]
        /\ ConfShape(conf)
    BY LocalTracksAssumption DEF Init, ConfShape
  <1>4. \A s \in Session : ses[s] = Closed
    BY DEF Init
  <1>5. SesShape(Closed)
    <2>1. <<>> \in Seq(OpShape)
      OBVIOUS
    <2> QED
      BY <2>1 DEF Closed, SesShape
  <1>6. ses \in [Session -> {ses[s] : s \in Session}]
    BY DEF Init
  <1>7. ASSUME NEW t \in Track
        PROVE  /\ trk[t] \in TrackShape /\ trk[t].in = (t \in ToSet(Present))
               /\ trk[t].chain = <<>> /\ trk[t].waits = "no"
    <2>1. <<>> \in Seq([mute : BOOLEAN, focus : BOOLEAN])
      OBVIOUS
    <2> QED
      BY <2>1 DEF Init, TrackShape
  <1>8. trk \in [Track -> TrackShape]
    BY <1>7 DEF Init
  <1>9. calls \in [DOMAIN calls -> Call] /\ DOMAIN calls \subseteq Nat
    BY <1>2
  <1> HIDE DEF w
  <1>10. Shape(w)
    BY <1>1, <1>3, <1>4, <1>5, <1>6, <1>8, <1>9 DEF Shape
  <1>11. TracksOK(w)
    BY <1>1, <1>3, <1>7, LocalTracksAssumption DEF TracksOK, Tracks
  <1>12. \A t \in Track : ChainOK(w.trk[t])
    BY <1>1, <1>7 DEF ChainOK
  <1>13. CallsOK(w)
    BY <1>1, <1>2 DEF CallsOK
  <1>14. \A t \in Track : FocusOK(w, t)
    BY <1>1, <1>3, KindType DEF FocusOK
  <1> QED
    BY <1>10, <1>11, <1>12, <1>13, <1>14 DEF FocusInv, WInv, w

LEMMA FocusNext ==
  ASSUME Careful, FocusInv, [Next]_vars PROVE FocusInv'
  <1>1. ASSUME NEW t \in Track, ChainStep(t) \/ DeviceOk(t) \/ DeviceFails(t) PROVE FocusInv'
    BY <1>1, ChainStepInv, DeviceOkInv, DeviceFailsInv
  <1>2. ASSUME NEW i \in DOMAIN calls, CallStep(i) PROVE FocusInv'
    BY <1>2, CallStepInv
  <1>3. ASSUME NEW t \in Track, NEW on \in BOOLEAN, SetMuted(t, on) \/ ChangeEffect(t, on)
        PROVE  FocusInv'
    BY <1>3, SetMutedInv, ChangeEffectInv
  <1>4. ASSUME NEW k \in Kind, MutedByFocus(k) PROVE FocusInv'
    BY <1>4, MutedByFocusInv
  <1>5. ASSUME NEW t \in Track, AddTrack(t) \/ RemoveTrack(t) \/ DisposeTrack(t) PROVE FocusInv'
    BY <1>5, AddTrackInv, RemoveTrackInv, DisposeTrackInv
  <1>6. ASSUME NEW o \in Track, NEW n \in Track, ReplaceTrack(o, n) PROVE FocusInv'
    BY <1>6, ReplaceTrackInv
  <1>7. ASSUME NEW s \in Session,
               \/ StartSession(s) \/ RunOp(s) \/ Renegotiate(s)
               \/ Acknowledge(s) \/ IceConnected(s) \/ EndSession(s)
        PROVE  FocusInv'
    BY <1>7, StartSessionInv, RunOpInv, RenegotiateInv, AcknowledgeInv, IceConnectedInv,
       EndSessionInv
  <1>8. CASE UNCHANGED vars
    <2>1. World' = World
      BY <1>8 DEF vars, World
    <2> QED
      BY <2>1 DEF FocusInv
  <1> QED
    BY <1>1, <1>2, <1>3, <1>4, <1>5, <1>6, <1>7, <1>8 DEF Next

(* What nobody waits for is muted.                                         *)
LEMMA FocusQuiet ==
  ASSUME FocusInv PROVE FocusMuteHolds
  <1> SUFFICES ASSUME Quiet, NEW t \in Tracks(World) \ conf.astray, conf.byFocus[KindOf(t)]
               PROVE  Muted(trk[t], t)
    BY DEF FocusMuteHolds
  <1>1. t \in Track
    BY TracksType DEF FocusInv, WInv
  <1>2. ChainOK(trk[t]) /\ trk[t].chain = <<>>
    BY <1>1, WorldTrack DEF Quiet
  <1>3. ~Unmuting(trk[t])
    BY <1>2 DEF ChainOK, Unmuting
  <1>4. FocusOK(World, t)
    BY <1>1 DEF FocusInv, WInv
  <1> QED
    BY <1>3, <1>4, WorldIs DEF FocusOK

(* When the application waits for a call on a kind before the next, a kind *)
(* that the focus muted and nobody unmuted since has no track that is      *)
(* heard or seen once nothing is under way: a track that is added, or that *)
(* takes the place of another, or is unmuted while the sessions are still  *)
(* starting, ends the mute of the focus or is muted itself                 *)
(* (isMutedByFocus, _fireMuteChangeEvent, replaceTrack).                   *)
THEOREM FocusMuted == Careful => (Spec => []FocusMuteHolds)
  <1> SUFFICES ASSUME Careful PROVE Spec => []FocusMuteHolds
    OBVIOUS
  <1>1. Init => FocusInv
    BY FocusInit
  <1>2. FocusInv /\ [Next]_vars => FocusInv'
    BY FocusNext
  <1>3. FocusInv => FocusMuteHolds
    BY FocusQuiet
  <1> QED
    BY <1>1, <1>2, <1>3, PTL DEF Spec

=============================================================================
