-------------------------- MODULE P2PConferenceProofs --------------------------
(***************************************************************************)
(* Proofs about P2PConference, for every set of endpoints, whichever of    *)
(* them can do P2P, are bots first or encrypt, and for all faults.         *)
(***************************************************************************)
EXTENDS P2PConference, TLAPS, SequenceTheorems, FiniteSetTheorems

-----------------------------------------------------------------------------
(* The inductive invariant, of one conference.                             *)

Arrivals == {"join", "bot"}
Calls == {"initiate", "accept", "terminate"}

(* A P2P session of e: the smaller of two ids invites the other.           *)
Between(e, s) == s \in Session /\ s.by < s.to /\ e \in {s.by, s.to}

(* What belongs together in the fields of a conference.                    *)
StateOK(e, c) ==
  /\ c.peers \subseteq Endpoint \ {e} /\ c.bots \subseteq c.peers
  /\ (c.session = None) <=> (c.phase = "none")
  /\ c.session # None => Between(e, c.session) /\ e \in Capable
  /\ c.phase \in {"inviting", "offered"} => c.session.by = e
  /\ c.phase = "accepting" => c.session.to = e
  /\ \A s \in c.late : Between(e, s) /\ s.by = e
  /\ c.deferred # None => e < c.deferred /\ e \in Capable
  /\ c.e2ee \/ c.switching => c.toggles > 0
  /\ c.outdated => c.toggles > 0

(* The body of P2POnlyForTwo.                                              *)
OnlyOK(e, c) ==
  c.session # None /\ ~c.e2ee /\ ~c.switching /\ ~c.outdated =>
    c.peers = {Other(e, c.session)} /\ c.bots = {}

(* The body of DeferredIsCurrent; nor is the participant a bot.            *)
DeferredOK(c) ==
  c.deferred # None /\ c.toggles = 0 =>
    c.peers = {c.deferred} /\ c.bots = {} /\ c.session = None

(* The body of ActiveTracksShown, with what holds of the tracks of either  *)
(* connection while the JVB session closes or its tracks are left aside.   *)
TracksOK(e, c) ==
  /\ c.p2p => c.phase = "negotiated" /\ ~c.parked
  /\ c.p2pTracks \subseteq IF c.session = None THEN {} ELSE {Other(e, c.session)}
  /\ \A q \in Endpoint : <<"p2p", q>> \in c.shown <=> c.p2p /\ q \in c.p2pTracks \cap c.peers
  /\ \A q \in Endpoint : <<"jvb", q>> \in c.shown => q \in c.jvbTracks \cap c.peers
  /\ ~Closing(c) /\ ~c.parked =>
       \A q \in Endpoint : <<"jvb", q>> \in c.shown <=> ~c.p2p /\ q \in c.jvbTracks \cap c.peers

(* The body of MediaOnOneConnection, and what the JVB session accepts with.*)
MediaOK(c) ==
  /\ c.jvb = "live" /\ ~c.parked => (c.jvbMedia <=> ~c.p2p)
  /\ c.jvb = "accepting" /\ ~c.parked /\ ~c.p2p => c.jvbMedia

(* Those whose presence e has seen.                                        *)
Met(e, c) ==
  c.peers \cup c.jvbTracks \cup ({c.deferred} \ {None})
    \cup IF c.session = None THEN {} ELSE {Other(e, c.session)}

Good(e, c) ==
  StateOK(e, c) /\ OnlyOK(e, c) /\ DeferredOK(c) /\ TracksOK(e, c) /\ MediaOK(c)

ConferenceOK ==
  \A e \in Endpoint :
    /\ Here(e) => Good(e, conf[e])
    /\ room[e] \in {"out", "bot"} => conf[e] = NewConference
    /\ room[e] = "left" =>
         conf[e] = [NewConference EXCEPT !.p2p = conf[e].p2p, !.deferred = conf[e].deferred]

-----------------------------------------------------------------------------
(* ... of the stanzas on their way.                                        *)

MessageOK(e, m) ==
  /\ m.from # e /\ room[m.from] # "out"
  /\ m.type = "leave" => room[m.from] = "left"
  /\ m.type \in Calls => Between(e, m.session) /\ m.from = Other(e, m.session)
  /\ m.type = "initiate" => m.session.by = m.from
  /\ m.type = "accept" => m.session.by = e

(* What a box has from somebody begins with its arrival and ends with its  *)
(* leave, ...                                                              *)
Ordered(box) ==
  \A i, j \in DOMAIN box :
    i < j /\ box[i].from = box[j].from => box[i].type # "leave" /\ box[j].type \notin Arrivals

Announced(box, q, j) == \E i \in 1 .. j : box[i].type \in Arrivals /\ box[i].from = q

(* ... what is from somebody the conference does not know comes after an   *)
(* arrival, which is news to it, ...                                       *)
Introduced(e, c, box) ==
  \A j \in DOMAIN box :
    /\ box[j].from \in c.peers \/ Announced(box, box[j].from, j)
    /\ box[j].type \in Arrivals => box[j].from \notin Met(e, c)

(* ... and e knows of everybody who is there, or is about to.              *)
Informed(e, c, box) ==
  /\ Here(e) => \A q \in Occupants \ {e} : q \in c.peers \/ Announced(box, q, Len(box))
  /\ \A q \in Endpoint : room[q] = "out" => q \notin Met(e, c)

Stream(e) ==
  /\ ~Here(e) => inbox[e] = <<>>
  /\ \A i \in DOMAIN inbox[e] : MessageOK(e, inbox[e][i])
  /\ Ordered(inbox[e]) /\ Introduced(e, conf[e], inbox[e]) /\ Informed(e, conf[e], inbox[e])

StreamOK == \A e \in Endpoint : Stream(e)

LocalInv == TypeOK /\ ConferenceOK /\ StreamOK

-----------------------------------------------------------------------------
(* Lemmas about the pieces of the handlers.                                *)

(* What holds of a conference in the middle of a handler.                  *)
Sound(e, c) == c \in Conference /\ StateOK(e, c) /\ TracksOK(e, c) /\ MediaOK(c)

(* What the handlers leave alone when they only start and stop sessions.   *)
SameRoom(c, d) ==
  /\ d.peers = c.peers /\ d.bots = c.bots /\ d.e2ee = c.e2ee /\ d.toggles = c.toggles
  /\ d.switching = c.switching /\ d.jvb = c.jvb /\ d.jvbTracks = c.jvbTracks

LEMMA StoppedFields ==
  ASSUME NEW c \in Conference, NEW restart \in BOOLEAN, c.session # None
  PROVE  LET d == StopP2PSession(c, restart)
             back == c.p2p /\ c.jvb # "none" /\ ~restart
         IN  /\ d \in Conference /\ SameRoom(c, d)
             /\ d.session = None /\ d.phase = "none" /\ d.p2p = FALSE /\ d.p2pTracks = {}
             /\ d.deferred = c.deferred /\ d.made = c.made /\ d.outdated = FALSE
             /\ (d.jvbMedia <=> c.jvbMedia \/ back)
             /\ d.late = IF c.phase = "inviting" THEN c.late \cup {c.session} ELSE c.late
             /\ (d.parked <=> ~back /\ (c.parked \/ (c.p2p /\ c.jvb # "none" /\ restart)))
             /\ LET rest == c.shown \ ({"p2p"} \X c.p2pTracks)
                IN  d.shown = IF back THEN rest \cup ({"jvb"} \X (c.jvbTracks \cap c.peers)) ELSE rest
<1> DEFINE back == c.p2p /\ c.jvb # "none" /\ ~restart
           aside == c.parked \/ (c.p2p /\ c.jvb # "none" /\ restart)
           late == IF c.phase = "inviting" THEN c.late \cup {c.session} ELSE c.late
           rest == c.shown \ ({"p2p"} \X c.p2pTracks)
           media == IF back THEN [c EXCEPT !.jvbMedia = TRUE] ELSE c
           gone == [media EXCEPT !.shown = @ \ ({"p2p"} \X c.p2pTracks)]
           off == [gone EXCEPT !.p2p = FALSE]
           d == [off EXCEPT !.session = None, !.phase = "none", !.p2pTracks = {}, !.outdated = FALSE,
                            !.late = late, !.stale = TRUE, !.parked = aside]
           shown == d.shown \cup ({"jvb"} \X (c.jvbTracks \cap c.peers))
           b == [[d EXCEPT !.shown = shown] EXCEPT !.parked = FALSE]
<1> DEFINE Same(x) == /\ SameRoom(c, x) /\ x.p2pTracks = c.p2pTracks /\ x.late = c.late
                      /\ x.parked = c.parked /\ x.deferred = c.deferred /\ x.made = c.made
                      /\ x.phase = c.phase /\ x.session = c.session
                      /\ (x.jvbMedia <=> c.jvbMedia \/ back)
<1>1. /\ late \in SUBSET Session /\ aside \in BOOLEAN
      /\ rest \in SUBSET ({"jvb", "p2p"} \X Endpoint)
  BY DEF Conference
<1>2. media \in Conference /\ Same(media) /\ media.shown = c.shown
  <2>1. CASE back
    BY <2>1 DEF Conference, SameRoom
  <2>2. CASE ~back
    BY <2>2 DEF SameRoom
  <2>3. QED
    BY <2>1, <2>2
<1>3. gone = [media EXCEPT !.shown = rest]
  BY <1>2
<1>4. media = IF back THEN ResumeJvbMedia(c) ELSE c
  BY DEF ResumeJvbMedia
<1> HIDE DEF rest, media, back
<1>5. RemoveRemoteTracks(media, "p2p") = gone
  BY <1>2, <1>3 DEF RemoveRemoteTracks, Removed, TracksOf, gone
<1> HIDE DEF gone
<1>6. off \in Conference /\ Same(off) /\ off.shown = rest /\ off.p2p = FALSE
  BY <1>1, <1>2, <1>3, ZenonT(60) DEF Conference, SameRoom
<1>7. StopP2PSession(c, restart) = IF back THEN b ELSE d
  <2>1. d = [SetP2PStatus(RemoveRemoteTracks(media, "p2p"), FALSE) EXCEPT
              !.session = None, !.phase = "none", !.p2pTracks = {}, !.outdated = FALSE,
              !.late = IF c.phase = "inviting" THEN @ \cup {c.session} ELSE @,
              !.stale = TRUE,
              !.parked = @ \/ (c.p2p /\ c.jvb # "none" /\ restart)]
    BY <1>5, <1>6 DEF SetP2PStatus
  <2>2. d.p2p = FALSE /\ d.jvbTracks = c.jvbTracks /\ d.peers = c.peers
    BY <1>6 DEF Conference, SameRoom
  <2> HIDE DEF d
  <2>3. AddRemoteTracks(d, "jvb") = [d EXCEPT !.shown = shown]
    BY <2>2 DEF AddRemoteTracks, Added, TracksOf
  <2>4. back <=> c.p2p /\ c.jvb # "none" /\ ~restart
    BY DEF back
  <2>5. QED
    BY <1>4, <2>1, <2>3, <2>4 DEF StopP2PSession
<1> HIDE DEF off, late, aside
<1>8. d \in Conference
  BY <1>1, <1>6 DEF Conference
<1>9. /\ SameRoom(c, d)
      /\ d.session = None /\ d.phase = "none" /\ d.p2p = FALSE /\ d.p2pTracks = {}
      /\ d.deferred = c.deferred /\ d.made = c.made /\ d.outdated = FALSE
      /\ (d.jvbMedia <=> c.jvbMedia \/ back)
      /\ d.late = late /\ d.parked = aside /\ d.shown = rest
  BY <1>6 DEF Conference, SameRoom
<1> HIDE DEF d
<1>10. shown \in SUBSET ({"jvb", "p2p"} \X Endpoint)
  BY <1>8 DEF Conference
<1> HIDE DEF shown
<1>11. b \in Conference
  BY <1>8, <1>10 DEF Conference
<1>12. /\ SameRoom(d, b) /\ b.session = d.session /\ b.phase = d.phase /\ b.p2p = d.p2p
       /\ b.p2pTracks = d.p2pTracks /\ b.deferred = d.deferred /\ b.made = d.made
       /\ b.outdated = d.outdated /\ b.jvbMedia = d.jvbMedia /\ b.late = d.late
       /\ b.parked = FALSE /\ b.shown = shown
  BY <1>8 DEF SameRoom, Conference
<1> DEFINE x == StopP2PSession(c, restart)
<1>13. /\ x \in Conference /\ SameRoom(c, x) /\ x.session = None /\ x.phase = "none"
       /\ x.p2p = FALSE /\ x.p2pTracks = {} /\ x.deferred = c.deferred /\ x.made = c.made
       /\ x.outdated = FALSE /\ x.late = late /\ (x.jvbMedia <=> c.jvbMedia \/ back)
  BY <1>7, <1>8, <1>9, <1>11, <1>12 DEF SameRoom
<1>14. x.parked = IF back THEN FALSE ELSE aside
  BY <1>7, <1>9, <1>12
<1>15. x.shown = IF back THEN shown ELSE rest
  BY <1>7, <1>9, <1>12
<1>16. shown = rest \cup ({"jvb"} \X (c.jvbTracks \cap c.peers))
  BY <1>9 DEF shown
<1>17. QED
  BY <1>13, <1>14, <1>15, <1>16 DEF back, aside, late, rest

LEMMA StoppedSound ==
  ASSUME NEW e \in Endpoint, NEW c, Sound(e, c), NEW restart \in BOOLEAN, c.session # None
  PROVE  Sound(e, StopP2PSession(c, restart))
<1> DEFINE d == StopP2PSession(c, restart)
           back == c.p2p /\ c.jvb # "none" /\ ~restart
<1>1. c \in Conference /\ StateOK(e, c) /\ TracksOK(e, c) /\ MediaOK(c)
  BY DEF Sound
<1>2. /\ d \in Conference /\ SameRoom(c, d)
      /\ d.session = None /\ d.phase = "none" /\ d.p2p = FALSE /\ d.p2pTracks = {}
      /\ d.deferred = c.deferred /\ d.made = c.made /\ d.outdated = FALSE
      /\ (d.jvbMedia <=> c.jvbMedia \/ back)
      /\ d.late = IF c.phase = "inviting" THEN c.late \cup {c.session} ELSE c.late
      /\ (d.parked <=> ~back /\ (c.parked \/ (c.p2p /\ c.jvb # "none" /\ restart)))
  BY <1>1, StoppedFields
<1>3. LET rest == c.shown \ ({"p2p"} \X c.p2pTracks)
      IN  d.shown = IF back THEN rest \cup ({"jvb"} \X (c.jvbTracks \cap c.peers)) ELSE rest
  BY <1>1, StoppedFields
<1> HIDE DEF d
<1>4. StateOK(e, d)
  BY <1>1, <1>2 DEF StateOK, SameRoom
<1>5. \A q \in Endpoint : <<"p2p", q>> \notin d.shown
  <2>1. \A q \in Endpoint : <<"p2p", q>> \in d.shown =>
          <<"p2p", q>> \in c.shown /\ q \notin c.p2pTracks
    BY <1>3
  <2>2. QED
    BY <1>1, <2>1 DEF TracksOK
<1>6. \A q \in Endpoint :
        <<"jvb", q>> \in d.shown <=>
          \/ <<"jvb", q>> \in c.shown
          \/ back /\ q \in c.jvbTracks \cap c.peers
  BY <1>3
<1>7. TracksOK(e, d)
  <2>1. \A q \in Endpoint : <<"jvb", q>> \in d.shown => q \in d.jvbTracks \cap d.peers
    BY <1>1, <1>2, <1>6 DEF TracksOK, SameRoom
  <2>2. ASSUME ~Closing(d), ~d.parked, NEW q \in Endpoint
        PROVE  <<"jvb", q>> \in d.shown <=> q \in d.jvbTracks \cap d.peers
    BY <1>1, <1>2, <1>6, <2>1, <2>2 DEF TracksOK, SameRoom, Closing
  <2>3. QED
    BY <1>2, <1>5, <2>1, <2>2 DEF TracksOK
<1>8. MediaOK(d)
  BY <1>1, <1>2 DEF MediaOK, SameRoom
<1>9. QED
  BY <1>2, <1>4, <1>7, <1>8 DEF Sound, d

LEMMA StartedFields ==
  ASSUME NEW e \in Endpoint, NEW q \in Endpoint, NEW c \in Conference
  PROVE  LET d == StartP2PSession(e, c, q)
             s == [by |-> e, to |-> q, n |-> c.made]
         IN  /\ d \in Conference /\ SameRoom(c, d)
             /\ d.deferred = None /\ d.p2p = c.p2p /\ d.late = c.late /\ d.parked = c.parked
             /\ d.jvbMedia = c.jvbMedia /\ d.shown = c.shown /\ d.outdated = c.outdated
             /\ c.session # None =>
                  d.session = c.session /\ d.phase = c.phase /\ d.made = c.made
                  /\ d.p2pTracks = c.p2pTracks
             /\ c.session = None =>
                  d.session = s /\ s \in Session /\ d.phase = "inviting" /\ d.made = c.made + 1
                  /\ d.p2pTracks = {}
<1> DEFINE d == [c EXCEPT !.deferred = None]
           s == [by |-> e, to |-> q, n |-> c.made]
           b == [d EXCEPT !.session = s, !.made = @ + 1, !.phase = "inviting", !.p2pTracks = {}]
<1>1. s \in Session
  BY DEF Session, Conference
<1>2. /\ d \in Conference /\ SameRoom(c, d)
      /\ d.deferred = None /\ d.p2p = c.p2p /\ d.late = c.late /\ d.parked = c.parked
      /\ d.jvbMedia = c.jvbMedia /\ d.shown = c.shown /\ d.outdated = c.outdated
      /\ d.session = c.session /\ d.phase = c.phase /\ d.made = c.made
      /\ d.p2pTracks = c.p2pTracks
  BY DEF Conference, SameRoom
<1>3. StartP2PSession(e, c, q) = IF c.session # None THEN d ELSE b
  BY DEF StartP2PSession, ClearDeferredStart
<1> HIDE DEF d, s
<1>4. b \in Conference
  <2>1. d.made + 1 \in Nat
    BY <1>2 DEF Conference
  <2>2. QED
    BY <1>1, <1>2, <2>1, ZenonT(60) DEF Conference
<1>8. /\ SameRoom(c, b)
      /\ b.deferred = None /\ b.p2p = c.p2p /\ b.late = c.late /\ b.parked = c.parked
      /\ b.jvbMedia = c.jvbMedia /\ b.shown = c.shown /\ b.outdated = c.outdated
      /\ b.session = s /\ b.phase = "inviting" /\ b.made = c.made + 1 /\ b.p2pTracks = {}
  BY <1>1, <1>2 DEF Conference, SameRoom
<1> HIDE DEF b
<1>5. CASE c.session # None
  BY <1>2, <1>3, <1>5 DEF s
<1>6. CASE c.session = None
  BY <1>1, <1>3, <1>4, <1>8, <1>6 DEF s
<1>7. QED
  BY <1>5, <1>6

LEMMA StartedSound ==
  ASSUME NEW e \in Endpoint, NEW q \in Endpoint, e < q, e \in Capable, NEW c, Sound(e, c)
  PROVE  Sound(e, StartP2PSession(e, c, q))
<1> DEFINE d == StartP2PSession(e, c, q)
           s == [by |-> e, to |-> q, n |-> c.made]
<1>1. c \in Conference /\ StateOK(e, c) /\ TracksOK(e, c) /\ MediaOK(c)
  BY DEF Sound
<1>2. /\ d \in Conference /\ SameRoom(c, d)
      /\ d.deferred = None /\ d.p2p = c.p2p /\ d.late = c.late /\ d.parked = c.parked
      /\ d.jvbMedia = c.jvbMedia /\ d.shown = c.shown /\ d.outdated = c.outdated
      /\ c.session # None => d.session = c.session /\ d.phase = c.phase /\ d.p2pTracks = c.p2pTracks
      /\ c.session = None =>
           d.session = s /\ s \in Session /\ d.phase = "inviting" /\ d.p2pTracks = {}
  BY <1>1, StartedFields
<1>3. s \in Session => s # None /\ Between(e, s) /\ s.by = e
  BY NoneAssumption DEF Session, Between
<1> HIDE DEF d, s
<1>4. StateOK(e, d)
  <2>1. CASE c.session = None
    BY <1>1, <1>2, <1>3, <2>1 DEF StateOK, SameRoom
  <2>2. CASE c.session # None
    BY <1>1, <1>2, <2>2 DEF StateOK, SameRoom
  <2>3. QED
    BY <2>1, <2>2
<1>5. TracksOK(e, d)
  <2>1. CASE c.session = None
    <3>1. ~c.p2p /\ c.p2pTracks = {}
      BY <1>1, <2>1 DEF TracksOK, StateOK
    <3>2. QED
      BY <1>1, <1>2, <2>1, <3>1 DEF TracksOK, SameRoom, Closing
  <2>2. CASE c.session # None
    BY <1>1, <1>2, <2>2 DEF TracksOK, SameRoom, Closing
  <2>3. QED
    BY <2>1, <2>2
<1>6. MediaOK(d)
  BY <1>1, <1>2 DEF MediaOK, SameRoom
<1>7. QED
  BY <1>2, <1>4, <1>5, <1>6 DEF Sound, d

(* What a handler may make of the session: it goes on, it is given up, or  *)
(* the next one begins.                                                    *)
Keeps(c, d) ==
  d.session = c.session /\ d.phase = c.phase /\ d.late = c.late /\ d.made = c.made /\ d.p2p = c.p2p
Drops(c, d) ==
  /\ c.session # None /\ d.session = None /\ d.phase = "none" /\ d.made = c.made /\ d.p2p = FALSE
  /\ d.late = IF c.phase = "inviting" THEN c.late \cup {c.session} ELSE c.late
Begins(e, c, d) ==
  /\ c.session = None /\ d.phase = "inviting" /\ d.made = c.made + 1 /\ d.late = c.late
  /\ d.p2p = c.p2p
  /\ \E q \in c.peers : e < q /\ d.session = [by |-> e, to |-> q, n |-> c.made]

(* What _maybeStartOrStopP2P relies on when it looks at the participants.  *)
Expected(e, c) ==
  ShouldBeInP2PMode(c) =>
    /\ c.session # None /\ ~c.e2ee /\ ~c.switching /\ ~c.outdated =>
         c.peers = {Other(e, c.session)}
    /\ c.deferred # None /\ c.toggles = 0 => c.peers = {c.deferred} /\ c.session = None

LEMMA OnePeer ==
  ASSUME NEW S \in SUBSET Endpoint, Cardinality(S) = 1
  PROVE  \E q \in Endpoint : S = {q}
<1>1. IsFiniteSet(S)
  BY EndpointAssumption, FS_Subset
<1>2. QED
  BY <1>1, FS_Singleton

LEMMA ShouldBePeer ==
  ASSUME NEW e \in Endpoint, NEW c, Sound(e, c), ShouldBeInP2PMode(c)
  PROVE  /\ ThePeer(c) \in Endpoint /\ c.peers = {ThePeer(c)} /\ c.bots = {}
         /\ e # ThePeer(c)
<1>1. c.peers \in SUBSET Endpoint /\ e \notin c.peers /\ c.bots \subseteq c.peers
  BY DEF Sound, StateOK
<1>2. PICK q \in Endpoint : c.peers = {q}
  BY <1>1, OnePeer DEF ShouldBeInP2PMode
<1>3. ThePeer(c) = q
  BY <1>2 DEF ThePeer
<1>4. QED
  BY <1>1, <1>2, <1>3 DEF ShouldBeInP2PMode

LEMMA ClearedFields ==
  ASSUME NEW e \in Endpoint, NEW c, Sound(e, c)
  PROVE  LET d == ClearDeferredStart(c)
         IN  /\ Sound(e, d) /\ SameRoom(c, d) /\ Keeps(c, d) /\ d.deferred = None
             /\ d.outdated = c.outdated /\ d.parked = c.parked
<1> DEFINE d == ClearDeferredStart(c)
<1>1. /\ d \in Conference /\ SameRoom(c, d) /\ Keeps(c, d) /\ d.deferred = None
      /\ d.outdated = c.outdated /\ d.parked = c.parked /\ d.jvbMedia = c.jvbMedia
      /\ d.shown = c.shown /\ d.p2pTracks = c.p2pTracks
  BY DEF ClearDeferredStart, SameRoom, Keeps, Sound, Conference
<1> HIDE DEF d
<1>2. StateOK(e, d)
  BY <1>1 DEF Sound, StateOK, SameRoom, Keeps
<1>3. TracksOK(e, d) /\ MediaOK(d)
  BY <1>1 DEF Sound, TracksOK, MediaOK, Closing, SameRoom, Keeps
<1>4. QED
  BY <1>1, <1>2, <1>3 DEF Sound, d

LEMMA DeferredSound ==
  ASSUME NEW e \in Endpoint, NEW q \in Endpoint, e < q, e \in Capable, NEW c, Sound(e, c)
  PROVE  LET d == [c EXCEPT !.deferred = q]
         IN  /\ Sound(e, d) /\ SameRoom(c, d) /\ Keeps(c, d) /\ d.deferred = q
             /\ d.outdated = c.outdated
<1> DEFINE d == [c EXCEPT !.deferred = q]
<1>1. /\ d \in Conference /\ SameRoom(c, d) /\ Keeps(c, d) /\ d.deferred = q
      /\ d.outdated = c.outdated /\ d.parked = c.parked /\ d.jvbMedia = c.jvbMedia
      /\ d.shown = c.shown /\ d.p2pTracks = c.p2pTracks
  BY DEF SameRoom, Keeps, Sound, Conference
<1> HIDE DEF d
<1>2. StateOK(e, d)
  BY <1>1 DEF Sound, StateOK, SameRoom, Keeps
<1>3. TracksOK(e, d) /\ MediaOK(d)
  BY <1>1 DEF Sound, TracksOK, MediaOK, Closing, SameRoom, Keeps
<1>4. QED
  BY <1>1, <1>2, <1>3 DEF Sound, d

LEMMA MaybeSound ==
  ASSUME NEW e \in Endpoint, NEW c, Sound(e, c), Expected(e, c), NEW userLeft \in BOOLEAN
  PROVE  LET d == MaybeStartOrStopP2P(e, c, userLeft)
         IN  /\ Sound(e, d) /\ OnlyOK(e, d) /\ DeferredOK(d)
             /\ SameRoom(c, d) /\ (d.deferred = c.deferred \/ d.deferred \in c.peers \cup {None})
             /\ Keeps(c, d) \/ Drops(c, d) \/ Begins(e, c, d)
<1> DEFINE d == MaybeStartOrStopP2P(e, c, userLeft)
           q == ThePeer(c)
<1>1. c \in Conference /\ StateOK(e, c)
  BY DEF Sound
<1>2. CASE e \notin Capable \/ c.e2ee
  <2>1. d = c
    BY <1>2 DEF MaybeStartOrStopP2P
  <2>2. OnlyOK(e, c) /\ DeferredOK(c)
    BY <1>1, <1>2 DEF StateOK, OnlyOK, DeferredOK, Conference
  <2>3. SameRoom(c, c) /\ Keeps(c, c)
    BY DEF SameRoom, Keeps
  <2>4. QED
    BY <2>1, <2>2, <2>3
<1>3. CASE e \in Capable /\ ~c.e2ee /\ ShouldBeInP2PMode(c)
  <2>1. q \in Endpoint /\ c.peers = {q} /\ c.bots = {} /\ e # q
    BY <1>3, ShouldBePeer
  <2>2. CASE c.session # None
    <3>1. d = c
      BY <1>3, <2>2 DEF MaybeStartOrStopP2P
    <3>2. OnlyOK(e, c) /\ DeferredOK(c)
      BY <1>3, <2>1 DEF OnlyOK, DeferredOK, Expected
    <3>3. SameRoom(c, c) /\ Keeps(c, c)
      BY DEF SameRoom, Keeps
    <3>4. QED
      BY <3>1, <3>2, <3>3
  <2>3. CASE c.session = None /\ (q < e \/ (userLeft /\ c.deferred # None))
    <3>1. d = c
      BY <1>3, <2>3 DEF MaybeStartOrStopP2P
    <3>2. OnlyOK(e, c) /\ DeferredOK(c)
      BY <1>3, <2>1, <2>3 DEF OnlyOK, DeferredOK, Expected
    <3>3. SameRoom(c, c) /\ Keeps(c, c)
      BY DEF SameRoom, Keeps
    <3>4. QED
      BY <3>1, <3>2, <3>3
  <2>4. CASE c.session = None /\ ~(q < e) /\ ~userLeft
    <3>1. d = StartP2PSession(e, c, q) /\ e < q
      BY <1>3, <2>1, <2>4, EndpointAssumption DEF MaybeStartOrStopP2P
    <3>2. Sound(e, d)
      BY <1>3, <2>1, <3>1, StartedSound
    <3>3. /\ SameRoom(c, d) /\ d.deferred = None /\ d.p2p = c.p2p /\ d.late = c.late
          /\ d.session = [by |-> e, to |-> q, n |-> c.made] /\ d.phase = "inviting"
          /\ d.made = c.made + 1
      BY <1>1, <2>1, <2>4, <3>1, StartedFields
    <3> HIDE DEF d, q
    <3>4. OnlyOK(e, d) /\ DeferredOK(d)
      BY <2>1, <3>3 DEF OnlyOK, DeferredOK, SameRoom, Other
    <3>5. Begins(e, c, d)
      BY <2>1, <2>4, <3>1, <3>3 DEF Begins
    <3>6. QED
      BY <3>2, <3>3, <3>4, <3>5 DEF d
  <2>5. CASE c.session = None /\ ~(q < e) /\ userLeft /\ c.deferred = None
    <3>1. d = [c EXCEPT !.deferred = q] /\ e < q
      BY <1>3, <2>1, <2>5, EndpointAssumption DEF MaybeStartOrStopP2P
    <3> HIDE DEF q
    <3>2. Sound(e, d) /\ SameRoom(c, d) /\ Keeps(c, d) /\ d.deferred = q
      BY <1>3, <2>1, <3>1, DeferredSound
    <3> HIDE DEF d
    <3>3. OnlyOK(e, d) /\ DeferredOK(d)
      BY <2>1, <2>5, <3>2 DEF OnlyOK, DeferredOK, SameRoom, Keeps
    <3>4. QED
      BY <2>1, <3>2, <3>3 DEF d
  <2>6. QED
    BY <2>2, <2>3, <2>4, <2>5
<1>4. CASE e \in Capable /\ ~c.e2ee /\ ~ShouldBeInP2PMode(c)
  <2> DEFINE x == ClearDeferredStart(c)
  <2>1. /\ Sound(e, x) /\ SameRoom(c, x) /\ Keeps(c, x) /\ x.deferred = None
        /\ x.outdated = c.outdated
    BY ClearedFields
  <2>2. CASE c.session # None
    <3>1. d = StopP2PSession(x, FALSE)
      BY <1>4, <2>2 DEF MaybeStartOrStopP2P
    <3> HIDE DEF x
    <3>2. x.session # None /\ x \in Conference
      BY <2>1, <2>2 DEF Keeps, Sound
    <3>3. Sound(e, d)
      BY <2>1, <3>1, <3>2, StoppedSound
    <3>4. /\ SameRoom(x, d) /\ d.session = None /\ d.phase = "none" /\ d.p2p = FALSE
          /\ d.deferred = x.deferred /\ d.made = x.made
          /\ d.late = IF x.phase = "inviting" THEN x.late \cup {x.session} ELSE x.late
      BY <3>1, <3>2, StoppedFields, ZenonT(60)
    <3> HIDE DEF d
    <3>5. SameRoom(c, d) /\ Drops(c, d) /\ d.deferred = None
      BY <2>1, <2>2, <3>4 DEF SameRoom, Drops, Keeps
    <3>6. OnlyOK(e, d) /\ DeferredOK(d)
      BY <3>4, <3>5 DEF OnlyOK, DeferredOK
    <3>7. QED
      BY <3>3, <3>5, <3>6 DEF d
  <2>3. CASE c.session = None
    <3>1. d = x
      BY <1>4, <2>3 DEF MaybeStartOrStopP2P
    <3>2. x.session = None
      BY <2>1, <2>3 DEF Keeps
    <3>3. OnlyOK(e, x) /\ DeferredOK(x)
      BY <2>1, <3>2 DEF OnlyOK, DeferredOK
    <3>4. QED
      BY <2>1, <3>1, <3>3
  <2>4. QED
    BY <2>2, <2>3
<1>5. QED
  BY <1>2, <1>3, <1>4

-----------------------------------------------------------------------------
(* Lemmas about the inboxes.                                               *)

LEMMA Appended ==
  ASSUME NEW S, NEW s \in Seq(S), NEW x \in S, NEW t, t = Append(s, x)
  PROVE  /\ t \in Seq(S) /\ Len(t) = Len(s) + 1 /\ Len(s) \in Nat
         /\ DOMAIN s = 1 .. Len(s) /\ DOMAIN t = 1 .. (Len(s) + 1)
         /\ t[Len(s) + 1] = x /\ \A j \in 1 .. Len(s) : t[j] = s[j]
<1>1. t \in Seq(S) /\ Len(t) = Len(s) + 1 /\ Len(s) \in Nat
  BY AppendProperties, LenProperties
<1>2. DOMAIN t = 1 .. Len(t) /\ DOMAIN s = 1 .. Len(s)
  BY <1>1, LenProperties
<1>3. \A j \in 1 .. Len(s) : t[j] = s[j]
  BY <1>2, AppendProperties
<1>4. t[Len(s) + 1] = x
  BY <1>1, AppendProperties
<1>5. QED
  BY <1>1, <1>2, <1>3, <1>4

LEMMA Tailed ==
  ASSUME NEW S, NEW s \in Seq(S), s # <<>>, NEW t, t = Tail(s)
  PROVE  /\ t \in Seq(S) /\ Len(t) = Len(s) - 1 /\ Len(s) \in Nat /\ Len(s) > 0
         /\ DOMAIN s = 1 .. Len(s) /\ DOMAIN t = 1 .. (Len(s) - 1)
         /\ Head(s) = s[1] /\ \A j \in 1 .. (Len(s) - 1) : t[j] = s[j + 1]
<1>1. t \in Seq(S) /\ Len(t) = Len(s) - 1 /\ \A j \in 1 .. Len(t) : t[j] = s[j + 1]
  BY HeadTailProperties
<1>2. Len(s) \in Nat /\ Len(s) > 0
  BY EmptySeq, LenProperties
<1>3. DOMAIN s = 1 .. Len(s) /\ DOMAIN t = 1 .. Len(t)
  BY <1>1, LenProperties
<1>4. Head(s) = s[1]
  OBVIOUS
<1>5. QED
  BY <1>1, <1>2, <1>3, <1>4

LEMMA Delivered ==
  ASSUME NEW boxes, NEW to, NEW m, NEW x \in Endpoint
  PROVE  Deliver(boxes, to, m)[x] = IF x \in to /\ Here(x) THEN Append(boxes[x], m) ELSE boxes[x]
  BY DEF Deliver, Members

(* What e may send on to x.                                                *)
Sends(e, x, s, t) ==
  \/ t = s
  \/ Here(e) /\ Here(x) /\ \E m \in Message :
       m.from = e /\ m.type \in Calls /\ MessageOK(x, m) /\ t = Append(s, m)

(* e makes a step of its own, or reads the next stanza.                    *)
Acts(e, c, d, s, t) ==
  t = s /\ d.peers = c.peers /\ Met(e, d) \subseteq Met(e, c)
Reads(e, c, d, s, t) ==
  /\ s # <<>> /\ t = Tail(s) /\ Met(e, d) \subseteq Met(e, c) \cup {Head(s).from}
  /\ d.peers = CASE Head(s).type \in Arrivals -> c.peers \cup {Head(s).from}
                 [] Head(s).type = "leave" -> c.peers \ {Head(s).from}
                 [] OTHER -> c.peers

(* Nobody comes back, ...                                                  *)
Onward ==
  \A q \in Endpoint : /\ room'[q] = "out" => room[q] = "out"
                      /\ room[q] = "left" => room'[q] = "left"

(* ... and x has the presence of whoever has come.                         *)
LEMMA ExtendedStream ==
  ASSUME TypeOK, NEW x \in Endpoint, Stream(x), Here(x), Here(x)', Onward, conf'[x] = conf[x],
         NEW m \in Message, MessageOK(x, m)', inbox'[x] = Append(inbox[x], m),
         \A i \in DOMAIN inbox[x] : inbox[x][i].from = m.from =>
                                      inbox[x][i].type # "leave" /\ m.type \notin Arrivals,
         IF m.type \in Arrivals THEN m.from \notin Met(x, conf[x])
         ELSE m.from \in conf[x].peers \/ Announced(inbox[x], m.from, Len(inbox[x])),
         \A q \in Occupants' : q \in Occupants \/ (m.type \in Arrivals /\ q = m.from)
  PROVE  Stream(x)' /\ inbox'[x] \in Seq(Message)
<1> DEFINE s == inbox[x]
           t == inbox'[x]
           n == Len(s) + 1
<1>1. /\ t \in Seq(Message) /\ Len(t) = n /\ Len(s) \in Nat /\ DOMAIN s = 1 .. Len(s)
      /\ DOMAIN t = 1 .. n /\ t[n] = m /\ \A j \in 1 .. Len(s) : t[j] = s[j]
  <2>1. s \in Seq(Message)
    BY DEF TypeOK
  <2>2. QED
    BY <2>1, Appended
<1> HIDE DEF t
<1>2. ASSUME NEW j \in DOMAIN t
      PROVE  \/ j = n /\ t[j] = m
             \/ j \in DOMAIN s /\ t[j] = s[j] /\ j < n /\ j \in 0 .. Len(s)
  BY <1>1
<1>3. \A q, j : Announced(s, q, j) /\ j \in 0 .. Len(s) =>
        Announced(t, q, j) /\ Announced(t, q, n)
  <2>1. SUFFICES ASSUME NEW q, NEW j \in 0 .. Len(s), Announced(s, q, j)
                 PROVE  Announced(t, q, j) /\ Announced(t, q, n)
    OBVIOUS
  <2>2. PICK i \in 1 .. j : s[i].type \in Arrivals /\ s[i].from = q
    BY <2>1 DEF Announced
  <2>3. i \in 1 .. n /\ t[i] = s[i]
    BY <1>1, <2>2
  <2>4. QED
    BY <2>2, <2>3 DEF Announced
<1>4. m.type \in Arrivals => Announced(t, m.from, n)
  BY <1>1 DEF Announced
<1>5. (\A i \in DOMAIN inbox[x] : MessageOK(x, inbox[x][i]))'
  <2>1. ASSUME NEW i \in DOMAIN s
        PROVE  LET y == s[i] IN
               /\ y.from # x /\ room'[y.from] # "out"
               /\ y.type = "leave" => room'[y.from] = "left"
               /\ y.type \in Calls => Between(x, y.session) /\ y.from = Other(x, y.session)
               /\ y.type = "initiate" => y.session.by = y.from
               /\ y.type = "accept" => y.session.by = x
    <3>1. s[i] \in Message /\ MessageOK(x, s[i])
      BY <1>1 DEF Stream, TypeOK
    <3>2. s[i].from \in Endpoint
      BY <3>1 DEF Message
    <3>3. QED
      BY <3>1, <3>2 DEF MessageOK, Onward
  <2>2. QED
    BY <1>2, <2>1 DEF MessageOK, t
<1>6. Ordered(t)
  <2>1. SUFFICES ASSUME NEW i \in DOMAIN t, NEW j \in DOMAIN t, i < j, t[i].from = t[j].from
                 PROVE  t[i].type # "leave" /\ t[j].type \notin Arrivals
    BY DEF Ordered
  <2>2. i \in DOMAIN s /\ t[i] = s[i]
    BY <1>1, <1>2, <2>1
  <2>3. CASE j = n
    BY <1>1, <2>1, <2>2, <2>3
  <2>4. CASE j # n
    BY <1>2, <2>1, <2>2, <2>4 DEF Stream, Ordered
  <2>5. QED
    BY <2>3, <2>4
<1>7. Introduced(x, conf[x], t)
  <2>1. ASSUME NEW j \in DOMAIN t
        PROVE  /\ t[j].from \in conf[x].peers \/ Announced(t, t[j].from, j)
               /\ t[j].type \in Arrivals => t[j].from \notin Met(x, conf[x])
    <3>1. CASE j = n
      <4>1. t[j] = m
        BY <1>1, <3>1
      <4>2. Len(s) \in 0 .. Len(s)
        BY <1>1
      <4>3. CASE m.type \in Arrivals
        BY <1>4, <3>1, <4>1, <4>3
      <4>4. CASE m.type \notin Arrivals
        BY <1>3, <3>1, <4>1, <4>2, <4>4
      <4>5. QED
        BY <4>3, <4>4
    <3>2. CASE j # n
      <4>1. j \in DOMAIN s /\ t[j] = s[j] /\ j \in 0 .. Len(s)
        BY <1>2, <2>1, <3>2
      <4>2. QED
        BY <1>3, <4>1 DEF Stream, Introduced
    <3>3. QED
      BY <3>1, <3>2
  <2>2. QED
    BY <2>1 DEF Introduced
<1>8. ASSUME NEW q \in Occupants', q # x
      PROVE  q \in conf[x].peers \/ Announced(t, q, Len(t))
  <2>1. CASE q \in Occupants
    <3>1. q \in conf[x].peers \/ Announced(s, q, Len(s))
      BY <1>8, <2>1 DEF Stream, Informed
    <3>2. Len(s) \in 0 .. Len(s)
      BY <1>1
    <3>3. QED
      BY <1>1, <1>3, <3>1, <3>2
  <2>2. CASE m.type \in Arrivals /\ q = m.from
    BY <1>1, <1>4, <2>2
  <2>3. QED
    BY <2>1, <2>2
<1>9. Informed(x, conf[x], inbox[x])'
  BY <1>8 DEF Stream, Informed, Onward, t
<1>10. QED
  BY <1>1, <1>5, <1>6, <1>7, <1>9 DEF Stream, t

(* ... while nothing has come for x.                                       *)
LEMMA QuietStream ==
  ASSUME TypeOK, NEW x \in Endpoint, Stream(x), ~Here(x)', Onward, conf'[x] = conf[x],
         inbox'[x] = <<>>
  PROVE  Stream(x)' /\ inbox'[x] \in Seq(Message)
<1>1. inbox'[x] \in Seq(Message) /\ DOMAIN inbox'[x] = {}
  BY EmptySeq
<1>2. QED
  BY <1>1 DEF Stream, Ordered, Introduced, Informed, Onward

LEMMA SentStream ==
  ASSUME TypeOK, NEW e \in Endpoint, NEW x \in Endpoint, x # e, Stream(x), room' = room,
         conf'[x] = conf[x], Sends(e, x, inbox[x], inbox'[x])
  PROVE  Stream(x)' /\ inbox'[x] \in Seq(Message)
<1>1. inbox[x] \in Seq(Message)
  BY DEF TypeOK
<1>2. CASE inbox'[x] = inbox[x]
  BY <1>1, <1>2 DEF Stream, MessageOK, Informed, Here, Occupants
<1>3. ASSUME NEW m \in Message, m.from = e, m.type \in Calls, MessageOK(x, m),
             Here(x), Here(e), inbox'[x] = Append(inbox[x], m)
      PROVE  Stream(x)' /\ inbox'[x] \in Seq(Message)
  <2>1. Here(x)' /\ Onward /\ MessageOK(x, m)' /\ Occupants' = Occupants
    BY <1>3 DEF Here, Onward, MessageOK, Occupants
  <2>2. m.type \notin Arrivals
    BY <1>3 DEF Calls, Arrivals
  <2>3. \A i \in DOMAIN inbox[x] : inbox[x][i].from = e => inbox[x][i].type # "leave"
    BY <1>3 DEF Stream, MessageOK, Here
  <2>4. e \in conf[x].peers \/ Announced(inbox[x], e, Len(inbox[x]))
    BY <1>3 DEF Stream, Informed, Occupants, Here
  <2>5. QED
    BY <1>3, <2>1, <2>2, <2>3, <2>4, ExtendedStream
<1>4. QED
  BY <1>2, <1>3 DEF Sends

LEMMA ActedStream ==
  ASSUME TypeOK, NEW e \in Endpoint, Stream(e), room' = room,
         Acts(e, conf[e], conf'[e], inbox[e], inbox'[e])
  PROVE  Stream(e)' /\ inbox'[e] \in Seq(Message)
<1>1. /\ inbox'[e] = inbox[e] /\ conf'[e].peers = conf[e].peers
      /\ Met(e, conf'[e]) \subseteq Met(e, conf[e])
  BY DEF Acts
<1>2. inbox[e] \in Seq(Message)
  BY DEF TypeOK
<1>3. Introduced(e, conf'[e], inbox[e])
  BY <1>1 DEF Stream, Introduced
<1>4. Informed(e, conf[e], inbox[e])'
  BY <1>1 DEF Stream, Informed, Here, Occupants
<1>5. QED
  BY <1>1, <1>2, <1>3, <1>4 DEF Stream, MessageOK, Here

LEMMA ReadStream ==
  ASSUME TypeOK, NEW e \in Endpoint, Stream(e), Here(e), room' = room,
         Reads(e, conf[e], conf'[e], inbox[e], inbox'[e])
  PROVE  Stream(e)' /\ inbox'[e] \in Seq(Message)
<1> DEFINE s == inbox[e]
           t == inbox'[e]
           h == Head(s)
           q == h.from
           c == conf[e]
           d == conf'[e]
<1>1. s \in Seq(Message) /\ s # <<>> /\ t = Tail(s)
  BY DEF TypeOK, Reads
<1>2. /\ t \in Seq(Message) /\ Len(t) = Len(s) - 1 /\ Len(s) \in Nat /\ Len(s) > 0
      /\ DOMAIN s = 1 .. Len(s) /\ DOMAIN t = 1 .. (Len(s) - 1)
      /\ h = s[1] /\ \A j \in 1 .. (Len(s) - 1) : t[j] = s[j + 1]
  BY <1>1, Tailed
<1>3. h \in Message /\ \A j \in DOMAIN t : t[j] \in Message
  BY <1>1, <1>2
<1>4. q \in Endpoint /\ \A j \in DOMAIN t : t[j].from \in Endpoint
  BY <1>3 DEF Message
<1>5. /\ \A p \in Endpoint : p \in c.peers => p \in d.peers \/ (p = q /\ h.type = "leave")
      /\ h.type \in Arrivals => q \in d.peers
      /\ Met(e, d) \subseteq Met(e, c) \cup {q}
  BY DEF Reads, Arrivals
<1> HIDE DEF t, h, d, q
<1>6. \A j \in DOMAIN t : /\ j + 1 \in DOMAIN s /\ t[j] = s[j + 1] /\ 1 \in DOMAIN s
                          /\ 1 < j + 1 /\ j \in 0 .. Len(t)
  BY <1>2
<1>7. \A i \in DOMAIN t : MessageOK(e, t[i])
  BY <1>6 DEF Stream
<1>8. Ordered(t)
  <2>1. SUFFICES ASSUME NEW i \in DOMAIN t, NEW j \in DOMAIN t, i < j, t[i].from = t[j].from
                 PROVE  t[i].type # "leave" /\ t[j].type \notin Arrivals
    BY DEF Ordered
  <2>2. i + 1 < j + 1
    BY <1>2, <2>1
  <2>3. QED
    BY <1>6, <2>1, <2>2 DEF Stream, Ordered
<1>9. ASSUME NEW p, NEW j \in 0 .. Len(t), Announced(s, p, j + 1)
      PROVE  Announced(t, p, j) \/ (p = q /\ h.type \in Arrivals)
  <2>1. PICK i \in 1 .. (j + 1) : s[i].type \in Arrivals /\ s[i].from = p
    BY <1>9 DEF Announced
  <2>2. CASE i = 1
    BY <1>2, <2>1, <2>2 DEF q
  <2>3. CASE i # 1
    <3> DEFINE k == i - 1
    <3>1. k \in 1 .. j /\ k \in 1 .. (Len(s) - 1) /\ k + 1 = i
      BY <1>2, <2>1, <2>3
    <3>2. t[k] = s[i]
      BY <1>2, <3>1
    <3>3. QED
      BY <2>1, <3>1, <3>2 DEF Announced
  <2>4. QED
    BY <2>2, <2>3
<1>10. Introduced(e, d, t)
  <2>1. ASSUME NEW j \in DOMAIN t
        PROVE  /\ t[j].from \in d.peers \/ Announced(t, t[j].from, j)
               /\ t[j].type \in Arrivals => t[j].from \notin Met(e, d)
    <3>1. j + 1 \in DOMAIN s /\ t[j] = s[j + 1] /\ 1 < j + 1 /\ 1 \in DOMAIN s /\ j \in 0 .. Len(t)
      BY <1>6
    <3>2. t[j].from = q => h.type # "leave" /\ t[j].type \notin Arrivals
      BY <3>1, <1>2 DEF Stream, Ordered, q
    <3>3. t[j].from \in c.peers \/ Announced(s, t[j].from, j + 1)
      BY <3>1 DEF Stream, Introduced
    <3>4. t[j].from \in d.peers \/ Announced(t, t[j].from, j)
      BY <3>1, <3>2, <3>3, <1>4, <1>5, <1>9
    <3>5. t[j].type \in Arrivals => t[j].from \notin Met(e, c)
      BY <3>1 DEF Stream, Introduced
    <3>6. QED
      BY <3>2, <3>4, <3>5, <1>5
  <2>2. QED
    BY <2>1 DEF Introduced
<1>11. q # e /\ room[q] # "out" /\ (h.type = "leave" => room[q] = "left")
  <2>1. MessageOK(e, s[1])
    BY <1>2, SMTT(30) DEF Stream
  <2>2. QED
    BY <1>2, <2>1 DEF MessageOK, q
<1>12. ASSUME NEW p \in Occupants \ {e}
       PROVE  p \in d.peers \/ Announced(t, p, Len(t))
  <2>1. p \in c.peers \/ Announced(s, p, Len(s))
    BY DEF Stream, Informed
  <2>2. Len(s) = Len(t) + 1 /\ Len(t) \in 0 .. Len(t)
    BY <1>2
  <2>3. p \in Endpoint /\ room[p] # "left"
    BY DEF Occupants
  <2>4. QED
    BY <1>5, <1>9, <1>11, <2>1, <2>2, <2>3
<1>13. \A p \in Endpoint : room[p] = "out" => p \notin Met(e, d)
  BY <1>5, <1>11 DEF Stream, Informed
<1>14. QED
  BY <1>2, <1>7, <1>8, <1>10, <1>12, <1>13
  DEF Stream, Informed, MessageOK, Here, Occupants, t, d

-----------------------------------------------------------------------------
(* The steps of one conference.                                            *)

LEMMA StepInv ==
  ASSUME LocalInv, NEW e \in Endpoint, Here(e), room' = room, answered' \in SUBSET Session,
         NEW d, Sound(e, d), OnlyOK(e, d), DeferredOK(d), conf' = [conf EXCEPT ![e] = d],
         inbox' = [x \in Endpoint |-> inbox'[x]],
         \A x \in Endpoint \ {e} : Sends(e, x, inbox[x], inbox'[x]),
         \/ Acts(e, conf[e], d, inbox[e], inbox'[e])
         \/ Reads(e, conf[e], d, inbox[e], inbox'[e])
  PROVE  LocalInv'
<1>1. TypeOK /\ ConferenceOK /\ StreamOK
  BY DEF LocalInv
<1>2. conf'[e] = d /\ \A x \in Endpoint \ {e} : conf'[x] = conf[x]
  BY <1>1 DEF TypeOK
<1>3. ASSUME NEW x \in Endpoint
      PROVE  Stream(x)' /\ inbox'[x] \in Seq(Message)
  <2>1. Stream(x)
    BY <1>1 DEF StreamOK
  <2>2. CASE x # e
    BY <1>1, <1>2, <2>1, <2>2, SentStream
  <2>3. CASE x = e
    BY <1>1, <1>2, <2>1, <2>3, ActedStream, ReadStream
  <2>4. QED
    BY <2>2, <2>3
<1>4. inbox' \in [Endpoint -> Seq(Message)]
  BY <1>3
<1>5. conf' \in [Endpoint -> Conference]
  BY <1>1 DEF TypeOK, Sound
<1>6. TypeOK'
  BY <1>1, <1>4, <1>5 DEF TypeOK
<1>7. ConferenceOK'
  BY <1>1, <1>2 DEF ConferenceOK, Good, Sound, Here
<1>8. QED
  BY <1>3, <1>6, <1>7 DEF LocalInv, StreamOK

(* The conference of somebody who is there.                                *)
LEMMA HereGood ==
  ASSUME LocalInv, NEW e \in Endpoint, Here(e)
  PROVE  /\ conf[e] \in Conference /\ Good(e, conf[e]) /\ Sound(e, conf[e])
         /\ OnlyOK(e, conf[e]) /\ DeferredOK(conf[e])
  BY DEF LocalInv, TypeOK, ConferenceOK, Good, Sound

(* Its next stanza.                                                        *)
LEMMA HeadOK ==
  ASSUME LocalInv, NEW e \in Endpoint, Here(e), inbox[e] # <<>>
  PROVE  LET m == Received(e) IN
         /\ m \in Message /\ m.from \in Endpoint /\ MessageOK(e, m)
         /\ IF m.type \in Arrivals THEN m.from \notin Met(e, conf[e])
            ELSE m.from \in conf[e].peers
<1> DEFINE s == inbox[e]
           m == Received(e)
<1>1. s \in Seq(Message) /\ Stream(e)
  BY DEF LocalInv, TypeOK, StreamOK
<1>2. 1 \in DOMAIN s /\ m = s[1]
  BY <1>1, Tailed DEF Received
<1>3. m \in Message /\ m.from \in Endpoint
  <2>1. m \in Message
    BY <1>1, HeadTailProperties DEF Received
  <2>2. QED
    BY <2>1 DEF Message
<1>4. MessageOK(e, m)
  BY <1>1, <1>2 DEF Stream
<1>5. /\ m.from \in conf[e].peers \/ Announced(s, m.from, 1)
      /\ m.type \in Arrivals => m.from \notin Met(e, conf[e])
  BY <1>1, <1>2 DEF Stream, Introduced
<1>6. Announced(s, m.from, 1) => m.type \in Arrivals
  BY <1>2 DEF Announced
<1>7. QED
  BY <1>3, <1>4, <1>5, <1>6

LEMMA PeersType ==
  ASSUME LocalInv, NEW e \in Endpoint, NEW s, Between(e, s)
  PROVE  /\ Other(e, s) \in Endpoint /\ Other(e, s) # e /\ s \in Session
         /\ Between(Other(e, s), s) /\ Other(Other(e, s), s) = e
  BY EndpointAssumption DEF Between, Other, Session

LEMMA JingleType ==
  ASSUME NEW e \in Endpoint, NEW s \in Session, NEW restart \in BOOLEAN
  PROVE  /\ Jingle("initiate", e, s) \in Message /\ Jingle("accept", e, s) \in Message
         /\ Terminate(e, s, restart) \in Message
  BY DEF Jingle, Terminate, Message

(* e sends a message to those of a set that are there.                     *)
LEMMA DeliverSends ==
  ASSUME LocalInv, NEW e \in Endpoint, Here(e), NEW to \in SUBSET Endpoint, e \notin to,
         NEW m \in Message, m.from = e, m.type \in Calls, \A x \in to : MessageOK(x, m),
         NEW boxes, \A x \in Endpoint \ {e} : boxes[x] = inbox[x],
         inbox' = Deliver(boxes, to, m)
  PROVE  /\ inbox' = [x \in Endpoint |-> inbox'[x]] /\ inbox'[e] = boxes[e]
         /\ \A x \in Endpoint \ {e} : Sends(e, x, inbox[x], inbox'[x])
<1>1. inbox' = [x \in Endpoint |-> inbox'[x]]
  BY DEF Deliver
<1>2. ASSUME NEW x \in Endpoint
      PROVE  inbox'[x] = IF x \in to /\ Here(x) THEN Append(boxes[x], m) ELSE boxes[x]
  BY Delivered
<1>3. QED
  BY <1>1, <1>2 DEF Sends

(* The goodbye to a session that was given up.                             *)
LEMMA GoodbyeSends ==
  ASSUME LocalInv, NEW e \in Endpoint, Here(e), NEW d, NEW restart \in BOOLEAN,
         NEW boxes, boxes = [x \in Endpoint |-> boxes[x]],
         \A x \in Endpoint \ {e} : boxes[x] = inbox[x],
         inbox' = Goodbyes(boxes, e, conf[e], d, restart)
  PROVE  /\ inbox' = [x \in Endpoint |-> inbox'[x]] /\ inbox'[e] = boxes[e]
         /\ \A x \in Endpoint \ {e} : Sends(e, x, inbox[x], inbox'[x])
<1> DEFINE s == conf[e].session
           m == Terminate(e, s, restart)
<1>1. CASE s = None \/ d.session = s
  BY <1>1 DEF Goodbyes, Sends
<1>2. CASE ~(s = None \/ d.session = s)
  <2>1. Between(e, s)
    BY <1>2, HereGood DEF Sound, StateOK
  <2>2. /\ Other(e, s) \in Endpoint /\ Other(e, s) # e /\ s \in Session
        /\ Between(Other(e, s), s) /\ Other(Other(e, s), s) = e
    BY <2>1, PeersType
  <2>3. m \in Message /\ m.from = e /\ m.type = "terminate" /\ m.session = s
    BY <2>2, JingleType DEF Terminate
  <2>4. \A x \in {Other(e, s)} \cap d.peers : MessageOK(x, m)
    BY <2>2, <2>3 DEF MessageOK, Here
  <2>5. inbox' = Deliver(boxes, {Other(e, s)} \cap d.peers, m)
    BY <1>2 DEF Goodbyes
  <2>6. {Other(e, s)} \cap d.peers \in SUBSET Endpoint /\ e \notin {Other(e, s)} \cap d.peers
    BY <2>2
  <2>7. m.type \in Calls
    BY <2>3 DEF Calls
  <2> HIDE DEF m
  <2>8. QED
    BY <2>3, <2>4, <2>5, <2>6, <2>7, DeliverSends
<1>3. QED
  BY <1>1, <1>2

LEMMA RestBoxes ==
  ASSUME LocalInv, NEW e \in Endpoint
  PROVE  /\ Rest(e) = [x \in Endpoint |-> Rest(e)[x]] /\ Rest(e)[e] = Tail(inbox[e])
         /\ inbox = [x \in Endpoint |-> inbox[x]]
         /\ \A x \in Endpoint \ {e} : Rest(e)[x] = inbox[x]
  BY DEF LocalInv, TypeOK, Rest

(* A step that leaves the inboxes alone.                                   *)
LEMMA OwnStep ==
  ASSUME LocalInv, NEW e \in Endpoint, Here(e), UNCHANGED <<room, inbox>>,
         answered' \in SUBSET Session,
         NEW d, Sound(e, d), OnlyOK(e, d), DeferredOK(d), conf' = [conf EXCEPT ![e] = d],
         d.peers = conf[e].peers, Met(e, d) \subseteq Met(e, conf[e])
  PROVE  LocalInv'
<1>1. inbox' = [x \in Endpoint |-> inbox'[x]] /\ Acts(e, conf[e], d, inbox[e], inbox'[e])
  BY RestBoxes DEF Acts
<1>2. \A x \in Endpoint \ {e} : Sends(e, x, inbox[x], inbox'[x])
  BY DEF Sends
<1>3. QED
  BY <1>1, <1>2, StepInv

(* A step that gives the session up, or not.                               *)
LEMMA BecomeStep ==
  ASSUME LocalInv, NEW e \in Endpoint, Here(e), room' = room, answered' \in SUBSET Session,
         NEW d, Sound(e, d), OnlyOK(e, d), DeferredOK(d), conf' = [conf EXCEPT ![e] = d],
         NEW restart \in BOOLEAN, inbox' = Goodbyes(inbox, e, conf[e], d, restart),
         d.peers = conf[e].peers, Met(e, d) \subseteq Met(e, conf[e])
  PROVE  LocalInv'
<1>1. /\ inbox' = [x \in Endpoint |-> inbox'[x]] /\ inbox'[e] = inbox[e]
      /\ \A x \in Endpoint \ {e} : Sends(e, x, inbox[x], inbox'[x])
  BY RestBoxes, GoodbyeSends
<1>2. Acts(e, conf[e], d, inbox[e], inbox'[e])
  BY <1>1 DEF Acts
<1>3. QED
  BY <1>1, <1>2, StepInv

(* The handler of a stanza.                                                *)
LEMMA HandleStep ==
  ASSUME LocalInv, NEW e \in Endpoint, Here(e), inbox[e] # <<>>, answered' \in SUBSET Session,
         NEW d, Sound(e, d), OnlyOK(e, d), DeferredOK(d), Handle(e, d),
         Reads(e, conf[e], d, inbox[e], Tail(inbox[e]))
  PROVE  LocalInv'
<1>1. conf' = [conf EXCEPT ![e] = d] /\ room' = room
      /\ inbox' = Goodbyes(Rest(e), e, conf[e], d, FALSE)
  BY DEF Handle
<1>2. /\ inbox' = [x \in Endpoint |-> inbox'[x]] /\ inbox'[e] = Tail(inbox[e])
      /\ \A x \in Endpoint \ {e} : Sends(e, x, inbox[x], inbox'[x])
  <2> DEFINE boxes == Rest(e)
  <2>1. /\ boxes = [x \in Endpoint |-> boxes[x]] /\ boxes[e] = Tail(inbox[e])
        /\ \A x \in Endpoint \ {e} : boxes[x] = inbox[x]
    BY RestBoxes
  <2>2. inbox' = Goodbyes(boxes, e, conf[e], d, FALSE)
    BY <1>1
  <2> HIDE DEF boxes
  <2>3. QED
    BY <2>1, <2>2, GoodbyeSends
<1>3. QED
  BY <1>1, <1>2, StepInv

LEMMA MetShrinks ==
  ASSUME NEW e, NEW c, NEW d, SameRoom(c, d),
         d.deferred = c.deferred \/ d.deferred \in c.peers \cup {None},
         Keeps(c, d) \/ Drops(c, d) \/ Begins(e, c, d)
  PROVE  Met(e, d) \subseteq Met(e, c) /\ d.peers = c.peers
<1>1. d.session = c.session \/ d.session = None \/ Other(e, d.session) \in c.peers
  <2>1. CASE Begins(e, c, d)
    <3>1. PICK q \in c.peers : d.session = [by |-> e, to |-> q, n |-> c.made]
      BY <2>1 DEF Begins
    <3>2. Other(e, d.session) = q
      BY <3>1 DEF Other
    <3>3. QED
      BY <3>2
  <2>2. CASE Keeps(c, d) \/ Drops(c, d)
    BY <2>2 DEF Keeps, Drops
  <2>3. QED
    BY <2>1, <2>2
<1>2. QED
  BY <1>1 DEF Met, SameRoom

-----------------------------------------------------------------------------
(* The handlers of the stanzas.                                            *)

(* A handler that ends with _maybeStartOrStopP2P: it has not touched the   *)
(* session before.                                                         *)
SameSession(b, c) ==
  /\ c.session = b.session /\ c.phase = b.phase /\ c.late = b.late /\ c.made = b.made
  /\ c.p2p = b.p2p

Looks(e) ==
  /\ Here(e) /\ inbox[e] # <<>> /\ answered' = answered
  /\ \E c \in Conference, userLeft \in BOOLEAN :
       /\ Sound(e, c) /\ Expected(e, c) /\ SameSession(conf[e], c)
       /\ Reads(e, conf[e], c, inbox[e], Tail(inbox[e]))
       /\ Handle(e, MaybeStartOrStopP2P(e, c, userLeft))

LEMMA LooksInv ==
  ASSUME LocalInv, NEW e \in Endpoint, Looks(e)
  PROVE  LocalInv'
<1>1. PICK c \in Conference, userLeft \in BOOLEAN :
        /\ Sound(e, c) /\ Expected(e, c)
        /\ Reads(e, conf[e], c, inbox[e], Tail(inbox[e]))
        /\ Handle(e, MaybeStartOrStopP2P(e, c, userLeft))
  BY DEF Looks
<1> DEFINE d == MaybeStartOrStopP2P(e, c, userLeft)
<1>2. /\ Sound(e, d) /\ OnlyOK(e, d) /\ DeferredOK(d)
      /\ SameRoom(c, d) /\ (d.deferred = c.deferred \/ d.deferred \in c.peers \cup {None})
      /\ Keeps(c, d) \/ Drops(c, d) \/ Begins(e, c, d)
  BY <1>1, MaybeSound
<1>3. Handle(e, d)
  BY <1>1
<1> HIDE DEF d
<1>4. Met(e, d) \subseteq Met(e, c) /\ d.peers = c.peers
  BY <1>2, MetShrinks
<1>5. Reads(e, conf[e], d, inbox[e], Tail(inbox[e]))
  BY <1>1, <1>4 DEF Reads
<1>6. Here(e) /\ inbox[e] # <<>> /\ answered' \in SUBSET Session
  BY DEF Looks, LocalInv, TypeOK
<1>7. QED
  BY <1>2, <1>3, <1>5, <1>6, HandleStep

LEMMA OnMemberJoinedLooks ==
  ASSUME LocalInv, NEW e \in Endpoint, OnMemberJoined(e)
  PROVE  Looks(e)
<1> DEFINE b == conf[e]
           m == Received(e)
           q == m.from
           c == [b EXCEPT !.peers = @ \cup {q},
                          !.bots = IF Receives(e, "bot") THEN @ \cup {q} ELSE @]
<1>1. Here(e) /\ inbox[e] # <<>> /\ m.type \in Arrivals
  BY DEF OnMemberJoined, Receives, Received, Arrivals
<1>2. b \in Conference /\ StateOK(e, b) /\ OnlyOK(e, b) /\ DeferredOK(b) /\ TracksOK(e, b) /\ MediaOK(b)
  BY <1>1, HereGood DEF Good
<1>3. q \in Endpoint /\ q # e /\ q \notin Met(e, b)
  BY <1>1, HeadOK DEF MessageOK
<1>4. /\ q \notin b.peers \cup b.jvbTracks /\ q # b.deferred
      /\ b.session # None => q # Other(e, b.session)
  BY <1>3, NoneAssumption DEF Met
<1>5. c \in Conference
  BY <1>2, <1>3 DEF Conference
<1>6. /\ c.peers = b.peers \cup {q} /\ (c.bots = b.bots \/ c.bots = b.bots \cup {q})
      /\ c.session = b.session /\ c.phase = b.phase /\ c.p2p = b.p2p /\ c.deferred = b.deferred
      /\ c.made = b.made /\ c.jvb = b.jvb /\ c.jvbMedia = b.jvbMedia /\ c.jvbTracks = b.jvbTracks
      /\ c.p2pTracks = b.p2pTracks /\ c.shown = b.shown /\ c.e2ee = b.e2ee /\ c.toggles = b.toggles
      /\ c.switching = b.switching /\ c.late = b.late /\ c.parked = b.parked
      /\ c.outdated = b.outdated
  BY <1>2 DEF Conference
<1>7. Handle(e, MaybeStartOrStopP2P(e, c, FALSE)) /\ answered' = answered
  BY DEF OnMemberJoined
<1> HIDE DEF c, q
<1>8. StateOK(e, c)
  BY <1>2, <1>3, <1>6 DEF StateOK
<1>9. b.p2pTracks \cap c.peers = b.p2pTracks \cap b.peers /\ b.jvbTracks \cap c.peers = b.jvbTracks \cap b.peers
  BY <1>2, <1>4, <1>6 DEF TracksOK
<1>10. TracksOK(e, c) /\ MediaOK(c)
  BY <1>2, <1>6, <1>9 DEF TracksOK, MediaOK, Closing
<1>11. Expected(e, c)
  <2>1. SUFFICES ASSUME ShouldBeInP2PMode(c)
                 PROVE  b.peers = {}
    BY <1>2, <1>6 DEF Expected, OnlyOK, DeferredOK
  <2>2. PICK p \in Endpoint : c.peers = {p}
    BY <1>5, <2>1, OnePeer DEF Conference, ShouldBeInP2PMode
  <2>3. QED
    BY <1>4, <1>6, <2>2
<1>12. Reads(e, b, c, inbox[e], Tail(inbox[e]))
  <2>1. Met(e, c) \subseteq Met(e, b) \cup {q}
    BY <1>6 DEF Met
  <2>2. Head(inbox[e]) = m /\ Head(inbox[e]).from = q
    BY DEF Received, q
  <2>3. /\ c.peers = b.peers \cup {Head(inbox[e]).from}
        /\ Head(inbox[e]).type \in Arrivals /\ Head(inbox[e]).type # "leave"
    BY <1>1, <1>6, <2>2 DEF Arrivals
  <2> HIDE DEF m
  <2>4. QED
    BY <1>1, <2>1, <2>2, <2>3 DEF Reads
<1>13. Sound(e, c)
  BY <1>5, <1>8, <1>10 DEF Sound
<1>14. SameSession(b, c)
  BY <1>6 DEF SameSession
<1>15. QED
  BY <1>1, <1>5, <1>7, <1>11, <1>12, <1>13, <1>14 DEF Looks

LEMMA OnBotTypeRemovedLooks ==
  ASSUME LocalInv, NEW e \in Endpoint, OnBotTypeRemoved(e)
  PROVE  Looks(e)
<1> DEFINE b == conf[e]
           m == Received(e)
           q == m.from
           c == [b EXCEPT !.bots = @ \ {q}]
<1>1. Here(e) /\ inbox[e] # <<>> /\ m.type = "human"
  BY DEF OnBotTypeRemoved, Receives, Received
<1>2. b \in Conference /\ StateOK(e, b) /\ OnlyOK(e, b) /\ DeferredOK(b) /\ TracksOK(e, b) /\ MediaOK(b)
  BY <1>1, HereGood DEF Good
<1>3. c \in Conference
  BY <1>2 DEF Conference
<1>4. /\ c.peers = b.peers /\ c.bots = b.bots \ {q}
      /\ c.session = b.session /\ c.phase = b.phase /\ c.p2p = b.p2p /\ c.deferred = b.deferred
      /\ c.made = b.made /\ c.jvb = b.jvb /\ c.jvbMedia = b.jvbMedia /\ c.jvbTracks = b.jvbTracks
      /\ c.p2pTracks = b.p2pTracks /\ c.shown = b.shown /\ c.e2ee = b.e2ee /\ c.toggles = b.toggles
      /\ c.switching = b.switching /\ c.late = b.late /\ c.parked = b.parked
      /\ c.outdated = b.outdated
  BY <1>2 DEF Conference
<1>5. Handle(e, MaybeStartOrStopP2P(e, c, FALSE)) /\ answered' = answered
  BY DEF OnBotTypeRemoved
<1> HIDE DEF c
<1>6. StateOK(e, c)
  BY <1>2, <1>4 DEF StateOK
<1>7. TracksOK(e, c) /\ MediaOK(c)
  BY <1>2, <1>4 DEF TracksOK, MediaOK, Closing
<1>8. Expected(e, c)
  BY <1>2, <1>4 DEF Expected, OnlyOK, DeferredOK
<1>9. Reads(e, b, c, inbox[e], Tail(inbox[e]))
  BY <1>1, <1>4 DEF Reads, Received, Met, Arrivals
<1>10. Sound(e, c)
  BY <1>3, <1>6, <1>7 DEF Sound
<1>11. SameSession(b, c)
  BY <1>4 DEF SameSession
<1>12. QED
  BY <1>1, <1>3, <1>5, <1>8, <1>9, <1>10, <1>11 DEF Looks

LEMMA OnMemberLeftLooks ==
  ASSUME LocalInv, NEW e \in Endpoint, OnMemberLeft(e)
  PROVE  Looks(e)
<1> DEFINE b == conf[e]
           m == Received(e)
           q == m.from
           shown == b.shown \ ({"jvb", "p2p"} \X {q})
           c == [b EXCEPT !.peers = @ \ {q}, !.bots = @ \ {q}, !.shown = @ \ ({"jvb", "p2p"} \X {q})]
<1>1. Here(e) /\ inbox[e] # <<>> /\ m.type = "leave"
  BY DEF OnMemberLeft, Receives, Received
<1>2. b \in Conference /\ StateOK(e, b) /\ OnlyOK(e, b) /\ DeferredOK(b) /\ TracksOK(e, b) /\ MediaOK(b)
  BY <1>1, HereGood DEF Good
<1>3. shown \in SUBSET ({"jvb", "p2p"} \X Endpoint)
  BY <1>2 DEF Conference
<1>4. \A p \in Endpoint : /\ <<"jvb", p>> \in shown <=> <<"jvb", p>> \in b.shown /\ p # q
                          /\ <<"p2p", p>> \in shown <=> <<"p2p", p>> \in b.shown /\ p # q
  OBVIOUS
<1>5. c = [b EXCEPT !.peers = @ \ {q}, !.bots = @ \ {q}, !.shown = shown]
  OBVIOUS
<1> HIDE DEF shown, c
<1>6. c \in Conference
  BY <1>2, <1>3, <1>5 DEF Conference
<1>7. /\ c.peers = b.peers \ {q} /\ c.bots = b.bots \ {q}
      /\ c.session = b.session /\ c.phase = b.phase /\ c.p2p = b.p2p /\ c.deferred = b.deferred
      /\ c.made = b.made /\ c.jvb = b.jvb /\ c.jvbMedia = b.jvbMedia /\ c.jvbTracks = b.jvbTracks
      /\ c.p2pTracks = b.p2pTracks /\ c.shown = shown /\ c.e2ee = b.e2ee /\ c.toggles = b.toggles
      /\ c.switching = b.switching /\ c.late = b.late /\ c.parked = b.parked
      /\ c.outdated = b.outdated
  BY <1>2, <1>5 DEF Conference
<1>8. Handle(e, MaybeStartOrStopP2P(e, c, TRUE)) /\ answered' = answered
  BY DEF OnMemberLeft, c
<1>9. StateOK(e, c)
  BY <1>2, <1>7 DEF StateOK
<1>10. TracksOK(e, c) /\ MediaOK(c)
  BY <1>2, <1>4, <1>7 DEF TracksOK, MediaOK, Closing
<1>11. Expected(e, c)
  <2>1. SUFFICES ASSUME ShouldBeInP2PMode(c)
                 PROVE  \A p : b.peers = {p} => c.peers = {p}
    BY <1>2, <1>7 DEF Expected, OnlyOK, DeferredOK
  <2>2. PICK p \in Endpoint : c.peers = {p}
    BY <1>6, <2>1, OnePeer DEF Conference, ShouldBeInP2PMode
  <2>3. QED
    BY <1>7, <2>2
<1>12. Reads(e, b, c, inbox[e], Tail(inbox[e]))
  BY <1>1, <1>7 DEF Reads, Received, Met, Arrivals
<1>13. Sound(e, c)
  BY <1>6, <1>9, <1>10 DEF Sound
<1>14. SameSession(b, c)
  BY <1>7 DEF SameSession
<1>15. QED
  BY <1>1, <1>6, <1>8, <1>11, <1>12, <1>13, <1>14 DEF Looks

LEMMA RejectedInv ==
  ASSUME LocalInv, NEW e \in Endpoint, Here(e), inbox[e] # <<>>, Received(e).type = "initiate",
         RejectIncomingCall(e, Received(e).session), answered' = answered
  PROVE  LocalInv'
<1> DEFINE s == Received(e).session
           m == Terminate(e, s, FALSE)
           boxes == Rest(e)
           to == {s.by}
<1>1. Between(e, s) /\ s.by = Other(e, s)
  BY HeadOK DEF MessageOK, Calls
<1>2. /\ s.by \in Endpoint /\ s.by # e /\ s \in Session
      /\ Between(s.by, s) /\ Other(s.by, s) = e
  BY <1>1, PeersType
<1>3. m \in Message /\ m.from = e /\ m.type = "terminate" /\ m.session = s
  BY <1>2, JingleType DEF Terminate
<1>4. \A x \in to : MessageOK(x, m)
  BY <1>2, <1>3 DEF MessageOK, Here
<1>5. /\ boxes = [x \in Endpoint |-> boxes[x]] /\ boxes[e] = Tail(inbox[e])
      /\ \A x \in Endpoint \ {e} : boxes[x] = inbox[x]
  BY RestBoxes
<1>6. inbox' = Deliver(boxes, to, m) /\ UNCHANGED <<room, conf>>
  BY DEF RejectIncomingCall
<1>7. m.type \in Calls /\ to \in SUBSET Endpoint /\ e \notin to
  BY <1>2, <1>3 DEF Calls
<1> HIDE DEF m, boxes, to
<1>8. /\ inbox' = [x \in Endpoint |-> inbox'[x]] /\ inbox'[e] = boxes[e]
      /\ \A x \in Endpoint \ {e} : Sends(e, x, inbox[x], inbox'[x])
  BY <1>3, <1>4, <1>5, <1>6, <1>7, DeliverSends
<1>9. Reads(e, conf[e], conf[e], inbox[e], inbox'[e])
  BY <1>5, <1>8 DEF Reads, Received, Arrivals
<1>10. conf' = [conf EXCEPT ![e] = conf[e]]
  BY <1>6 DEF LocalInv, TypeOK
<1>11. answered' \in SUBSET Session
  BY DEF LocalInv, TypeOK
<1>12. QED
  BY <1>6, <1>8, <1>9, <1>10, <1>11, HereGood, StepInv

LEMMA AcceptedFields ==
  ASSUME NEW e \in Endpoint, NEW b, Sound(e, b), OnlyOK(e, b), DeferredOK(b),
         NEW s, Between(e, s), s.to = e, e \in Capable, b.session = None,
         ShouldBeInP2PMode(b), Other(e, s) \in b.peers
  PROVE  LET d == [b EXCEPT !.session = s, !.phase = "accepting", !.p2pTracks = {}]
         IN  /\ Sound(e, d) /\ OnlyOK(e, d) /\ DeferredOK(d)
             /\ d.peers = b.peers /\ Met(e, d) \subseteq Met(e, b)
<1> DEFINE d == [b EXCEPT !.session = s, !.phase = "accepting", !.p2pTracks = {}]
<1>1. b \in Conference /\ StateOK(e, b) /\ TracksOK(e, b) /\ MediaOK(b)
  BY DEF Sound
<1>2. s \in Session /\ s # None
  BY NoneAssumption DEF Between, Session
<1>3. d \in Conference
  BY <1>1, <1>2 DEF Conference
<1>4. /\ d.peers = b.peers /\ d.bots = b.bots /\ d.session = s /\ d.phase = "accepting"
      /\ d.p2p = b.p2p /\ d.deferred = b.deferred
      /\ d.made = b.made /\ d.jvb = b.jvb /\ d.jvbMedia = b.jvbMedia /\ d.jvbTracks = b.jvbTracks
      /\ d.p2pTracks = {} /\ d.shown = b.shown /\ d.e2ee = b.e2ee /\ d.toggles = b.toggles
      /\ d.switching = b.switching /\ d.late = b.late /\ d.parked = b.parked
      /\ d.outdated = b.outdated
  BY <1>1 DEF Conference
<1> HIDE DEF d
<1>5. b.peers = {Other(e, s)} /\ b.bots = {}
  <2>1. b.peers = {ThePeer(b)} /\ b.bots = {}
    BY ShouldBePeer
  <2>2. QED
    BY <2>1
<1>6. ~b.p2p /\ b.p2pTracks = {} /\ b.phase = "none"
  BY <1>1 DEF TracksOK, StateOK
<1>7. StateOK(e, d)
  BY <1>1, <1>2, <1>4 DEF StateOK
<1>8. TracksOK(e, d) /\ MediaOK(d)
  BY <1>1, <1>2, <1>4, <1>6 DEF TracksOK, MediaOK, Closing
<1>9. OnlyOK(e, d)
  BY <1>4, <1>5 DEF OnlyOK
<1>10. DeferredOK(d)
  <2>1. SUFFICES ASSUME b.deferred # None, b.toggles = 0
                 PROVE  FALSE
    BY <1>4 DEF DeferredOK
  <2>2. b.deferred = Other(e, s)
    BY <1>5, <2>1 DEF DeferredOK
  <2>3. Other(e, s) = s.by /\ s.by < e /\ e < b.deferred
    BY <1>1, <2>1 DEF Between, Other, StateOK
  <2>4. s.by \in Nat /\ e \in Nat
    BY <1>2, EndpointAssumption DEF Session
  <2>5. QED
    BY <2>2, <2>3, <2>4
<1>11. Met(e, d) \subseteq Met(e, b)
  BY <1>4, <1>5 DEF Met
<1>12. QED
  BY <1>3, <1>4, <1>7, <1>8, <1>9, <1>10, <1>11 DEF Sound, d

LEMMA OnIncomingCallInv ==
  ASSUME LocalInv, NEW e \in Endpoint, OnIncomingCall(e)
  PROVE  LocalInv'
<1> DEFINE b == conf[e]
           m == Received(e)
           s == m.session
           d == [b EXCEPT !.session = s, !.phase = "accepting", !.p2pTracks = {}]
<1>1. Here(e) /\ inbox[e] # <<>> /\ m.type = "initiate" /\ answered' = answered
  BY DEF OnIncomingCall, Receives, Received
<1>2. CASE e \in Capable /\ b.session = None /\ ShouldBeInP2PMode(b)
  <2>1. Handle(e, d)
    BY <1>2 DEF OnIncomingCall
  <2>2. /\ MessageOK(e, m) /\ m.from \in b.peers
    BY <1>1, HeadOK DEF Arrivals
  <2>3. Between(e, s) /\ m.from = Other(e, s) /\ s.by = m.from /\ m.from # e
    BY <1>1, <2>2 DEF MessageOK, Calls
  <2>4. s.to = e
    BY <2>3 DEF Between
  <2>5. Other(e, s) \in b.peers /\ Sound(e, b) /\ OnlyOK(e, b) /\ DeferredOK(b)
    BY <1>1, <2>2, <2>3, HereGood
  <2>6. Between(e, s) /\ e \in Capable /\ b.session = None /\ ShouldBeInP2PMode(b)
    BY <1>2, <2>3
  <2> HIDE DEF b, s
  <2>7. /\ Sound(e, d) /\ OnlyOK(e, d) /\ DeferredOK(d)
        /\ d.peers = b.peers /\ Met(e, d) \subseteq Met(e, b)
    BY <2>4, <2>5, <2>6, AcceptedFields
  <2> USE DEF b, s
  <2> HIDE DEF d
  <2>8. Reads(e, b, d, inbox[e], Tail(inbox[e]))
    BY <1>1, <2>7 DEF Reads, Received, Arrivals
  <2>9. answered' \in SUBSET Session
    BY <1>1 DEF LocalInv, TypeOK
  <2>10. QED
    BY <1>1, <2>1, <2>7, <2>8, <2>9, HandleStep
<1>3. CASE ~(e \in Capable /\ b.session = None /\ ShouldBeInP2PMode(b))
  <2>1. RejectIncomingCall(e, s)
    BY <1>3 DEF OnIncomingCall
  <2>2. QED
    BY <1>1, <2>1, RejectedInv
<1>4. QED
  BY <1>2, <1>3

(* The session goes on in another phase.                                   *)
LEMMA PhaseFields ==
  ASSUME NEW e \in Endpoint, NEW b, Sound(e, b), OnlyOK(e, b), DeferredOK(b), b.session # None,
         NEW phase \in {"offered", "negotiated"}, phase = "offered" => b.session.by = e /\ ~b.p2p
  PROVE  LET d == [b EXCEPT !.phase = phase]
         IN  /\ Sound(e, d) /\ OnlyOK(e, d) /\ DeferredOK(d)
             /\ d.peers = b.peers /\ Met(e, d) \subseteq Met(e, b) /\ d.session = b.session
<1> DEFINE d == [b EXCEPT !.phase = phase]
<1>1. b \in Conference /\ StateOK(e, b) /\ TracksOK(e, b) /\ MediaOK(b)
  BY DEF Sound
<1>2. d \in Conference
  BY <1>1 DEF Conference
<1>3. /\ d.peers = b.peers /\ d.bots = b.bots /\ d.session = b.session /\ d.phase = phase
      /\ d.p2p = b.p2p /\ d.deferred = b.deferred
      /\ d.made = b.made /\ d.jvb = b.jvb /\ d.jvbMedia = b.jvbMedia /\ d.jvbTracks = b.jvbTracks
      /\ d.p2pTracks = b.p2pTracks /\ d.shown = b.shown /\ d.e2ee = b.e2ee /\ d.toggles = b.toggles
      /\ d.switching = b.switching /\ d.late = b.late /\ d.parked = b.parked
      /\ d.outdated = b.outdated
  BY <1>1 DEF Conference
<1> HIDE DEF d
<1>4. StateOK(e, d)
  BY <1>1, <1>3 DEF StateOK
<1>5. TracksOK(e, d) /\ MediaOK(d)
  BY <1>1, <1>3 DEF TracksOK, MediaOK, Closing
<1>6. OnlyOK(e, d) /\ DeferredOK(d) /\ Met(e, d) = Met(e, b)
  BY <1>3 DEF OnlyOK, DeferredOK, Met
<1>7. QED
  BY <1>2, <1>3, <1>4, <1>5, <1>6 DEF Sound, d

LEMMA OnCallAcceptedInv ==
  ASSUME LocalInv, NEW e \in Endpoint, OnCallAccepted(e)
  PROVE  LocalInv'
<1> DEFINE b == conf[e]
           s == Received(e).session
<1>1. Here(e) /\ inbox[e] # <<>> /\ Received(e).type = "accept"
  BY DEF OnCallAccepted, Receives, Received
<1>2. Between(e, s) /\ s \in Session /\ s # None
  BY <1>1, HeadOK, NoneAssumption DEF MessageOK, Calls, Between, Session
<1>3. answered' \in SUBSET Session
  BY <1>2 DEF OnCallAccepted, LocalInv, TypeOK
<1>4. Sound(e, b) /\ OnlyOK(e, b) /\ DeferredOK(b)
  BY <1>1, HereGood
<1>5. \A d : d.peers = b.peers /\ Met(e, d) \subseteq Met(e, b) =>
               Reads(e, b, d, inbox[e], Tail(inbox[e]))
  BY <1>1 DEF Reads, Received, Arrivals
<1>6. CASE b.session = s
  <2> DEFINE d == [b EXCEPT !.phase = "negotiated"]
  <2>1. Handle(e, d)
    BY <1>6 DEF OnCallAccepted
  <2>2. /\ Sound(e, d) /\ OnlyOK(e, d) /\ DeferredOK(d)
        /\ d.peers = b.peers /\ Met(e, d) \subseteq Met(e, b)
    BY <1>2, <1>4, <1>6, PhaseFields
  <2> HIDE DEF d
  <2>3. QED
    BY <1>1, <1>3, <1>5, <2>1, <2>2, HandleStep
<1>7. CASE b.session # s
  <2>1. Handle(e, b)
    BY <1>7 DEF OnCallAccepted
  <2>2. QED
    BY <1>1, <1>3, <1>4, <1>5, <2>1, HandleStep
<1>8. QED
  BY <1>6, <1>7

(* The session of a conference ends, whatever for.                         *)
LEMMA StoppedGood ==
  ASSUME NEW e \in Endpoint, NEW b, Sound(e, b), OnlyOK(e, b), DeferredOK(b), NEW restart \in BOOLEAN
  PROVE  LET d == StopP2PSession(b, restart)
         IN  /\ Sound(e, d) /\ OnlyOK(e, d) /\ DeferredOK(d)
             /\ d.peers = b.peers /\ Met(e, d) \subseteq Met(e, b)
             /\ SameRoom(b, d) /\ d.deferred = b.deferred
             /\ Keeps(b, d) \/ Drops(b, d)
             /\ d.session = None
<1> DEFINE d == StopP2PSession(b, restart)
<1>1. CASE b.session = None
  <2>1. d = b
    BY <1>1 DEF StopP2PSession
  <2>2. QED
    BY <1>1, <2>1 DEF SameRoom, Keeps
<1>2. CASE b.session # None
  <2>1. Sound(e, d)
    BY <1>2, StoppedSound
  <2>2. b \in Conference
    BY DEF Sound
  <2>3. /\ SameRoom(b, d) /\ d.session = None /\ d.phase = "none" /\ d.p2p = FALSE
        /\ d.deferred = b.deferred /\ d.made = b.made
        /\ d.late = IF b.phase = "inviting" THEN b.late \cup {b.session} ELSE b.late
    BY <1>2, <2>2, StoppedFields
  <2> HIDE DEF d
  <2>4. Drops(b, d)
    BY <1>2, <2>3 DEF Drops
  <2>5. OnlyOK(e, d) /\ DeferredOK(d)
    BY <1>2, <2>3 DEF OnlyOK, DeferredOK, SameRoom
  <2>6. Met(e, d) \subseteq Met(e, b) /\ d.peers = b.peers
    BY <2>3 DEF Met, SameRoom
  <2>7. QED
    BY <2>1, <2>3, <2>4, <2>5, <2>6 DEF d
<1>3. QED
  BY <1>1, <1>2

LEMMA OnCallEndedInv ==
  ASSUME LocalInv, NEW e \in Endpoint, OnCallEnded(e)
  PROVE  LocalInv'
<1> DEFINE b == conf[e]
           m == Received(e)
           x == StopP2PSession(b, m.restart)
           d == IF b.session = m.session THEN x ELSE b
<1>1. Here(e) /\ inbox[e] # <<>> /\ m.type = "terminate" /\ UNCHANGED <<room, answered>>
  BY DEF OnCallEnded, Receives, Received
<1>2. Sound(e, b) /\ OnlyOK(e, b) /\ DeferredOK(b) /\ m.restart \in BOOLEAN
  BY <1>1, HereGood, HeadOK DEF Message
<1>3. conf' = [conf EXCEPT ![e] = d] /\ inbox' = Rest(e)
  BY DEF OnCallEnded
<1>4. /\ Sound(e, x) /\ OnlyOK(e, x) /\ DeferredOK(x)
      /\ x.peers = b.peers /\ Met(e, x) \subseteq Met(e, b)
  BY <1>2, StoppedGood
<1> HIDE DEF x
<1>5. /\ Sound(e, d) /\ OnlyOK(e, d) /\ DeferredOK(d)
      /\ d.peers = b.peers /\ Met(e, d) \subseteq Met(e, b)
  BY <1>2, <1>4
<1> HIDE DEF d
<1>6. /\ inbox' = [y \in Endpoint |-> inbox'[y]] /\ inbox'[e] = Tail(inbox[e])
      /\ \A y \in Endpoint \ {e} : inbox'[y] = inbox[y]
  BY <1>3, RestBoxes
<1>7. Reads(e, b, d, inbox[e], inbox'[e])
  BY <1>1, <1>5, <1>6 DEF Reads, Received, Arrivals
<1>8. \A y \in Endpoint \ {e} : Sends(e, y, inbox[y], inbox'[y])
  BY <1>6 DEF Sends
<1>9. answered' \in SUBSET Session
  BY <1>1 DEF LocalInv, TypeOK
<1>10. QED
  BY <1>1, <1>3, <1>5, <1>6, <1>7, <1>8, <1>9, StepInv

-----------------------------------------------------------------------------
(* The tasks of the session and its peer connection.                       *)

(* A stanza to the peer of a session e knows the sid of.                   *)
LEMMA JingleSends ==
  ASSUME LocalInv, NEW e \in Endpoint, Here(e), NEW s, Between(e, s),
         NEW m, m \in {Jingle("initiate", e, s), Jingle("accept", e, s)},
         m.type = "initiate" => s.by = e, m.type = "accept" => s.to = e,
         inbox' = Deliver(inbox, {Other(e, s)}, m)
  PROVE  /\ inbox' = [x \in Endpoint |-> inbox'[x]] /\ inbox'[e] = inbox[e]
         /\ \A x \in Endpoint \ {e} : Sends(e, x, inbox[x], inbox'[x])
<1> DEFINE to == {Other(e, s)}
           boxes == inbox
<1>1. /\ Other(e, s) \in Endpoint /\ Other(e, s) # e /\ s \in Session
      /\ Between(Other(e, s), s) /\ Other(Other(e, s), s) = e
  BY PeersType
<1>2. /\ m \in Message /\ m.from = e /\ m.session = s /\ m.type \in {"initiate", "accept"}
  <2>1. CASE m = Jingle("initiate", e, s)
    BY <1>1, <2>1 DEF Jingle, Message
  <2>2. CASE m = Jingle("accept", e, s)
    BY <1>1, <2>2 DEF Jingle, Message
  <2>3. QED
    BY <2>1, <2>2
<1>3. \A x \in to : MessageOK(x, m)
  <2>1. m.type = "accept" => s.by = Other(e, s)
    BY DEF Other
  <2>2. QED
    BY <1>1, <1>2, <2>1 DEF MessageOK, Here
<1>4. m.type \in Calls /\ to \in SUBSET Endpoint /\ e \notin to
  BY <1>1, <1>2 DEF Calls
<1>5. /\ inbox' = Deliver(boxes, to, m) /\ boxes[e] = inbox[e]
      /\ \A x \in Endpoint \ {e} : boxes[x] = inbox[x]
  OBVIOUS
<1> HIDE DEF to, boxes
<1>6. /\ inbox' = [x \in Endpoint |-> inbox'[x]] /\ inbox'[e] = boxes[e]
      /\ \A x \in Endpoint \ {e} : Sends(e, x, inbox[x], inbox'[x])
  BY ONLY LocalInv, e \in Endpoint, Here(e), <1>2, <1>3, <1>4, <1>5, DeliverSends
<1>7. QED
  BY <1>5, <1>6

LEMMA InviteDoneInv ==
  ASSUME LocalInv, NEW e \in Endpoint, InviteDone(e)
  PROVE  LocalInv'
<1> DEFINE b == conf[e]
           s == b.session
           m == Jingle("initiate", e, s)
           d == [b EXCEPT !.phase = "offered"]
<1>1. Here(e) /\ b.phase = "inviting" /\ UNCHANGED <<room, answered>>
  BY DEF InviteDone
<1>2. Sound(e, b) /\ OnlyOK(e, b) /\ DeferredOK(b)
  BY <1>1, HereGood
<1>3. s # None /\ Between(e, s) /\ s.by = e /\ ~b.p2p
  BY <1>1, <1>2 DEF Sound, StateOK, TracksOK
<1>4. Other(e, s) = s.to
  BY <1>3 DEF Other
<1>5. inbox' = Deliver(inbox, {Other(e, s)}, m) /\ conf' = [conf EXCEPT ![e] = d]
  BY <1>4 DEF InviteDone
<1>6. m.type = "initiate"
  BY DEF Jingle
<1>7. /\ inbox' = [x \in Endpoint |-> inbox'[x]] /\ inbox'[e] = inbox[e]
      /\ \A x \in Endpoint \ {e} : Sends(e, x, inbox[x], inbox'[x])
  BY <1>1, <1>3, <1>5, <1>6, JingleSends
<1>8. /\ Sound(e, d) /\ OnlyOK(e, d) /\ DeferredOK(d)
      /\ d.peers = b.peers /\ Met(e, d) \subseteq Met(e, b)
  BY <1>2, <1>3, PhaseFields
<1> HIDE DEF d
<1>9. Acts(e, b, d, inbox[e], inbox'[e]) /\ answered' \in SUBSET Session
  BY <1>1, <1>7, <1>8 DEF Acts, LocalInv, TypeOK
<1>10. QED
  BY <1>1, <1>5, <1>7, <1>8, <1>9, StepInv

LEMMA AcceptDoneInv ==
  ASSUME LocalInv, NEW e \in Endpoint, AcceptDone(e)
  PROVE  LocalInv'
<1> DEFINE b == conf[e]
           s == b.session
           m == Jingle("accept", e, s)
           d == [b EXCEPT !.phase = "negotiated"]
<1>1. Here(e) /\ b.phase = "accepting" /\ UNCHANGED <<room, answered>>
  BY DEF AcceptDone
<1>2. Sound(e, b) /\ OnlyOK(e, b) /\ DeferredOK(b)
  BY <1>1, HereGood
<1>3. s # None /\ Between(e, s) /\ s.to = e
  BY <1>1, <1>2 DEF Sound, StateOK
<1>4. Other(e, s) = s.by
  BY <1>3, PeersType DEF Other
<1>5. inbox' = Deliver(inbox, {Other(e, s)}, m) /\ conf' = [conf EXCEPT ![e] = d]
  BY <1>4 DEF AcceptDone
<1>6. m.type = "accept"
  BY DEF Jingle
<1>7. /\ inbox' = [x \in Endpoint |-> inbox'[x]] /\ inbox'[e] = inbox[e]
      /\ \A x \in Endpoint \ {e} : Sends(e, x, inbox[x], inbox'[x])
  BY <1>1, <1>3, <1>5, <1>6, JingleSends
<1>8. /\ Sound(e, d) /\ OnlyOK(e, d) /\ DeferredOK(d)
      /\ d.peers = b.peers /\ Met(e, d) \subseteq Met(e, b)
  BY <1>2, <1>3, PhaseFields
<1> HIDE DEF d
<1>9. Acts(e, b, d, inbox[e], inbox'[e]) /\ answered' \in SUBSET Session
  BY <1>1, <1>7, <1>8 DEF Acts, LocalInv, TypeOK
<1>10. QED
  BY <1>1, <1>5, <1>7, <1>8, <1>9, StepInv

LEMMA OldInviteDoneInv ==
  ASSUME LocalInv, NEW e \in Endpoint, OldInviteDone(e)
  PROVE  LocalInv'
<1> DEFINE b == conf[e]
<1>1. Here(e) /\ UNCHANGED <<room, answered>>
  BY DEF OldInviteDone
<1>2. PICK s \in b.late :
        /\ conf' = [conf EXCEPT ![e].late = @ \ {s}]
        /\ inbox' = inbox \/ inbox' = Deliver(inbox, {s.to}, Jingle("initiate", e, s))
  BY DEF OldInviteDone
<1> DEFINE m == Jingle("initiate", e, s)
           d == [b EXCEPT !.late = @ \ {s}]
<1>3. b \in Conference /\ Good(e, b)
  BY <1>1, HereGood
<1>4. Between(e, s) /\ s.by = e
  BY <1>3 DEF Good, StateOK
<1>5. Other(e, s) = s.to
  BY <1>4 DEF Other
<1>6. d \in Conference
  BY <1>3 DEF Conference
<1>7. /\ d.peers = b.peers /\ d.bots = b.bots /\ d.session = b.session /\ d.phase = b.phase
      /\ d.p2p = b.p2p /\ d.deferred = b.deferred
      /\ d.made = b.made /\ d.jvb = b.jvb /\ d.jvbMedia = b.jvbMedia /\ d.jvbTracks = b.jvbTracks
      /\ d.p2pTracks = b.p2pTracks /\ d.shown = b.shown /\ d.e2ee = b.e2ee /\ d.toggles = b.toggles
      /\ d.switching = b.switching /\ d.late = b.late \ {s} /\ d.parked = b.parked
      /\ d.outdated = b.outdated
  BY <1>3 DEF Conference
<1>8. conf' = [conf EXCEPT ![e] = d]
  BY <1>2
<1> HIDE DEF d
<1>9. /\ Sound(e, d) /\ OnlyOK(e, d) /\ DeferredOK(d) /\ Met(e, d) = Met(e, b)
  BY <1>3, <1>6, <1>7
  DEF Good, Sound, StateOK, OnlyOK, DeferredOK, TracksOK, MediaOK, Closing, Met
<1>10. answered' \in SUBSET Session
  BY <1>1 DEF LocalInv, TypeOK
<1>11. CASE inbox' = inbox
  BY <1>1, <1>7, <1>8, <1>9, <1>10, <1>11, OwnStep
<1>12. CASE inbox' = Deliver(inbox, {s.to}, m)
  <2>1. m.type = "initiate"
    BY DEF Jingle
  <2>2. /\ inbox' = [x \in Endpoint |-> inbox'[x]] /\ inbox'[e] = inbox[e]
        /\ \A x \in Endpoint \ {e} : Sends(e, x, inbox[x], inbox'[x])
    BY <1>1, <1>4, <1>5, <1>12, <2>1, JingleSends
  <2>3. Acts(e, b, d, inbox[e], inbox'[e])
    BY <1>7, <1>9, <2>2 DEF Acts
  <2>4. QED
    BY <1>1, <1>8, <1>9, <1>10, <2>2, <2>3, StepInv
<1>13. QED
  BY <1>2, <1>11, <1>12

(* Tracks are surfaced or withdrawn, of those on the other connection as   *)
(* well: nothing else changes.                                             *)
SameCall(c, d) ==
  /\ d.peers = c.peers /\ d.bots = c.bots /\ d.session = c.session /\ d.phase = c.phase
  /\ d.deferred = c.deferred /\ d.made = c.made /\ d.e2ee = c.e2ee /\ d.toggles = c.toggles
  /\ d.switching = c.switching /\ d.late = c.late /\ d.outdated = c.outdated

LEMMA SameCallStep ==
  ASSUME NEW e, NEW c, NEW d, SameCall(c, d), StateOK(e, c), OnlyOK(e, c), DeferredOK(c),
         d.jvbTracks \subseteq c.jvbTracks \cup c.peers
  PROVE  /\ StateOK(e, d) /\ OnlyOK(e, d) /\ DeferredOK(d)
         /\ d.peers = c.peers /\ Met(e, d) \subseteq Met(e, c)
<1>1. StateOK(e, d)
  BY DEF SameCall, StateOK
<1>2. OnlyOK(e, d) /\ DeferredOK(d)
  BY DEF SameCall, OnlyOK, DeferredOK
<1>3. Met(e, d) \subseteq Met(e, c) /\ d.peers = c.peers
  BY DEF SameCall, Met
<1>4. QED
  BY <1>1, <1>2, <1>3

LEMMA P2PTrackAddedInv ==
  ASSUME LocalInv, NEW e \in Endpoint, P2PTrackAdded(e)
  PROVE  LocalInv'
<1> DEFINE b == conf[e]
           owners == {Other(e, b.session)}
           c == [b EXCEPT !.p2pTracks = owners]
           shown == b.shown \cup ({"p2p"} \X (owners \cap b.peers))
           d == Added(c, "p2p", owners)
<1>1. Here(e) /\ b.phase = "negotiated" /\ b.p2pTracks = {} /\ UNCHANGED <<room, inbox, answered>>
  BY DEF P2PTrackAdded
<1>2. b \in Conference /\ StateOK(e, b) /\ OnlyOK(e, b) /\ DeferredOK(b) /\ TracksOK(e, b) /\ MediaOK(b)
  BY <1>1, HereGood DEF Good
<1>3. b.session # None /\ owners \subseteq Endpoint
  BY <1>1, <1>2, PeersType DEF StateOK
<1>4. conf' = [conf EXCEPT ![e] = d]
  BY DEF P2PTrackAdded
<1> HIDE DEF owners
<1>5. /\ c \in Conference /\ SameCall(b, c) /\ c.jvb = b.jvb /\ c.jvbMedia = b.jvbMedia
      /\ c.jvbTracks = b.jvbTracks /\ c.parked = b.parked /\ c.p2p = b.p2p
      /\ c.p2pTracks = owners /\ c.shown = b.shown
  BY <1>2, <1>3 DEF Conference, SameCall
<1>6. shown \in SUBSET ({"jvb", "p2p"} \X Endpoint)
  BY <1>2, <1>3 DEF Conference
<1>7. d = IF b.p2p THEN [c EXCEPT !.shown = shown] ELSE c
  BY <1>2, <1>5 DEF Added, SameCall, Conference
<1>8. \A q \in Endpoint :
        /\ <<"jvb", q>> \in shown <=> <<"jvb", q>> \in b.shown
        /\ <<"p2p", q>> \in shown <=> <<"p2p", q>> \in b.shown \/ q \in owners \cap b.peers
  OBVIOUS
<1> HIDE DEF c, d, shown
<1>9. /\ d \in Conference /\ SameCall(b, d) /\ d.jvb = b.jvb /\ d.jvbMedia = b.jvbMedia
      /\ d.jvbTracks = b.jvbTracks /\ d.parked = b.parked /\ d.p2p = b.p2p
      /\ d.p2pTracks = owners /\ d.shown = IF b.p2p THEN shown ELSE b.shown
  BY <1>5, <1>6, <1>7 DEF Conference, SameCall
<1>10. TracksOK(e, d)
  BY <1>1, <1>2, <1>3, <1>8, <1>9 DEF TracksOK, SameCall, Closing, owners
<1>11. MediaOK(d)
  BY <1>2, <1>9 DEF MediaOK
<1>12. /\ StateOK(e, d) /\ OnlyOK(e, d) /\ DeferredOK(d)
       /\ d.peers = b.peers /\ Met(e, d) \subseteq Met(e, b)
  BY <1>2, <1>9, SameCallStep
<1>13. answered' \in SUBSET Session
  BY <1>1 DEF LocalInv, TypeOK
<1>14. QED
  BY <1>1, <1>4, <1>9, <1>10, <1>11, <1>12, <1>13, OwnStep DEF Sound

LEMMA IceConnectedInv ==
  ASSUME LocalInv, NEW e \in Endpoint, IceConnected(e)
  PROVE  LocalInv'
<1> DEFINE b == conf[e]
           c == [SetP2PStatus(b, TRUE) EXCEPT !.parked = FALSE]
           x == IF c.jvb = "none" THEN c ELSE SuspendJvbMedia(RemoveRemoteTracks(c, "jvb"))
           d == AddRemoteTracks(x, "p2p")
           rest == b.shown \ ({"jvb"} \X b.jvbTracks)
           left == IF b.jvb = "none" THEN b.shown ELSE rest
           shown == left \cup ({"p2p"} \X (b.p2pTracks \cap b.peers))
<1>1. Here(e) /\ b.phase = "negotiated" /\ ~b.p2p /\ UNCHANGED <<room, answered>>
  BY DEF IceConnected
<1>2. Sound(e, b) /\ OnlyOK(e, b) /\ DeferredOK(b) /\ answered' \in SUBSET Session
  BY <1>1, HereGood DEF LocalInv, TypeOK
<1>3. b \in Conference /\ StateOK(e, b) /\ TracksOK(e, b) /\ MediaOK(b)
  BY <1>2 DEF Sound
<1>4. Become(e, d) \/ Become(e, StopP2PSession(b, FALSE))
  BY DEF IceConnected
<1>5. CASE Become(e, d)
  <2>1. rest \in SUBSET ({"jvb", "p2p"} \X Endpoint) /\ shown \in SUBSET ({"jvb", "p2p"} \X Endpoint)
    BY <1>3 DEF Conference
  <2>2. \A q \in Endpoint :
          /\ <<"p2p", q>> \in shown <=> <<"p2p", q>> \in b.shown \/ q \in b.p2pTracks \cap b.peers
          /\ <<"jvb", q>> \in shown <=>
               <<"jvb", q>> \in b.shown /\ (b.jvb = "none" \/ q \notin b.jvbTracks)
    BY DEF shown
  <2>3. /\ c \in Conference /\ SameCall(b, c) /\ c.jvb = b.jvb /\ c.jvbMedia = b.jvbMedia
        /\ c.jvbTracks = b.jvbTracks /\ c.parked = FALSE /\ c.p2p = TRUE
        /\ c.p2pTracks = b.p2pTracks /\ c.shown = b.shown
    BY <1>3 DEF Conference, SameCall, SetP2PStatus
  <2> HIDE DEF c, rest
  <2>4. /\ x \in Conference /\ SameCall(b, x) /\ x.jvb = b.jvb
        /\ (x.jvbMedia <=> b.jvb = "none" /\ b.jvbMedia)
        /\ x.jvbTracks = b.jvbTracks /\ x.parked = FALSE /\ x.p2p = TRUE
        /\ x.p2pTracks = b.p2pTracks /\ x.shown = left
    <3>1. CASE b.jvb = "none"
      BY <2>3, <3>1
    <3>2. CASE b.jvb # "none"
      <4>1. RemoveRemoteTracks(c, "jvb") = [c EXCEPT !.shown = rest]
        BY <2>3 DEF RemoveRemoteTracks, Removed, TracksOf, rest
      <4>2. x = [[c EXCEPT !.shown = rest] EXCEPT !.jvbMedia = FALSE]
        BY <2>3, <3>2, <4>1 DEF SuspendJvbMedia
      <4>3. left = rest
        BY <3>2
      <4> HIDE DEF x, left
      <4>4. QED
        BY <2>1, <2>3, <3>2, <4>2, <4>3 DEF Conference, SameCall
    <3>3. QED
      BY <3>1, <3>2
  <2> HIDE DEF x, left
  <2>5. d = [x EXCEPT !.shown = shown]
    <3>1. x.peers = b.peers
      BY <2>4 DEF SameCall
    <3>2. QED
      BY <2>4, <3>1 DEF AddRemoteTracks, Added, TracksOf
  <2> HIDE DEF d, shown
  <2>6. /\ d \in Conference /\ SameCall(b, d) /\ d.jvb = b.jvb
        /\ (d.jvbMedia <=> b.jvb = "none" /\ b.jvbMedia)
        /\ d.jvbTracks = b.jvbTracks /\ d.parked = FALSE /\ d.p2p = TRUE
        /\ d.p2pTracks = b.p2pTracks /\ d.shown = shown
    BY <2>1, <2>4, <2>5 DEF Conference, SameCall
  <2>7. TracksOK(e, d)
    <3>1. d.p2p => d.phase = "negotiated" /\ ~d.parked
      BY <1>1, <2>6 DEF SameCall
    <3>2. d.p2pTracks \subseteq IF d.session = None THEN {} ELSE {Other(e, d.session)}
      BY <1>3, <2>6 DEF TracksOK, SameCall
    <3>3. d.peers = b.peers
      BY <2>6 DEF SameCall
    <3>4. \A q \in Endpoint : <<"p2p", q>> \in shown <=> q \in b.p2pTracks \cap b.peers
      BY <1>1, <1>3, <2>2 DEF TracksOK
    <3>5. \A q \in Endpoint : <<"jvb", q>> \in shown => <<"jvb", q>> \in b.shown /\ b.jvb = "none"
      BY <1>3, <2>2 DEF TracksOK
    <3>6. \A q \in Endpoint : <<"jvb", q>> \in shown => q \in b.jvbTracks \cap b.peers
      BY <1>3, <3>5 DEF TracksOK
    <3>7. ~Closing(d) => \A q \in Endpoint : <<"jvb", q>> \notin shown
      BY <2>6, <3>5, <3>6 DEF Closing
    <3>8. QED
      BY <2>6, <3>1, <3>2, <3>3, <3>4, <3>6, <3>7 DEF TracksOK
  <2>8. MediaOK(d)
    BY <2>6 DEF MediaOK
  <2>9. /\ StateOK(e, d) /\ OnlyOK(e, d) /\ DeferredOK(d)
        /\ d.peers = b.peers /\ Met(e, d) \subseteq Met(e, b)
    BY <1>2, <1>3, <2>6, SameCallStep
  <2>10. conf' = [conf EXCEPT ![e] = d] /\ inbox' = Goodbyes(inbox, e, b, d, FALSE)
    BY <1>5 DEF Become
  <2>11. QED
    BY <1>1, <1>2, <2>6, <2>7, <2>8, <2>9, <2>10, BecomeStep DEF Sound
<1>6. CASE Become(e, StopP2PSession(b, FALSE))
  BY <1>1, <1>2, <1>6, StoppedGood, BecomeStep DEF Become
<1>7. QED
  BY <1>4, <1>5, <1>6

LEMMA IceFailedInv ==
  ASSUME LocalInv, NEW e \in Endpoint, IceFailed(e)
  PROVE  LocalInv'
<1> DEFINE b == conf[e]
           d == StopP2PSession(b, FALSE)
<1>1. Here(e) /\ UNCHANGED <<room, answered>> /\ Become(e, d)
  BY DEF IceFailed
<1>2. Sound(e, b) /\ OnlyOK(e, b) /\ DeferredOK(b) /\ answered' \in SUBSET Session
  BY <1>1, HereGood DEF LocalInv, TypeOK
<1>3. /\ Sound(e, d) /\ OnlyOK(e, d) /\ DeferredOK(d)
      /\ d.peers = b.peers /\ Met(e, d) \subseteq Met(e, b)
  BY <1>2, StoppedGood
<1> HIDE DEF d
<1>4. QED
  BY <1>1, <1>2, <1>3, BecomeStep DEF Become

(* The peer connection of a stopped session is gone.                       *)
LEMMA ClosedFields ==
  ASSUME NEW e, NEW c, Sound(e, c), OnlyOK(e, c), DeferredOK(c)
  PROVE  LET d == [c EXCEPT !.stale = FALSE]
         IN  /\ Sound(e, d) /\ OnlyOK(e, d) /\ DeferredOK(d)
             /\ d.peers = c.peers /\ Met(e, d) \subseteq Met(e, c)
<1> DEFINE d == [c EXCEPT !.stale = FALSE]
<1>1. /\ d \in Conference /\ SameCall(c, d) /\ d.jvb = c.jvb /\ d.jvbMedia = c.jvbMedia
      /\ d.jvbTracks = c.jvbTracks /\ d.parked = c.parked /\ d.p2p = c.p2p
      /\ d.p2pTracks = c.p2pTracks /\ d.shown = c.shown
  BY DEF Sound, Conference, SameCall
<1> HIDE DEF d
<1>2. /\ StateOK(e, d) /\ OnlyOK(e, d) /\ DeferredOK(d)
      /\ d.peers = c.peers /\ Met(e, d) \subseteq Met(e, c)
  BY <1>1, SameCallStep DEF Sound
<1>3. TracksOK(e, d) /\ MediaOK(d)
  BY <1>1 DEF Sound, TracksOK, MediaOK, Closing, SameCall
<1>4. QED
  BY <1>1, <1>2, <1>3 DEF Sound, d

LEMMA OldConnectionFailedInv ==
  ASSUME LocalInv, NEW e \in Endpoint, OldConnectionFailed(e)
  PROVE  LocalInv'
<1> DEFINE b == conf[e]
           c == StopP2PSession(b, FALSE)
           d == [c EXCEPT !.stale = FALSE]
<1>1. Here(e) /\ UNCHANGED <<room, answered>> /\ Become(e, d)
  BY DEF OldConnectionFailed
<1>2. Sound(e, b) /\ OnlyOK(e, b) /\ DeferredOK(b) /\ answered' \in SUBSET Session
  BY <1>1, HereGood DEF LocalInv, TypeOK
<1>3. /\ Sound(e, c) /\ OnlyOK(e, c) /\ DeferredOK(c)
      /\ c.peers = b.peers /\ Met(e, c) \subseteq Met(e, b)
  BY <1>2, StoppedGood
<1> HIDE DEF c
<1>4. /\ Sound(e, d) /\ OnlyOK(e, d) /\ DeferredOK(d)
      /\ d.peers = c.peers /\ Met(e, d) \subseteq Met(e, c)
  BY <1>3, ClosedFields
<1> HIDE DEF d
<1>5. QED
  BY <1>1, <1>2, <1>3, <1>4, BecomeStep DEF Become

LEMMA OldConnectionClosedInv ==
  ASSUME LocalInv, NEW e \in Endpoint, OldConnectionClosed(e)
  PROVE  LocalInv'
<1> DEFINE b == conf[e]
           d == [b EXCEPT !.stale = FALSE]
<1>1. Here(e) /\ UNCHANGED <<room, inbox, answered>> /\ conf' = [conf EXCEPT ![e] = d]
  BY DEF OldConnectionClosed
<1>2. Sound(e, b) /\ OnlyOK(e, b) /\ DeferredOK(b) /\ answered' \in SUBSET Session
  BY <1>1, HereGood DEF LocalInv, TypeOK
<1>3. /\ Sound(e, d) /\ OnlyOK(e, d) /\ DeferredOK(d)
      /\ d.peers = b.peers /\ Met(e, d) \subseteq Met(e, b)
  BY <1>2, ClosedFields
<1> HIDE DEF d
<1>4. QED
  BY <1>1, <1>2, <1>3, OwnStep

LEMMA DeferredStartInv ==
  ASSUME LocalInv, NEW e \in Endpoint, DeferredStart(e)
  PROVE  LocalInv'
<1> DEFINE b == conf[e]
           alone == b.peers = {b.deferred} /\ b.bots = {}
           history == b.outdated \/ (b.session = None /\ b.toggles > 0 /\ ~alone)
           q == b.deferred
           c == StartP2PSession(e, b, q)
           d == [c EXCEPT !.outdated = history]
<1>1. q # None /\ UNCHANGED <<room, inbox, answered>> /\ answered' \in SUBSET Session
  BY DEF DeferredStart, LocalInv, TypeOK
<1>2. CASE Here(e)
  <2>1. conf' = [conf EXCEPT ![e] = d]
    BY <1>2 DEF DeferredStart
  <2>2. Sound(e, b) /\ OnlyOK(e, b) /\ DeferredOK(b)
    BY <1>2, HereGood
  <2>3. b \in Conference /\ StateOK(e, b) /\ q \in Endpoint /\ e < q /\ e \in Capable
    BY <1>1, <2>2 DEF Sound, StateOK, Conference
  <2>4. Sound(e, c)
    BY <2>2, <2>3, StartedSound
  <2>5. /\ SameRoom(b, c) /\ c.deferred = None
        /\ b.session # None => c.session = b.session /\ c.phase = b.phase
        /\ b.session = None => c.session = [by |-> e, to |-> q, n |-> b.made] /\ c.phase = "inviting"
    BY <2>3, StartedFields
  <2>6. history \in BOOLEAN /\ (history => b.toggles > 0)
    BY <2>2, <2>3 DEF StateOK, Conference
  <2> HIDE DEF c
  <2>7. /\ d \in Conference /\ SameRoom(b, d) /\ d.deferred = None /\ d.outdated = history
        /\ d.session = c.session /\ d.phase = c.phase /\ d.late = c.late /\ d.p2p = c.p2p
        /\ d.p2pTracks = c.p2pTracks /\ d.shown = c.shown /\ d.jvbMedia = c.jvbMedia
        /\ d.parked = c.parked
    BY <2>4, <2>5, <2>6, ZenonT(60) DEF Sound, Conference, SameRoom
  <2> HIDE DEF d
  <2>8. StateOK(e, d)
    BY <2>4, <2>5, <2>6, <2>7 DEF Sound, StateOK, SameRoom
  <2>9. TracksOK(e, d) /\ MediaOK(d)
    BY <2>4, <2>5, <2>7 DEF Sound, TracksOK, MediaOK, Closing, SameRoom
  <2>10. DeferredOK(d)
    BY <2>7 DEF DeferredOK
  <2>11. OnlyOK(e, d)
    <3>1. CASE b.session = None
      <4>1. Other(e, d.session) = q
        BY <2>5, <2>7, <3>1 DEF Other
      <4>2. ~history => alone
        BY <1>1, <2>2, <2>3, <3>1 DEF DeferredOK, Conference
      <4>3. QED
        BY <2>7, <4>1, <4>2 DEF OnlyOK, SameRoom
    <3>2. CASE b.session # None
      BY <2>2, <2>5, <2>7, <3>2 DEF OnlyOK, SameRoom
    <3>3. QED
      BY <3>1, <3>2
  <2>12. Met(e, d) \subseteq Met(e, b) /\ d.peers = b.peers
    <3>1. d.session = b.session \/ Other(e, d.session) = q
      BY <2>5, <2>7 DEF Other
    <3>2. QED
      BY <1>1, <2>7, <3>1 DEF Met, SameRoom
  <2>13. QED
    BY <1>1, <1>2, <2>1, <2>7, <2>8, <2>9, <2>10, <2>11, <2>12, OwnStep DEF Sound
<1>3. CASE ~Here(e)
  <2> DEFINE x == [b EXCEPT !.deferred = None]
  <2>1. conf' = [conf EXCEPT ![e] = x]
    BY <1>3 DEF DeferredStart
  <2>2. TypeOK /\ ConferenceOK /\ StreamOK /\ b \in Conference
    BY DEF LocalInv, TypeOK
  <2>3. room[e] = "left"
    <3>1. NewConference.deferred = None
      BY DEF NewConference
    <3>2. room[e] \in {"out", "bot"} => b = NewConference
      BY <2>2 DEF ConferenceOK
    <3>3. QED
      BY <1>1, <1>3, <2>2, <3>1, <3>2 DEF TypeOK, Here
  <2>4. b = [NewConference EXCEPT !.p2p = b.p2p, !.deferred = b.deferred]
    BY <2>2, <2>3 DEF ConferenceOK
  <2>5. x = [NewConference EXCEPT !.p2p = x.p2p, !.deferred = x.deferred]
    BY <2>4 DEF NewConference
  <2>6. x \in Conference /\ x.peers = b.peers /\ Met(e, x) \subseteq Met(e, b)
    BY <2>2 DEF Conference, Met
  <2> HIDE DEF x
  <2>7. conf'[e] = x /\ \A y \in Endpoint \ {e} : conf'[y] = conf[y]
    BY <2>1, <2>2 DEF TypeOK
  <2>8. TypeOK'
    BY <1>1, <2>1, <2>2, <2>6 DEF TypeOK
  <2>9. ConferenceOK'
    BY <1>1, <2>2, <2>3, <2>5, <2>7 DEF ConferenceOK, Good, Here
  <2>10. ASSUME NEW y \in Endpoint
         PROVE  Stream(y)'
    <3>1. Stream(y) /\ room' = room
      BY <1>1, <2>2 DEF StreamOK
    <3>2. CASE y = e
      BY <1>1, <2>2, <2>6, <2>7, <3>1, <3>2, ActedStream DEF Acts
    <3>3. CASE y # e
      BY <1>1, <2>2, <2>7, <3>1, <3>3, SentStream DEF Sends
    <3>4. QED
      BY <3>2, <3>3
  <2>11. QED
    BY <2>8, <2>9, <2>10 DEF LocalInv, StreamOK
<1>4. QED
  BY <1>2, <1>3

LEMMA RestartConference ==
  ASSUME LocalInv, NEW e \in Endpoint, Here(e), conf[e].switching
  PROVE  LET b == conf[e]
             c0 == StopP2PSession([b EXCEPT !.switching = FALSE], TRUE)
             c == [c0 EXCEPT !.jvb = IF c0.jvb = "none" THEN "none" ELSE "ended"]
             d == MaybeStartOrStopP2P(e, c, FALSE)
         IN  /\ Sound(e, d) /\ OnlyOK(e, d) /\ DeferredOK(d)
             /\ d.peers = b.peers /\ Met(e, d) \subseteq Met(e, b)
             /\ c0.session = None /\ (Keeps(b, c0) \/ Drops(b, c0))
             /\ Keeps(c0, d) \/ Begins(e, c0, d)
<1> DEFINE b == conf[e]
           b0 == [b EXCEPT !.switching = FALSE]
           c0 == StopP2PSession(b0, TRUE)
           jvb == IF c0.jvb = "none" THEN "none" ELSE "ended"
           c == [c0 EXCEPT !.jvb = jvb]
           d == MaybeStartOrStopP2P(e, c, FALSE)
<1>1. b \in Conference /\ StateOK(e, b) /\ TracksOK(e, b) /\ MediaOK(b)
  BY HereGood DEF Sound
<1>2. b.toggles > 0
  BY <1>1 DEF StateOK
<1>3. /\ b0 \in Conference /\ b0.peers = b.peers /\ b0.bots = b.bots /\ b0.session = b.session
      /\ b0.phase = b.phase /\ b0.deferred = b.deferred /\ b0.made = b.made /\ b0.e2ee = b.e2ee
      /\ b0.toggles = b.toggles /\ b0.late = b.late /\ b0.outdated = b.outdated
      /\ b0.switching = FALSE /\ b0.jvb = b.jvb /\ b0.jvbMedia = b.jvbMedia
      /\ b0.jvbTracks = b.jvbTracks /\ b0.parked = b.parked /\ b0.p2p = b.p2p
      /\ b0.p2pTracks = b.p2pTracks /\ b0.shown = b.shown
  BY <1>1 DEF Conference
<1> HIDE DEF b0
<1>4. StateOK(e, b0)
  BY <1>1, <1>3 DEF StateOK
<1>5. Sound(e, b0)
  BY <1>1, <1>3, <1>4 DEF Sound, TracksOK, MediaOK, Closing
<1>6. Met(e, b0) = Met(e, b)
  BY <1>3 DEF Met
<1>7. /\ Sound(e, c0) /\ SameRoom(b0, c0) /\ c0.deferred = b0.deferred /\ c0.session = None
      /\ Keeps(b0, c0) \/ Drops(b0, c0)
  <2>1. CASE b0.session = None
    BY <1>5, <2>1 DEF StopP2PSession, SameRoom, Keeps
  <2>2. CASE b0.session # None
    <3>1. Sound(e, c0)
      BY <1>5, <2>2, StoppedSound
    <3>2. /\ SameRoom(b0, c0) /\ c0.deferred = b0.deferred /\ c0.session = None
          /\ c0.phase = "none" /\ c0.made = b0.made /\ c0.p2p = FALSE
          /\ c0.late = IF b0.phase = "inviting" THEN b0.late \cup {b0.session} ELSE b0.late
      BY <1>3, <2>2, StoppedFields
    <3> HIDE DEF c0
    <3>3. QED
      BY <2>2, <3>1, <3>2 DEF Drops
  <2>3. QED
    BY <2>1, <2>2
<1> HIDE DEF c0
<1>8. /\ c \in Conference /\ SameCall(c0, c) /\ c.jvbMedia = c0.jvbMedia
       /\ c.jvbTracks = c0.jvbTracks /\ c.parked = c0.parked /\ c.p2p = c0.p2p
       /\ c.p2pTracks = c0.p2pTracks /\ c.shown = c0.shown /\ c.jvb = jvb
  BY <1>7 DEF Sound, Conference, SameCall
<1> HIDE DEF c
<1>9. Sound(e, c)
  <2>1. StateOK(e, c)
    BY <1>7, <1>8 DEF Sound, StateOK, SameCall
  <2>2. MediaOK(c)
    BY <1>8 DEF MediaOK
  <2>3. ~c0.p2p
    BY <1>7 DEF Sound, TracksOK, StateOK
  <2>4. TracksOK(e, c)
    BY <1>7, <1>8, <2>3 DEF Sound, TracksOK, SameCall, Closing
  <2>5. QED
    BY <1>8, <2>1, <2>2, <2>4 DEF Sound
<1>10. c.session = None /\ c.toggles # 0
  <2>1. c.toggles = b.toggles /\ b.toggles \in Nat
    BY <1>1, <1>3, <1>7, <1>8 DEF SameRoom, SameCall, Conference
  <2>2. QED
    BY <1>2, <1>7, <1>8, <2>1 DEF SameCall
<1>11. Expected(e, c)
  BY <1>10 DEF Expected
<1>12. /\ Sound(e, d) /\ OnlyOK(e, d) /\ DeferredOK(d)
       /\ SameRoom(c, d) /\ (d.deferred = c.deferred \/ d.deferred \in c.peers \cup {None})
       /\ Keeps(c, d) \/ Drops(c, d) \/ Begins(e, c, d)
  BY <1>9, <1>11, MaybeSound
<1> HIDE DEF d
<1>13. Met(e, d) \subseteq Met(e, c) /\ d.peers = c.peers
  BY <1>12, MetShrinks
<1>14. Met(e, c) \subseteq Met(e, b) /\ c.peers = b.peers
  BY <1>3, <1>6, <1>7, <1>8 DEF Met, SameRoom, SameCall
<1>15. Keeps(b, c0) \/ Drops(b, c0)
  BY <1>3, <1>7 DEF Keeps, Drops
<1>16. Keeps(c0, d) \/ Begins(e, c0, d)
  <2>1. ~Drops(c, d)
    BY <1>10 DEF Drops
  <2>2. Keeps(c, d) => Keeps(c0, d)
    BY <1>8 DEF Keeps, SameCall
  <2>3. Begins(e, c, d) => Begins(e, c0, d)
    BY <1>8 DEF Begins, SameCall
  <2>4. QED
    BY <1>12, <2>1, <2>2, <2>3
<1>17. QED
  BY <1>7, <1>12, <1>13, <1>14, <1>15, <1>16 DEF d, c, c0, b0, jvb

LEMMA RestartMediaSessionsInv ==
  ASSUME LocalInv, NEW e \in Endpoint, RestartMediaSessions(e)
  PROVE  LocalInv'
<1> DEFINE b == conf[e]
           c0 == StopP2PSession([b EXCEPT !.switching = FALSE], TRUE)
           c == [c0 EXCEPT !.jvb = IF c0.jvb = "none" THEN "none" ELSE "ended"]
           d == MaybeStartOrStopP2P(e, c, FALSE)
<1>1. Here(e) /\ b.switching /\ UNCHANGED <<room, answered>> /\ answered' \in SUBSET Session
  BY DEF RestartMediaSessions, LocalInv, TypeOK
<1>2. conf' = [conf EXCEPT ![e] = d] /\ inbox' = Goodbyes(inbox, e, b, d, TRUE)
  BY DEF RestartMediaSessions
<1>3. /\ Sound(e, d) /\ OnlyOK(e, d) /\ DeferredOK(d)
      /\ d.peers = b.peers /\ Met(e, d) \subseteq Met(e, b)
  BY <1>1, RestartConference
<1> HIDE DEF d
<1>4. QED
  BY <1>1, <1>2, <1>3, BecomeStep

-----------------------------------------------------------------------------
(* The JVB session and the encryption.                                     *)

LEMMA JvbInvitedInv ==
  ASSUME LocalInv, NEW e \in Endpoint, JvbInvited(e)
  PROVE  LocalInv'
<1> DEFINE b == conf[e]
           d == [b EXCEPT !.jvb = "accepting", !.jvbMedia = TRUE, !.parked = FALSE]
<1>1. /\ Here(e) /\ UNCHANGED <<room, inbox, answered>> /\ conf' = [conf EXCEPT ![e] = d]
      /\ b.jvbTracks = {}
  BY DEF JvbInvited
<1>2. Sound(e, b) /\ OnlyOK(e, b) /\ DeferredOK(b) /\ answered' \in SUBSET Session
  BY <1>1, HereGood DEF LocalInv, TypeOK
<1>3. /\ d \in Conference /\ SameCall(b, d) /\ d.jvb = "accepting" /\ d.jvbMedia = TRUE
      /\ d.jvbTracks = b.jvbTracks /\ d.parked = FALSE /\ d.p2p = b.p2p
      /\ d.p2pTracks = b.p2pTracks /\ d.shown = b.shown
  BY <1>2 DEF Sound, Conference, SameCall
<1> HIDE DEF d
<1>4. /\ StateOK(e, d) /\ OnlyOK(e, d) /\ DeferredOK(d)
      /\ d.peers = b.peers /\ Met(e, d) \subseteq Met(e, b)
  BY <1>2, <1>3, SameCallStep DEF Sound
<1>5. TracksOK(e, d) /\ MediaOK(d)
  BY <1>1, <1>2, <1>3 DEF Sound, TracksOK, MediaOK, Closing, SameCall
<1>6. QED
  BY <1>1, <1>2, <1>3, <1>4, <1>5, OwnStep DEF Sound

LEMMA JvbAcceptedInv ==
  ASSUME LocalInv, NEW e \in Endpoint, JvbAccepted(e)
  PROVE  LocalInv'
<1> DEFINE b == conf[e]
           media == b.jvbMedia /\ ~b.p2p
           d == [b EXCEPT !.jvb = "live", !.jvbMedia = media]
<1>1. /\ Here(e) /\ UNCHANGED <<room, inbox, answered>> /\ conf' = [conf EXCEPT ![e] = d]
      /\ b.jvb = "accepting"
  BY DEF JvbAccepted, LocalInv, TypeOK, Conference
<1>2. Sound(e, b) /\ OnlyOK(e, b) /\ DeferredOK(b) /\ answered' \in SUBSET Session
  BY <1>1, HereGood DEF LocalInv, TypeOK
<1>3. media \in BOOLEAN
  BY <1>2 DEF Sound, Conference
<1> HIDE DEF media
<1>4. /\ d \in Conference /\ SameCall(b, d) /\ d.jvb = "live" /\ d.jvbMedia = media
      /\ d.jvbTracks = b.jvbTracks /\ d.parked = b.parked /\ d.p2p = b.p2p
      /\ d.p2pTracks = b.p2pTracks /\ d.shown = b.shown
  BY <1>2, <1>3 DEF Sound, Conference, SameCall
<1> HIDE DEF d
<1>5. /\ StateOK(e, d) /\ OnlyOK(e, d) /\ DeferredOK(d)
      /\ d.peers = b.peers /\ Met(e, d) \subseteq Met(e, b)
  BY <1>2, <1>4, SameCallStep DEF Sound
<1>6. TracksOK(e, d)
  BY <1>1, <1>2, <1>4 DEF Sound, TracksOK, Closing, SameCall
<1>7. MediaOK(d)
  BY <1>1, <1>2, <1>4 DEF Sound, MediaOK, media
<1>8. QED
  BY <1>1, <1>2, <1>4, <1>5, <1>6, <1>7, OwnStep DEF Sound

LEMMA JvbTerminatedInv ==
  ASSUME LocalInv, NEW e \in Endpoint, JvbTerminated(e)
  PROVE  LocalInv'
<1> DEFINE b == conf[e]
           d == [b EXCEPT !.jvb = "none"]
<1>1. /\ Here(e) /\ UNCHANGED <<room, inbox, answered>> /\ conf' = [conf EXCEPT ![e] = d]
      /\ b.jvb \in {"accepting", "live"}
  BY DEF JvbTerminated
<1>2. Sound(e, b) /\ OnlyOK(e, b) /\ DeferredOK(b) /\ answered' \in SUBSET Session
  BY <1>1, HereGood DEF LocalInv, TypeOK
<1>3. /\ d \in Conference /\ SameCall(b, d) /\ d.jvb = "none" /\ d.jvbMedia = b.jvbMedia
      /\ d.jvbTracks = b.jvbTracks /\ d.parked = b.parked /\ d.p2p = b.p2p
      /\ d.p2pTracks = b.p2pTracks /\ d.shown = b.shown
  BY <1>2 DEF Sound, Conference, SameCall
<1> HIDE DEF d
<1>4. /\ StateOK(e, d) /\ OnlyOK(e, d) /\ DeferredOK(d)
      /\ d.peers = b.peers /\ Met(e, d) \subseteq Met(e, b)
  BY <1>2, <1>3, SameCallStep DEF Sound
<1>5. TracksOK(e, d) /\ MediaOK(d)
  BY <1>1, <1>2, <1>3 DEF Sound, TracksOK, MediaOK, Closing, SameCall
<1>6. QED
  BY <1>1, <1>2, <1>3, <1>4, <1>5, OwnStep DEF Sound

(* The tracks of the JVB session change, and those shown of them.          *)
LEMMA JvbTracksStep ==
  ASSUME LocalInv, NEW e \in Endpoint, Here(e), UNCHANGED <<room, inbox, answered>>,
         NEW tracks \in SUBSET Endpoint, tracks \subseteq conf[e].jvbTracks \cup conf[e].peers,
         NEW shown \in SUBSET ({"jvb", "p2p"} \X Endpoint),
         conf' = [conf EXCEPT ![e].jvbTracks = tracks, ![e].shown = shown],
         \A q \in Endpoint : <<"p2p", q>> \in shown <=> <<"p2p", q>> \in conf[e].shown,
         \A q \in Endpoint : <<"jvb", q>> \in shown => q \in tracks \cap conf[e].peers,
         LET b == conf[e] IN
           ~(b.jvb \in {"none", "ended"} /\ tracks # {}) /\ ~b.parked =>
             \A q \in Endpoint : <<"jvb", q>> \in shown <=> ~b.p2p /\ q \in tracks \cap b.peers
  PROVE  LocalInv'
<1> DEFINE b == conf[e]
           d == [b EXCEPT !.jvbTracks = tracks, !.shown = shown]
<1>1. Sound(e, b) /\ OnlyOK(e, b) /\ DeferredOK(b) /\ answered' \in SUBSET Session
  BY HereGood DEF LocalInv, TypeOK
<1>2. conf' = [conf EXCEPT ![e] = d]
  BY DEF LocalInv, TypeOK
<1>3. /\ d \in Conference /\ SameCall(b, d) /\ d.jvb = b.jvb /\ d.jvbMedia = b.jvbMedia
      /\ d.jvbTracks = tracks /\ d.parked = b.parked /\ d.p2p = b.p2p
      /\ d.p2pTracks = b.p2pTracks /\ d.shown = shown
  BY <1>1 DEF Sound, Conference, SameCall
<1> HIDE DEF d
<1>4. /\ StateOK(e, d) /\ OnlyOK(e, d) /\ DeferredOK(d)
      /\ d.peers = b.peers /\ Met(e, d) \subseteq Met(e, b)
  BY <1>1, <1>3, SameCallStep DEF Sound
<1>5. TracksOK(e, d) /\ MediaOK(d)
  BY <1>1, <1>3 DEF Sound, TracksOK, MediaOK, Closing, SameCall
<1>6. QED
  BY <1>1, <1>2, <1>3, <1>4, <1>5, OwnStep DEF Sound

LEMMA JvbClosedInv ==
  ASSUME LocalInv, NEW e \in Endpoint, JvbClosed(e)
  PROVE  LocalInv'
<1> DEFINE b == conf[e]
           shown == b.shown \ ({"jvb"} \X b.jvbTracks)
<1>1. Here(e) /\ UNCHANGED <<room, inbox, answered>>
  BY DEF JvbClosed
<1>2. b \in Conference /\ TracksOK(e, b)
  BY <1>1, HereGood DEF Sound
<1>3. shown \in SUBSET ({"jvb", "p2p"} \X Endpoint) /\ conf \in [Endpoint -> Conference]
  BY <1>2 DEF Conference, LocalInv, TypeOK
<1>4. conf' = [conf EXCEPT ![e].jvbTracks = {}, ![e].shown = shown]
  <2>1. RemoveRemoteTracks(b, "jvb") = [b EXCEPT !.shown = shown]
    BY DEF RemoveRemoteTracks, Removed, TracksOf
  <2>2. conf' = [conf EXCEPT ![e] = [[b EXCEPT !.shown = shown] EXCEPT !.jvbTracks = {}]]
    BY <2>1 DEF JvbClosed
  <2> HIDE DEF shown
  <2>3. QED
    BY <1>2, <1>3, <2>2 DEF Conference
<1>5. \A q \in Endpoint : /\ <<"p2p", q>> \in shown <=> <<"p2p", q>> \in b.shown
                          /\ <<"jvb", q>> \notin shown
  BY <1>2 DEF TracksOK
<1> HIDE DEF shown
<1>6. QED
  BY <1>1, <1>3, <1>4, <1>5, JvbTracksStep

LEMMA JvbTrackAddedInv ==
  ASSUME LocalInv, NEW e \in Endpoint, JvbTrackAdded(e)
  PROVE  LocalInv'
<1> DEFINE b == conf[e]
<1>1. Here(e) /\ UNCHANGED <<room, inbox, answered>> /\ b.jvb \in {"accepting", "live"}
  BY DEF JvbTrackAdded
<1>2. PICK q \in b.peers \ b.jvbTracks :
        conf' = [conf EXCEPT ![e] = Added([b EXCEPT !.jvbTracks = @ \cup {q}], "jvb", {q})]
  BY DEF JvbTrackAdded
<1> DEFINE tracks == b.jvbTracks \cup {q}
           more == b.shown \cup ({"jvb"} \X ({q} \cap b.peers))
           shown == IF b.p2p THEN b.shown ELSE more
<1>3. b \in Conference /\ TracksOK(e, b) /\ q \in Endpoint
  BY <1>1, HereGood DEF Sound, Conference
<1>4. tracks \in SUBSET Endpoint /\ more \in SUBSET ({"jvb", "p2p"} \X Endpoint)
  BY <1>3 DEF Conference
<1>5. shown \in SUBSET ({"jvb", "p2p"} \X Endpoint) /\ conf \in [Endpoint -> Conference]
  BY <1>3, <1>4 DEF Conference, LocalInv, TypeOK
<1>6. \A p \in Endpoint : /\ <<"p2p", p>> \in shown <=> <<"p2p", p>> \in b.shown
                          /\ <<"jvb", p>> \in shown <=>
                               <<"jvb", p>> \in b.shown \/ (~b.p2p /\ p = q /\ p \in b.peers)
  OBVIOUS
<1> HIDE DEF more
<1>7. conf' = [conf EXCEPT ![e].jvbTracks = tracks, ![e].shown = shown]
  <2> DEFINE c == [b EXCEPT !.jvbTracks = tracks]
  <2>1. c.p2p = b.p2p /\ c.shown = b.shown /\ c.peers = b.peers /\ b.p2p \in BOOLEAN /\ c \in Conference
    BY <1>3, <1>4 DEF Conference
  <2>2. Added(c, "jvb", {q}) = IF b.p2p THEN c ELSE [c EXCEPT !.shown = more]
    BY <2>1 DEF Added, more
  <2>3. conf' = [conf EXCEPT ![e] = Added(c, "jvb", {q})]
    BY <1>2
  <2> HIDE DEF tracks, more
  <2>4. Added(c, "jvb", {q}) = [b EXCEPT !.jvbTracks = tracks, !.shown = shown]
    BY <1>3, <2>1, <2>2 DEF Conference
  <2>5. QED
    BY <1>5, <2>3, <2>4
<1>8. \A p \in Endpoint : <<"jvb", p>> \in shown => p \in tracks \cap b.peers
  BY <1>3, <1>6 DEF TracksOK
<1>9. ~b.parked =>
        \A p \in Endpoint : <<"jvb", p>> \in shown <=> ~b.p2p /\ p \in tracks \cap b.peers
  BY <1>1, <1>3, <1>6 DEF TracksOK, Closing
<1>10. tracks \subseteq b.jvbTracks \cup b.peers
  OBVIOUS
<1> HIDE DEF tracks, shown
<1>11. QED
  BY <1>1, <1>4, <1>5, <1>6, <1>7, <1>8, <1>9, <1>10, JvbTracksStep

LEMMA JvbTrackRemovedInv ==
  ASSUME LocalInv, NEW e \in Endpoint, JvbTrackRemoved(e)
  PROVE  LocalInv'
<1> DEFINE b == conf[e]
<1>1. Here(e) /\ UNCHANGED <<room, inbox, answered>>
  BY DEF JvbTrackRemoved
<1>2. PICK q \in b.jvbTracks \ b.peers :
        conf' = [conf EXCEPT ![e] = [Removed(b, "jvb", {q}) EXCEPT !.jvbTracks = @ \ {q}]]
  BY DEF JvbTrackRemoved
<1> DEFINE tracks == b.jvbTracks \ {q}
           shown == b.shown \ ({"jvb"} \X {q})
<1>3. b \in Conference /\ TracksOK(e, b)
  BY <1>1, HereGood DEF Sound
<1>4. tracks \in SUBSET Endpoint /\ shown \in SUBSET ({"jvb", "p2p"} \X Endpoint)
      /\ conf \in [Endpoint -> Conference]
  BY <1>3 DEF Conference, LocalInv, TypeOK
<1>5. \A p \in Endpoint : /\ <<"p2p", p>> \in shown <=> <<"p2p", p>> \in b.shown
                          /\ <<"jvb", p>> \in shown <=> <<"jvb", p>> \in b.shown /\ p # q
  OBVIOUS
<1>6. conf' = [conf EXCEPT ![e].jvbTracks = tracks, ![e].shown = shown]
  <2>1. Removed(b, "jvb", {q}) = [b EXCEPT !.shown = shown]
    BY DEF Removed
  <2> HIDE DEF shown
  <2>2. [Removed(b, "jvb", {q}) EXCEPT !.jvbTracks = @ \ {q}] =
          [b EXCEPT !.jvbTracks = tracks, !.shown = shown]
    BY <1>3, <2>1 DEF Conference
  <2>3. QED
    BY <1>2, <1>4, <2>2
<1>7. \A p \in Endpoint : <<"jvb", p>> \in shown => p \in tracks \cap b.peers
  BY <1>2, <1>3, <1>5 DEF TracksOK
<1>8. ~(b.jvb \in {"none", "ended"} /\ tracks # {}) /\ ~b.parked =>
        \A p \in Endpoint : <<"jvb", p>> \in shown <=> ~b.p2p /\ p \in tracks \cap b.peers
  <2>1. CASE ~Closing(b)
    BY <1>2, <1>3, <1>5, <2>1 DEF TracksOK
  <2>2. CASE Closing(b)
    BY <1>7, <2>2 DEF Closing
  <2>3. QED
    BY <2>1, <2>2
<1>9. tracks \subseteq b.jvbTracks \cup b.peers
  OBVIOUS
<1> HIDE DEF tracks, shown
<1>10. QED
  BY <1>1, <1>4, <1>5, <1>6, <1>7, <1>8, <1>9, JvbTracksStep

LEMMA SetE2EEInv ==
  ASSUME LocalInv, NEW e \in Endpoint, SetE2EE(e)
  PROVE  LocalInv'
<1> DEFINE b == conf[e]
           d == [b EXCEPT !.e2ee = ~@, !.toggles = @ + 1, !.switching = TRUE]
<1>1. /\ Here(e) /\ UNCHANGED <<room, inbox, answered>> /\ conf' = [conf EXCEPT ![e] = d]
  BY DEF SetE2EE, LocalInv, TypeOK, Conference
<1>2. Sound(e, b) /\ answered' \in SUBSET Session
  BY <1>1, HereGood DEF LocalInv, TypeOK
<1>3. b.toggles + 1 \in Nat /\ b.toggles + 1 > 0
  BY <1>2 DEF Sound, Conference
<1>4. /\ d \in Conference /\ d.peers = b.peers /\ d.bots = b.bots /\ d.session = b.session
      /\ d.phase = b.phase /\ d.p2p = b.p2p /\ d.deferred = b.deferred /\ d.toggles > 0
      /\ d.made = b.made /\ d.jvb = b.jvb /\ d.jvbMedia = b.jvbMedia /\ d.jvbTracks = b.jvbTracks
      /\ d.p2pTracks = b.p2pTracks /\ d.shown = b.shown /\ d.toggles = b.toggles + 1
      /\ d.switching = TRUE /\ d.late = b.late /\ d.parked = b.parked /\ d.outdated = b.outdated
  BY <1>2, <1>3, ZenonT(60) DEF Sound, Conference
<1> HIDE DEF d
<1>5. StateOK(e, d)
  BY <1>2, <1>4 DEF Sound, StateOK
<1>6. TracksOK(e, d) /\ MediaOK(d)
  BY <1>2, <1>4 DEF Sound, TracksOK, MediaOK, Closing
<1>7. OnlyOK(e, d) /\ DeferredOK(d) /\ Met(e, d) = Met(e, b)
  BY <1>3, <1>4 DEF OnlyOK, DeferredOK, Met
<1>8. QED
  BY <1>1, <1>2, <1>4, <1>5, <1>6, <1>7, OwnStep DEF Sound

-----------------------------------------------------------------------------
(* The room.                                                               *)

LEMMA JoinConference ==
  ASSUME LocalInv, NEW e \in Endpoint, room[e] \in {"out", "bot"}
  PROVE  LET c == [conf[e] EXCEPT !.peers = Occupants \ {e}, !.bots = Occupants \ (Members \cup {e})]
             d == MaybeStartOrStopP2P(e, c, FALSE)
         IN  /\ Sound(e, d) /\ OnlyOK(e, d) /\ DeferredOK(d)
             /\ d.peers = Occupants \ {e} /\ Met(e, d) \subseteq Occupants \ {e}
             /\ Keeps(c, d) \/ Drops(c, d) \/ Begins(e, c, d)
<1> DEFINE c == [conf[e] EXCEPT !.peers = Occupants \ {e}, !.bots = Occupants \ (Members \cup {e})]
           d == MaybeStartOrStopP2P(e, c, FALSE)
<1>1. /\ conf[e] \in Conference /\ conf[e].session = None /\ conf[e].phase = "none"
      /\ conf[e].p2p = FALSE /\ conf[e].deferred = None /\ conf[e].made = 0 /\ conf[e].jvb = "none"
      /\ conf[e].jvbMedia = TRUE /\ conf[e].jvbTracks = {} /\ conf[e].p2pTracks = {}
      /\ conf[e].shown = {} /\ conf[e].e2ee = FALSE /\ conf[e].toggles = 0
      /\ conf[e].switching = FALSE /\ conf[e].late = {} /\ conf[e].parked = FALSE
      /\ conf[e].outdated = FALSE
  <2>1. conf[e] \in Conference
    BY DEF LocalInv, TypeOK
  <2>2. conf[e] = NewConference
    BY DEF LocalInv, ConferenceOK
  <2>3. QED
    BY <2>1, <2>2 DEF NewConference
<1>2. Occupants \subseteq Endpoint
  BY DEF Occupants
<1>3. /\ c \in Conference /\ c.peers = Occupants \ {e} /\ c.bots \subseteq c.peers
      /\ c.session = None /\ c.phase = "none" /\ c.p2p = FALSE /\ c.deferred = None
      /\ c.made = 0 /\ c.jvb = "none" /\ c.jvbMedia = TRUE /\ c.jvbTracks = {}
      /\ c.p2pTracks = {} /\ c.shown = {} /\ c.e2ee = FALSE /\ c.toggles = 0
      /\ c.switching = FALSE /\ c.late = {} /\ c.parked = FALSE /\ c.outdated = FALSE
  BY <1>1, <1>2 DEF Conference
<1> HIDE DEF c
<1>4. Sound(e, c)
  BY <1>2, <1>3 DEF Sound, StateOK, TracksOK, MediaOK, Closing
<1>5. Expected(e, c)
  BY <1>3 DEF Expected
<1>6. /\ Sound(e, d) /\ OnlyOK(e, d) /\ DeferredOK(d)
      /\ SameRoom(c, d) /\ (d.deferred = c.deferred \/ d.deferred \in c.peers \cup {None})
      /\ Keeps(c, d) \/ Drops(c, d) \/ Begins(e, c, d)
  BY <1>4, <1>5, MaybeSound
<1> HIDE DEF d
<1>7. Met(e, d) \subseteq Met(e, c) /\ d.peers = c.peers
  BY <1>6, MetShrinks
<1>8. Met(e, c) \subseteq Occupants \ {e}
  BY <1>3 DEF Met
<1>9. QED
  BY <1>3, <1>6, <1>7, <1>8 DEF c, d

(* The presence of e at the others.                                        *)
LEMMA PresenceStream ==
  ASSUME LocalInv, NEW e \in Endpoint, NEW x \in Endpoint, x # e, NEW r, NEW m \in Message,
         m.from = e, room' = [room EXCEPT ![e] = r], conf'[x] = conf[x],
         inbox'[x] = IF Here(x) THEN Append(inbox[x], m) ELSE inbox[x],
         \/ room[e] = "out" /\ m.type \in {"join", "bot"} /\ r \in {"in", "bot"}
         \/ room[e] = "bot" /\ m.type = "human" /\ r = "in"
         \/ room[e] \in {"in", "bot"} /\ m.type = "leave" /\ r = "left"
  PROVE  Stream(x)' /\ inbox'[x] \in Seq(Message)
<1>1. TypeOK /\ Stream(x)
  BY DEF LocalInv, StreamOK
<1>2. room'[e] = r /\ \A q \in Endpoint \ {e} : room'[q] = room[q]
  BY <1>1 DEF TypeOK
<1>3. Onward
  BY <1>2 DEF Onward
<1>4. CASE ~Here(x)
  <2>1. ~Here(x)' /\ inbox'[x] = <<>>
    BY <1>1, <1>2, <1>4 DEF Here, Stream
  <2>2. QED
    BY <1>1, <1>3, <2>1, QuietStream
<1>5. CASE Here(x)
  <2>1. Here(x)' /\ inbox'[x] = Append(inbox[x], m)
    BY <1>2, <1>5 DEF Here
  <2>2. MessageOK(x, m)'
    BY <1>2 DEF MessageOK, Calls
  <2>3. \A i \in DOMAIN inbox[x] : inbox[x][i].from = e =>
          inbox[x][i].type # "leave" /\ m.type \notin Arrivals
    BY <1>1 DEF Stream, MessageOK, Arrivals
  <2>4. m.type \in Arrivals => e \notin Met(x, conf[x])
    BY <1>1 DEF Stream, Informed, Arrivals
  <2>5. m.type \notin Arrivals => e \in conf[x].peers \/ Announced(inbox[x], e, Len(inbox[x]))
    BY <1>1, <1>5 DEF Stream, Informed, Arrivals, Occupants
  <2>6. \A q \in Occupants' : q \in Occupants \/ (m.type \in Arrivals /\ q = e)
    BY <1>2 DEF Occupants, Arrivals
  <2>7. QED
    BY <1>1, <1>3, <1>5, <2>1, <2>2, <2>3, <2>4, <2>5, <2>6, ExtendedStream
<1>6. QED
  BY <1>4, <1>5

LEMMA JoinInv ==
  ASSUME LocalInv, NEW e \in Endpoint, Join(e)
  PROVE  LocalInv'
<1> DEFINE c == [conf[e] EXCEPT !.peers = Occupants \ {e}, !.bots = Occupants \ (Members \cup {e})]
           d == MaybeStartOrStopP2P(e, c, FALSE)
           m == Presence(IF room[e] = "bot" THEN "human" ELSE "join", e)
<1>1. /\ room[e] \in {"out", "bot"} /\ room' = [room EXCEPT ![e] = "in"]
      /\ conf' = [conf EXCEPT ![e] = d] /\ inbox' = Deliver(inbox, Members, m)
      /\ answered' = answered
  BY DEF Join
<1>2. /\ Sound(e, d) /\ OnlyOK(e, d) /\ DeferredOK(d)
      /\ d.peers = Occupants \ {e} /\ Met(e, d) \subseteq Occupants \ {e}
  BY <1>1, JoinConference
<1> HIDE DEF c, d
<1>3. TypeOK /\ ConferenceOK /\ StreamOK
  BY DEF LocalInv
<1>4. /\ m \in Message /\ m.from = e
      /\ m.type = IF room[e] = "bot" THEN "human" ELSE "join"
  BY DEF Presence, Message
<1> HIDE DEF m
<1>5. /\ room'[e] = "in" /\ conf'[e] = d
      /\ \A x \in Endpoint \ {e} : room'[x] = room[x] /\ conf'[x] = conf[x]
  BY <1>1, <1>3 DEF TypeOK
<1>6. \A x \in Endpoint : inbox'[x] = IF Here(x) THEN Append(inbox[x], m) ELSE inbox[x]
  BY <1>1, Delivered DEF Members
<1>7. ~Here(e) /\ inbox[e] = <<>>
  BY <1>1, <1>3 DEF StreamOK, Stream, Here
<1>8. ASSUME NEW x \in Endpoint
      PROVE  Stream(x)' /\ inbox'[x] \in Seq(Message)
  <2>1. CASE x # e
    <3>1. /\ inbox'[x] = IF Here(x) THEN Append(inbox[x], m) ELSE inbox[x]
          /\ conf'[x] = conf[x]
          /\ \/ room[e] = "out" /\ m.type \in {"join", "bot"}
             \/ room[e] = "bot" /\ m.type = "human"
      BY <1>1, <1>4, <1>5, <1>6, <2>1
    <3>2. QED
      BY <1>1, <1>4, <2>1, <3>1, PresenceStream
  <2>2. CASE x = e
    <3>1. inbox'[e] = <<>>
      BY <1>6, <1>7
    <3>2. inbox'[e] \in Seq(Message) /\ DOMAIN inbox'[e] = {}
      BY <3>1, EmptySeq
    <3>3. Occupants' = Occupants \cup {e} /\ Here(e)'
      BY <1>1, <1>5 DEF Occupants, Here
    <3>4. \A q \in Endpoint : room'[q] = "out" => q \notin Met(e, d)
      BY <1>2, <1>5 DEF Occupants
    <3>5. QED
      BY <1>2, <1>5, <2>2, <3>1, <3>2, <3>3, <3>4 DEF Stream, Ordered, Introduced, Informed
  <2>3. QED
    BY <2>1, <2>2
<1>9. TypeOK'
  <2>1. inbox' \in [Endpoint -> Seq(Message)]
    BY <1>1, <1>8 DEF Deliver
  <2>2. conf' \in [Endpoint -> Conference]
    BY <1>1, <1>2, <1>3 DEF TypeOK, Sound
  <2>3. QED
    BY <1>1, <1>3, <2>1, <2>2 DEF TypeOK
<1>10. ConferenceOK'
  BY <1>2, <1>3, <1>5 DEF ConferenceOK, Good, Sound, Here
<1>11. QED
  BY <1>8, <1>9, <1>10 DEF LocalInv, StreamOK

LEMMA BotJoinsInv ==
  ASSUME LocalInv, NEW e \in Endpoint, BotJoins(e)
  PROVE  LocalInv'
<1> DEFINE m == Presence("bot", e)
<1>1. /\ room[e] = "out" /\ room' = [room EXCEPT ![e] = "bot"]
      /\ conf' = conf /\ inbox' = Deliver(inbox, Members, m) /\ answered' = answered
  BY DEF BotJoins
<1>2. TypeOK /\ ConferenceOK /\ StreamOK
  BY DEF LocalInv
<1>3. m \in Message /\ m.from = e /\ m.type = "bot"
  BY DEF Presence, Message
<1> HIDE DEF m
<1>4. /\ room'[e] = "bot" /\ \A x \in Endpoint \ {e} : room'[x] = room[x]
  BY <1>1, <1>2 DEF TypeOK
<1>5. \A x \in Endpoint : inbox'[x] = IF Here(x) THEN Append(inbox[x], m) ELSE inbox[x]
  BY <1>1, Delivered DEF Members
<1>6. ASSUME NEW x \in Endpoint
      PROVE  Stream(x)' /\ inbox'[x] \in Seq(Message)
  <2>1. CASE x # e
    <3>1. /\ inbox'[x] = IF Here(x) THEN Append(inbox[x], m) ELSE inbox[x]
          /\ conf'[x] = conf[x] /\ m.type \in {"join", "bot"}
      BY <1>1, <1>3, <1>5
    <3>2. QED
      BY <1>1, <1>3, <2>1, <3>1, PresenceStream
  <2>2. CASE x = e
    <3>1. Stream(e) /\ ~Here(e) /\ ~Here(e)' /\ Onward
      BY <1>1, <1>2, <1>4 DEF StreamOK, Here, Onward
    <3>2. inbox'[e] = <<>>
      BY <1>5, <3>1 DEF Stream
    <3>3. QED
      BY <1>1, <1>2, <2>2, <3>1, <3>2, QuietStream
  <2>3. QED
    BY <2>1, <2>2
<1>7. TypeOK'
  <2>1. inbox' \in [Endpoint -> Seq(Message)]
    BY <1>1, <1>6 DEF Deliver
  <2>2. QED
    BY <1>1, <1>2, <2>1 DEF TypeOK
<1>8. ConferenceOK'
  BY <1>1, <1>2, <1>4 DEF ConferenceOK, Good, Here
<1>9. QED
  BY <1>6, <1>7, <1>8 DEF LocalInv, StreamOK

LEMMA LeaveInv ==
  ASSUME LocalInv, NEW e \in Endpoint, Leave(e)
  PROVE  LocalInv'
<1> DEFINE m == Presence("leave", e)
           to == Members \ {e}
           b == conf[e]
           d == [NewConference EXCEPT !.p2p = b.p2p, !.deferred = b.deferred]
<1>1. /\ room[e] \in {"in", "bot"} /\ room' = [room EXCEPT ![e] = "left"]
      /\ conf' = [conf EXCEPT ![e] = d] /\ answered' = answered
      /\ inbox' = [Deliver(inbox, to, m) EXCEPT ![e] = <<>>]
  BY DEF Leave
<1>2. TypeOK /\ ConferenceOK /\ StreamOK /\ b \in Conference
  BY DEF LocalInv, TypeOK
<1>3. m \in Message /\ m.from = e /\ m.type = "leave"
  BY DEF Presence, Message
<1> HIDE DEF m
<1>4. /\ d \in Conference /\ d.p2p = b.p2p /\ d.deferred = b.deferred
      /\ d.session = None /\ d.peers = {} /\ d.jvbTracks = {}
  <2>1. NewConference \in Conference
    BY DEF Conference, NewConference
  <2>2. /\ NewConference.session = None /\ NewConference.peers = {}
        /\ NewConference.jvbTracks = {}
    BY DEF NewConference
  <2>3. b.p2p \in BOOLEAN /\ b.deferred \in Endpoint \cup {None}
    BY <1>2 DEF Conference
  <2> HIDE DEF b
  <2>4. d \in Conference
    BY <2>1, <2>3 DEF Conference
  <2>5. /\ d.p2p = b.p2p /\ d.deferred = b.deferred
        /\ d.session = NewConference.session /\ d.peers = NewConference.peers
        /\ d.jvbTracks = NewConference.jvbTracks
    BY <2>1 DEF Conference
  <2>6. QED
    BY <2>2, <2>4, <2>5
<1>5. d = [NewConference EXCEPT !.p2p = d.p2p, !.deferred = d.deferred]
  BY <1>4
<1> HIDE DEF d
<1>6. /\ room'[e] = "left" /\ conf'[e] = d
      /\ \A x \in Endpoint \ {e} : room'[x] = room[x] /\ conf'[x] = conf[x]
  BY <1>1, <1>2 DEF TypeOK
<1>7. inbox'[e] = <<>> /\ \A x \in Endpoint \ {e} :
        inbox'[x] = IF Here(x) THEN Append(inbox[x], m) ELSE inbox[x]
  <2> DEFINE boxes == Deliver(inbox, to, m)
  <2>1. boxes = [x \in Endpoint |-> boxes[x]]
    BY DEF Deliver
  <2>2. \A x \in Endpoint \ {e} : boxes[x] = IF Here(x) THEN Append(inbox[x], m) ELSE inbox[x]
    BY Delivered DEF Members
  <2>3. inbox' = [boxes EXCEPT ![e] = <<>>]
    BY <1>1
  <2> HIDE DEF boxes
  <2>4. QED
    BY <2>1, <2>2, <2>3
<1>8. ASSUME NEW x \in Endpoint
      PROVE  Stream(x)' /\ inbox'[x] \in Seq(Message)
  <2>1. CASE x # e
    <3>1. /\ inbox'[x] = IF Here(x) THEN Append(inbox[x], m) ELSE inbox[x]
          /\ conf'[x] = conf[x]
      BY <1>6, <1>7, <2>1
    <3>2. QED
      BY <1>1, <1>3, <2>1, <3>1, PresenceStream
  <2>2. CASE x = e
    <3>1. inbox'[e] \in Seq(Message) /\ DOMAIN inbox'[e] = {} /\ ~Here(e)'
      BY <1>6, <1>7, EmptySeq DEF Here
    <3>2. Met(e, d) \subseteq Met(e, b)
      BY <1>4 DEF Met
    <3>3. \A q \in Endpoint : room'[q] = "out" => q \notin Met(e, d)
      BY <1>2, <1>6, <3>2 DEF StreamOK, Stream, Informed
    <3>4. QED
      BY <1>6, <1>7, <2>2, <3>1, <3>3 DEF Stream, Ordered, Introduced, Informed
  <2>3. QED
    BY <2>1, <2>2
<1>9. TypeOK'
  <2>1. inbox' \in [Endpoint -> Seq(Message)]
    BY <1>1, <1>8 DEF Deliver
  <2>2. conf' \in [Endpoint -> Conference]
    BY <1>1, <1>2, <1>4 DEF TypeOK
  <2>3. QED
    BY <1>1, <1>2, <2>1, <2>2 DEF TypeOK
<1>10. ConferenceOK'
  BY <1>2, <1>5, <1>6 DEF ConferenceOK, Good, Here
<1>11. QED
  BY <1>8, <1>9, <1>10 DEF LocalInv, StreamOK

-----------------------------------------------------------------------------
(* What holds of every conference.                                         *)

LEMMA LocalInit == Init => LocalInv
<1>1. SUFFICES ASSUME Init
               PROVE  LocalInv
  OBVIOUS
<1>2. NewConference \in Conference
  BY DEF NewConference, Conference
<1>3. \A e \in Endpoint : /\ room[e] = "out" /\ inbox[e] = <<>> /\ conf[e] = NewConference
                          /\ ~Here(e)
  BY <1>1 DEF Init, Here
<1>4. TypeOK
  BY <1>1, <1>2, EmptySeq DEF Init, TypeOK
<1>5. ConferenceOK
  BY <1>3 DEF ConferenceOK
<1>6. ASSUME NEW e \in Endpoint
      PROVE  Stream(e)
  <2>1. DOMAIN inbox[e] = {}
    BY <1>3
  <2>2. Met(e, conf[e]) = {}
    BY <1>3 DEF Met, NewConference
  <2>3. QED
    BY <1>3, <2>1, <2>2 DEF Stream, Ordered, Introduced, Informed
<1>7. QED
  BY <1>4, <1>5, <1>6 DEF LocalInv, StreamOK

LEMMA LocalNext == LocalInv /\ [Next]_vars => LocalInv'
<1>1. SUFFICES ASSUME LocalInv, [Next]_vars
               PROVE  LocalInv'
  OBVIOUS
<1>2. CASE UNCHANGED vars
  <2>1. room' = room /\ inbox' = inbox /\ conf' = conf /\ answered' = answered
    BY <1>2 DEF vars
  <2>2. TypeOK'
    BY <1>1, <2>1 DEF LocalInv, TypeOK
  <2>3. ConferenceOK'
    BY <1>1, <2>1 DEF LocalInv, ConferenceOK, Here
  <2>4. StreamOK'
    BY <1>1, <2>1 DEF LocalInv, StreamOK, Stream, Informed, MessageOK, Here, Occupants
  <2>5. QED
    BY <2>2, <2>3, <2>4 DEF LocalInv
<1>3. ASSUME NEW e \in Endpoint, Stanza(e)
      PROVE  LocalInv'
  BY <1>1, <1>3, OnMemberJoinedLooks, OnBotTypeRemovedLooks, OnMemberLeftLooks, LooksInv,
     OnIncomingCallInv, OnCallAcceptedInv, OnCallEndedInv DEF Stanza
<1>4. ASSUME NEW e \in Endpoint, Tasks(e)
      PROVE  LocalInv'
  BY <1>1, <1>4, InviteDoneInv, OldInviteDoneInv, AcceptDoneInv, P2PTrackAddedInv,
     OldConnectionClosedInv, DeferredStartInv, RestartMediaSessionsInv DEF Tasks
<1>5. ASSUME NEW e \in Endpoint, JvbTasks(e) \/ Ice(e)
      PROVE  LocalInv'
  BY <1>1, <1>5, JvbAcceptedInv, JvbClosedInv, JvbTrackRemovedInv, IceConnectedInv, IceFailedInv
  DEF JvbTasks, Ice
<1>6. ASSUME NEW e \in Endpoint, Environment(e)
      PROVE  LocalInv'
  BY <1>1, <1>6, JoinInv, BotJoinsInv, LeaveInv, OldConnectionFailedInv, JvbInvitedInv,
     JvbTerminatedInv, JvbTrackAddedInv, SetE2EEInv DEF Environment
<1>7. QED
  BY <1>1, <1>2, <1>3, <1>4, <1>5, <1>6 DEF Next

(* Every reachable state has these parts of the inductive invariant: the   *)
(* types, what belongs together in one conference, and what an endpoint    *)
(* has been told of the others.                                            *)
THEOREM LocalInductive == Spec => []LocalInv
  BY LocalInit, LocalNext, PTL DEF Spec

(* The variables have their types (the state JitsiConference keeps for the *)
(* switching, and the stanzas of strophe.emuc and strophe.jingle).         *)
THEOREM TypeCorrect == Spec => []TypeOK
<1>1. LocalInv => TypeOK
  BY DEF LocalInv
<1>2. QED
  BY <1>1, LocalInductive, PTL

(* A P2P session is held only with the one other participant of the room,  *)
(* no bot, whatever order joins, leaves, invitations, refusals and timers  *)
(* come in (_maybeStartOrStopP2P, _onIncomingCallP2P).                     *)
THEOREM SessionOnlyForTwo == Spec => []P2POnlyForTwo
<1>1. LocalInv => P2POnlyForTwo
  BY DEF LocalInv, ConferenceOK, Good, OnlyOK, P2POnlyForTwo, Members
<1>2. QED
  BY <1>1, LocalInductive, PTL

(* The application sees exactly the remote tracks of the active            *)
(* connection (onRemoteTrackAdded, _addRemoteTracks, _removeRemoteTracks). *)
THEOREM TracksOfActive == Spec => []ActiveTracksShown
<1>1. LocalInv => ActiveTracksShown
  <2>1. SUFFICES ASSUME LocalInv, NEW e \in Members, ~Closing(conf[e]), ~conf[e].parked
                 PROVE  LET c == conf[e] IN
                        c.shown = IF c.p2p THEN {"p2p"} \X (c.p2pTracks \cap c.peers)
                                  ELSE {"jvb"} \X (c.jvbTracks \cap c.peers)
    BY DEF ActiveTracksShown
  <2> DEFINE c == conf[e]
  <2>2. c \in Conference /\ TracksOK(e, c)
    BY <2>1, HereGood DEF Sound, Members
  <2>3. c.shown \subseteq {"jvb", "p2p"} \X Endpoint /\ c.peers \subseteq Endpoint
    BY <2>2 DEF Conference
  <2>4. \A q \in Endpoint :
          /\ <<"p2p", q>> \in c.shown <=> c.p2p /\ q \in c.p2pTracks \cap c.peers
          /\ <<"jvb", q>> \in c.shown <=> ~c.p2p /\ q \in c.jvbTracks \cap c.peers
    BY <2>1, <2>2 DEF TracksOK
  <2> DEFINE shown == IF c.p2p THEN {"p2p"} \X (c.p2pTracks \cap c.peers)
                      ELSE {"jvb"} \X (c.jvbTracks \cap c.peers)
  <2>5. shown \subseteq {"jvb", "p2p"} \X Endpoint
    BY <2>3
  <2>6. \A q \in Endpoint : /\ <<"p2p", q>> \in c.shown <=> <<"p2p", q>> \in shown
                            /\ <<"jvb", q>> \in c.shown <=> <<"jvb", q>> \in shown
    BY <2>4
  <2> HIDE DEF shown
  <2>7. ASSUME NEW z \in {"jvb", "p2p"} \X Endpoint
        PROVE  z \in c.shown <=> z \in shown
    <3>1. PICK t \in {"jvb", "p2p"}, q \in Endpoint : z = <<t, q>>
      OBVIOUS
    <3>2. QED
      BY <2>6, <3>1
  <2>8. c.shown = shown
    BY <2>3, <2>5, <2>7
  <2>9. QED
    BY <2>8 DEF shown
<1>2. QED
  BY <1>1, LocalInductive, PTL

(* Media is sent to the bridge exactly while the P2P connection is not     *)
(* used (setMediaTransferActive of the JVB session).                       *)
THEOREM MediaOnOne == Spec => []MediaOnOneConnection
<1>1. LocalInv => MediaOnOneConnection
  <2>1. SUFFICES ASSUME LocalInv, NEW e \in Members, conf[e].jvb = "live", ~conf[e].parked
                 PROVE  conf[e].jvbMedia = ~conf[e].p2p
    BY DEF MediaOnOneConnection
  <2>2. conf[e] \in Conference /\ MediaOK(conf[e])
    BY <2>1, HereGood DEF Sound, Members
  <2>3. conf[e].jvbMedia \in BOOLEAN /\ conf[e].p2p \in BOOLEAN
    BY <2>2 DEF Conference
  <2>4. QED
    BY <2>1, <2>2, <2>3 DEF MediaOK
<1>2. QED
  BY <1>1, LocalInductive, PTL

(* A deferred start is for the only other participant, with no session yet *)
(* (deferredStartP2PTask).                                                 *)
THEOREM DeferredForTheOther == Spec => []DeferredIsCurrent
<1>1. LocalInv => DeferredIsCurrent
  BY DEF LocalInv, ConferenceOK, Good, DeferredOK, DeferredIsCurrent, Members
<1>2. QED
  BY <1>1, LocalInductive, PTL

-----------------------------------------------------------------------------
(* The inductive invariant, of the sessions of two conferences.            *)

(* The sessions a box has stanzas of one type about.                       *)
Sids(box, type) == {box[i].session : i \in {j \in DOMAIN box : box[j].type = type}}

(* No two of them are the same invitation.                                 *)
Once(box) ==
  \A i, j \in DOMAIN box :
    box[i].type = "initiate" /\ box[j].type = "initiate" /\ box[i].session = box[j].session => i = j

(* Its initiator has made it: the next session gets another number.        *)
Numbered(s) == room[s.by] # "left" => s.n < conf[s.by].made

(* Its session-initiate is still to be sent, ...                           *)
ToSend(s) ==
  \/ conf[s.by].session = s /\ conf[s.by].phase = "inviting"
  \/ s \in conf[s.by].late

(* ... or was sent and has been handled by its responder.                  *)
Handled(s) == ~ToSend(s) /\ s \notin Sids(inbox[s.to], "initiate")

(* A session is invited to once, and answered after that.                  *)
OwnCalls(e) ==
  LET b == conf[e] IN
  /\ \A s \in {b.session} \ {None} : Numbered(s) /\ (s.to = e => Handled(s))
  /\ \A s \in b.late : Numbered(s) /\ s # b.session
  /\ Here(e) /\ b.p2p => b.session \in answered

BoxCalls(e) ==
  /\ Once(inbox[e])
  /\ \A s \in Sids(inbox[e], "initiate") : Numbered(s) /\ ~ToSend(s)
  /\ \A s \in Sids(inbox[e], "accept") : Numbered(s) /\ Handled(s)

CallsOK ==
  /\ \A e \in Endpoint : OwnCalls(e) /\ BoxCalls(e)
  /\ \A s \in answered : Numbered(s) /\ Handled(s)

(* While the responder of an answered session goes on with it, it has not  *)
(* answered any other of that initiator.                                   *)
AgreeOK ==
  \A s \in answered :
    LET next == conf[s.by].session IN
    conf[s.to].session = s /\ next # s /\ next # None /\ next.to = s.to =>
      next \notin answered /\ next \notin Sids(inbox[s.by], "accept")

CallsInv == LocalInv /\ CallsOK /\ AgreeOK

-----------------------------------------------------------------------------
(* Lemmas about the sessions.                                              *)

LEMMA SidsOf ==
  ASSUME NEW box, NEW type, NEW s
  PROVE  s \in Sids(box, type) <=> \E i \in DOMAIN box : box[i].type = type /\ box[i].session = s
  BY DEF Sids

(* Who has a session, and who is invited to one or answers it.             *)
Party(e) ==
  LET b == conf[e] IN
  /\ b.made \in Nat /\ b.late \subseteq Session /\ b.session \in Session \cup {None}
  /\ b.session # None => Between(e, b.session) /\ Here(e)
  /\ b.phase = "inviting" => b.session # None /\ b.session.by = e
  /\ \A s \in b.late : Between(e, s) /\ s.by = e
  /\ b.p2p => room[e] \in {"in", "left"} /\ (Here(e) => b.session # None)
  /\ \A s \in Sids(inbox[e], "initiate") : Between(e, s) /\ s.to = e
  /\ \A s \in Sids(inbox[e], "accept") : Between(e, s) /\ s.by = e

PartiesOK == \A e \in Endpoint : Party(e)

LEMMA Parties == LocalInv => PartiesOK
<1>1. SUFFICES ASSUME LocalInv, NEW e \in Endpoint
               PROVE  Party(e)
  BY DEF PartiesOK
<1> DEFINE b == conf[e]
<1>2. TypeOK /\ ConferenceOK /\ Stream(e)
  BY <1>1 DEF LocalInv, StreamOK
<1>3. /\ b \in Conference /\ b.made \in Nat /\ b.late \subseteq Session
      /\ b.session \in Session \cup {None}
  BY <1>2 DEF TypeOK, Conference
<1>4. ASSUME NEW type \in {"initiate", "accept"}, NEW s \in Sids(inbox[e], type)
      PROVE  Between(e, s) /\ (type = "initiate" => s.to = e) /\ (type = "accept" => s.by = e)
  <2>1. PICK i \in DOMAIN inbox[e] : inbox[e][i].type = type /\ inbox[e][i].session = s
    BY <1>4, SidsOf
  <2>2. /\ Between(e, s) /\ inbox[e][i].from = Other(e, s) /\ inbox[e][i].from # e
        /\ type = "initiate" => s.by = inbox[e][i].from
        /\ type = "accept" => s.by = e
    BY <1>2, <2>1 DEF Stream, MessageOK, Calls
  <2>3. QED
    BY <2>2 DEF Between
<1>5. CASE Here(e)
  <2>1. StateOK(e, b) /\ TracksOK(e, b)
    BY <1>1, <1>5, HereGood DEF Good
  <2>2. /\ b.phase = "inviting" => b.session # None /\ b.session.by = e
        /\ b.session # None => Between(e, b.session)
        /\ \A s \in b.late : Between(e, s) /\ s.by = e
    BY <2>1 DEF StateOK
  <2>3. b.p2p => room[e] = "in" /\ b.session # None
    BY <1>5, <2>1 DEF StateOK, TracksOK, Here
  <2>4. QED
    BY <1>3, <1>4, <1>5, <2>2, <2>3 DEF Party
<1>6. CASE ~Here(e)
  <2>1. /\ NewConference.session = None /\ NewConference.phase = "none"
        /\ NewConference.late = {} /\ NewConference.p2p = FALSE
    BY DEF NewConference
  <2>2. CASE room[e] \in {"out", "bot"}
    <3>1. b = NewConference
      BY <1>2, <2>2 DEF ConferenceOK
    <3>2. QED
      BY <1>3, <1>4, <1>6, <2>1, <3>1 DEF Party
  <2>3. CASE room[e] = "left"
    <3>1. b = [NewConference EXCEPT !.p2p = b.p2p, !.deferred = b.deferred]
      BY <1>2, <2>3 DEF ConferenceOK
    <3>2. b.session = None /\ b.phase = "none" /\ b.late = {}
      BY <2>1, <3>1 DEF NewConference
    <3>3. QED
      BY <1>3, <1>4, <1>6, <2>3, <3>2 DEF Party
  <2>4. QED
    BY <1>2, <1>6, <2>2, <2>3 DEF TypeOK, Here
<1>7. QED
  BY <1>5, <1>6

(* A step of e: what becomes of its session, ...                           *)
Late(b) == IF b.phase = "inviting" THEN b.late \cup {b.session} ELSE b.late

Stays(b, d) ==
  /\ d.session = b.session /\ (d.phase = "inviting" => b.phase = "inviting")
  /\ d.late \subseteq b.late /\ (d.p2p => b.p2p \/ b.session \in answered)
Ends(e, b, d) ==
  /\ d.session = None /\ d.phase # "inviting" /\ d.late \subseteq Late(b)
  /\ d.p2p => room'[e] = "left"
Starts(e, b, d) ==
  /\ room[e] # "left" /\ d.session.by = e /\ d.session.n = b.made
  /\ d.made = b.made + 1 /\ d.late \subseteq Late(b) /\ ~d.p2p
Takes(e, b, d) ==
  /\ d.session \in Sids(inbox[e], "initiate") /\ d.session \notin Sids(inbox'[e], "initiate")
  /\ d.phase # "inviting" /\ d.late \subseteq b.late /\ ~d.p2p

(* ... the boxes, into which e may have put the invitation it had to send  *)
(* or the answer to the session it has, ...                                *)
Boxed(x) ==
  /\ Once(inbox'[x])
  /\ \A s \in Sids(inbox'[x], "initiate") :
       s \in Sids(inbox[x], "initiate") \/ (s.to = x /\ Numbered(s) /\ ToSend(s) /\ ~ToSend(s)')
  /\ \A s \in Sids(inbox'[x], "accept") :
       \/ s \in Sids(inbox[x], "accept")
       \/ s.by = x /\ s.to \in Endpoint /\ conf[s.to].session = s /\ conf'[s.to].session = s

(* ... and the answers that have been set.                                 *)
Answers ==
  /\ answered \subseteq answered'
  /\ \A s \in answered' \ answered :
       /\ s.by \in Endpoint /\ s \in Sids(inbox[s.by], "accept")
       /\ conf[s.by].session = s /\ conf'[s.by].session = s

StepOf(e) ==
  /\ Onward /\ \A x \in Endpoint \ {e} : conf'[x] = conf[x] /\ room'[x] = room[x]
  /\ LET b == conf[e]
         d == conf'[e]
     IN  /\ room'[e] = "left" \/ d.made >= b.made
         /\ Stays(b, d) \/ Ends(e, b, d) \/ Starts(e, b, d) \/ Takes(e, b, d)
  /\ \A x \in Endpoint : Boxed(x)
  /\ Answers

LEMMA CallStep ==
  ASSUME LocalInv, LocalInv', CallsOK, AgreeOK, NEW e \in Endpoint, StepOf(e)
  PROVE  CallsOK' /\ AgreeOK'
<1> DEFINE b == conf[e]
           d == conf'[e]
<1>1. \A x \in Endpoint : Party(x)
  BY Parties DEF PartiesOK
<1>2. \A x \in Endpoint : Party(x)'
  <2>1. LocalInv' => PartiesOK'
    BY Parties, PTL
  <2>2. QED
    BY <2>1 DEF PartiesOK
<1>3. answered \subseteq Session /\ answered' \subseteq Session
  BY DEF LocalInv, TypeOK
<1>4. \A s \in Session : s.by \in Endpoint /\ s.to \in Endpoint /\ s.n \in Nat /\ s # None
  BY NoneAssumption DEF Session
<1>5. ASSUME NEW s \in Session, Numbered(s)
      PROVE  Numbered(s)'
  <2>1. CASE s.by = e
    BY <1>1, <1>2, <1>4, <1>5, <2>1 DEF Numbered, Party, StepOf, Onward
  <2>2. CASE s.by # e
    BY <1>4, <1>5, <2>2 DEF Numbered, StepOf
  <2>3. QED
    BY <2>1, <2>2
<1>6. ASSUME NEW s \in Session, Numbered(s), ~ToSend(s)
      PROVE  ~ToSend(s)'
  <2>1. CASE s.by # e
    BY <1>4, <1>6, <2>1 DEF ToSend, StepOf
  <2>2. CASE s.by = e
    <3>1. s \notin b.late /\ (b.session = s => b.phase # "inviting")
      BY <1>6, <2>2 DEF ToSend
    <3>2. s \notin Late(b)
      BY <3>1 DEF Late
    <3>3. s \notin d.late
      BY <3>1, <3>2 DEF StepOf, Stays, Ends, Starts, Takes
    <3>4. d.session = s => d.phase # "inviting"
      <4>1. Starts(e, b, d) => d.session # s
        BY <1>1, <1>4, <1>6, <2>2 DEF Starts, Numbered, Party
      <4>2. QED
        BY <3>1, <1>4, <4>1 DEF StepOf, Stays, Ends, Takes
    <3>5. QED
      BY <2>2, <3>3, <3>4 DEF ToSend
  <2>3. QED
    BY <2>1, <2>2
<1>7. ASSUME NEW s \in Session, Numbered(s), Handled(s)
      PROVE  Handled(s)'
  BY <1>4, <1>6, <1>7 DEF Handled, StepOf, Boxed
<1>8. \A s \in answered' : Numbered(s) /\ Handled(s)
  BY DEF CallsOK, BoxCalls, StepOf, Answers
<1>9. \A s \in answered' : Numbered(s)' /\ Handled(s)'
  BY <1>3, <1>5, <1>7, <1>8
<1>10. ASSUME NEW x \in Endpoint
       PROVE  OwnCalls(x)'
  <2>1. OwnCalls(x) /\ BoxCalls(x)
    BY DEF CallsOK
  <2> DEFINE u == conf[x]
             v == conf'[x]
  <2>2. Stays(u, v) \/ (x = e /\ (Ends(e, u, v) \/ Starts(e, u, v) \/ Takes(e, u, v)))
    BY DEF StepOf, Stays
  <2>3. ASSUME NEW s \in {v.session} \ {None}
        PROVE  Numbered(s)' /\ (s.to = x => Handled(s)')
    <3>1. s \in Session /\ Between(x, s) /\ v.session = s /\ s # None
      BY <1>2, <2>3 DEF Party
    <3>2. CASE u.session = s
      BY <2>1, <3>1, <3>2, <1>5, <1>7 DEF OwnCalls
    <3>3. CASE x = e /\ Starts(e, u, v)
      <4>1. s.by = e /\ s.n = u.made /\ v.made = u.made + 1 /\ u.made \in Nat
        BY <1>1, <3>1, <3>3 DEF Starts, Party
      <4>2. Numbered(s)'
        BY <3>3, <4>1 DEF Numbered
      <4>3. s.to # x
        BY <1>4, <3>1, <3>3, <4>1, EndpointAssumption DEF Between
      <4>4. QED
        BY <4>2, <4>3
    <3>4. CASE x = e /\ Takes(e, u, v)
      <4>1. Numbered(s) /\ ~ToSend(s) /\ s \notin Sids(inbox'[e], "initiate")
        BY <2>1, <3>1, <3>4 DEF Takes, BoxCalls
      <4>2. Numbered(s)' /\ ~ToSend(s)'
        BY <1>5, <1>6, <3>1, <4>1
      <4>3. QED
        BY <3>4, <4>1, <4>2 DEF Handled
    <3>5. QED
      BY <2>2, <3>1, <3>2, <3>3, <3>4 DEF Stays, Ends
  <2>4. ASSUME NEW s \in v.late
        PROVE  Numbered(s)' /\ s # v.session
    <3>1. s \in Session /\ s.by = x /\ Between(x, s) /\ s # None
      BY <1>2, <1>4, <2>4 DEF Party
    <3>2. s \in u.late \/ (s = u.session /\ x = e /\ (Ends(e, u, v) \/ Starts(e, u, v)))
      BY <2>2, <2>4 DEF Stays, Ends, Starts, Takes, Late
    <3>3. Numbered(s)
      BY <2>1, <3>1, <3>2 DEF OwnCalls
    <3>4. Numbered(s)'
      BY <1>5, <3>1, <3>3
    <3>5. s # v.session
      <4>1. CASE Stays(u, v)
        BY <2>1, <2>4, <4>1 DEF Stays, OwnCalls
      <4>2. CASE x = e /\ Ends(e, u, v)
        BY <3>1, <4>2 DEF Ends
      <4>3. CASE x = e /\ Starts(e, u, v)
        BY <1>1, <1>4, <3>1, <3>3, <4>3 DEF Starts, Numbered, Party
      <4>4. CASE x = e /\ Takes(e, u, v)
        BY <1>1, <1>4, <3>1, <4>4, EndpointAssumption DEF Takes, Party, Between
      <4>5. QED
        BY <2>2, <4>1, <4>2, <4>3, <4>4
    <3>6. QED
      BY <3>4, <3>5
  <2>5. Here(x)' /\ v.p2p => v.session \in answered'
    <3>1. SUFFICES ASSUME Here(x)', v.p2p
                   PROVE  v.session \in answered'
      OBVIOUS
    <3>2. Stays(u, v)
      BY <2>2, <3>1 DEF Ends, Starts, Takes, Here
    <3>3. u.p2p => Here(x)
      BY <1>1, <3>1 DEF Party, Here, StepOf, Onward
    <3>4. v.session \in answered
      BY <2>1, <3>1, <3>2, <3>3 DEF Stays, OwnCalls
    <3>5. QED
      BY <3>4 DEF StepOf, Answers
  <2>6. QED
    BY <2>3, <2>4, <2>5 DEF OwnCalls
<1>11. ASSUME NEW x \in Endpoint
       PROVE  BoxCalls(x)'
  <2>1. BoxCalls(x) /\ Boxed(x)
    BY DEF CallsOK, StepOf
  <2>2. ASSUME NEW s \in Sids(inbox'[x], "initiate")
        PROVE  Numbered(s)' /\ ~ToSend(s)'
    <3>1. s \in Session
      BY <1>2, <2>2 DEF Party, Between
    <3>2. QED
      BY <1>5, <1>6, <2>1, <2>2, <3>1 DEF Boxed, BoxCalls
  <2>3. ASSUME NEW s \in Sids(inbox'[x], "accept")
        PROVE  Numbered(s)' /\ Handled(s)'
    <3>1. s \in Session /\ s # None
      BY <1>2, <1>4, <2>3 DEF Party, Between
    <3>2. CASE s \in Sids(inbox[x], "accept")
      BY <1>5, <1>7, <2>1, <3>1, <3>2 DEF BoxCalls
    <3>3. CASE s.to \in Endpoint /\ conf[s.to].session = s
      <4>1. OwnCalls(s.to)
        BY <3>3 DEF CallsOK
      <4>2. Numbered(s) /\ Handled(s)
        BY <3>1, <3>3, <4>1 DEF OwnCalls
      <4>3. QED
        BY <1>5, <1>7, <3>1, <4>2
    <3>4. QED
      BY <2>1, <2>3, <3>2, <3>3 DEF Boxed
  <2>4. QED
    BY <2>1, <2>2, <2>3 DEF Boxed, BoxCalls
<1>12. CallsOK'
  BY <1>9, <1>10, <1>11 DEF CallsOK
<1>13. ASSUME NEW s \in answered', conf'[s.to].session = s,
              NEW next, next = conf'[s.by].session, next # s, next # None, next.to = s.to
       PROVE  next \notin answered' /\ next \notin Sids(inbox'[s.by], "accept")
  <2>1. s \in Session /\ s.by \in Endpoint /\ s.to \in Endpoint /\ s # None
    BY <1>3, <1>4
  <2>2. s.by < s.to /\ s.by # s.to
    BY <1>2, <1>13, <2>1, EndpointAssumption DEF Party, Between
  <2>3. next \in Session /\ next.by = s.by
    BY <1>2, <1>13, <2>1, <2>2 DEF Party, Between
  <2>4. s \in answered
    BY <1>13 DEF StepOf, Answers
  <2>5. Numbered(s) /\ Handled(s)
    BY <1>8
  <2>6. conf[s.to].session = s
    <3>1. CASE s.to = e
      <4>1. ~Starts(e, b, d)
        BY <1>13, <2>2, <3>1 DEF Starts
      <4>2. ~Takes(e, b, d)
        BY <1>13, <2>5, <3>1 DEF Takes, Handled
      <4>3. QED
        BY <1>13, <2>1, <3>1, <4>1, <4>2 DEF StepOf, Stays, Ends
    <3>2. CASE s.to # e
      BY <1>13, <2>1, <3>2 DEF StepOf
    <3>3. QED
      BY <3>1, <3>2
  <2>7. CASE conf[s.by].session = next
    <3>1. next \notin answered /\ next \notin Sids(inbox[s.by], "accept")
      BY <1>13, <2>4, <2>6, <2>7 DEF AgreeOK
    <3>2. next \notin answered'
      BY <2>3, <3>1 DEF StepOf, Answers
    <3>3. next \notin Sids(inbox'[s.by], "accept")
      BY <1>13, <2>1, <3>1 DEF StepOf, Boxed
    <3>4. QED
      BY <3>2, <3>3
  <2>8. CASE s.by = e /\ Starts(e, b, d)
    <3>1. ~Numbered(next)
      BY <1>1, <1>13, <2>3, <2>8 DEF Starts, Numbered, Party
    <3>2. next \notin answered'
      BY <1>8, <3>1
    <3>3. next \notin Sids(inbox[s.by], "accept")
      BY <2>1, <3>1 DEF CallsOK, BoxCalls
    <3>4. next \notin Sids(inbox'[s.by], "accept")
      BY <1>13, <2>1, <2>6, <3>3 DEF StepOf, Boxed
    <3>5. QED
      BY <3>2, <3>4
  <2>9. ~(s.by = e /\ Takes(e, b, d))
    BY <1>1, <1>13, <2>2 DEF Takes, Party
  <2>10. QED
    BY <1>13, <2>1, <2>7, <2>8, <2>9 DEF StepOf, Stays, Ends
<1>14. AgreeOK'
  BY <1>13 DEF AgreeOK
<1>15. QED
  BY <1>12, <1>14

-----------------------------------------------------------------------------
(* Lemmas about the invitations and answers in a box.                      *)

LEMMA AppendedSids ==
  ASSUME NEW s \in Seq(Message), NEW m \in Message, NEW t, t = Append(s, m)
  PROVE  /\ \A type, z : z \in Sids(t, type) <=>
              z \in Sids(s, type) \/ (m.type = type /\ z = m.session)
         /\ Once(s) /\ (m.type = "initiate" => m.session \notin Sids(s, "initiate")) => Once(t)
<1> DEFINE n == Len(s)
<1>1. /\ n \in Nat /\ DOMAIN s = 1 .. n /\ DOMAIN t = 1 .. (n + 1)
      /\ t[n + 1] = m /\ \A j \in 1 .. n : t[j] = s[j]
  BY Appended
<1> HIDE DEF n
<1>2. DOMAIN t = DOMAIN s \cup {n + 1} /\ n + 1 \notin DOMAIN s
  BY <1>1
<1>3. ASSUME NEW type, NEW z
      PROVE  z \in Sids(t, type) <=> z \in Sids(s, type) \/ (m.type = type /\ z = m.session)
  <2>1. \A i \in DOMAIN t : t[i] = IF i = n + 1 THEN m ELSE s[i]
    BY <1>1, <1>2
  <2>2. z \in Sids(t, type) <=> \E i \in DOMAIN t : t[i].type = type /\ t[i].session = z
    BY ONLY SidsOf
  <2>3. z \in Sids(s, type) <=> \E i \in DOMAIN s : s[i].type = type /\ s[i].session = z
    BY SidsOf
  <2>4. QED
    BY <1>2, <2>1, <2>2, <2>3
<1>4. ASSUME Once(s), m.type = "initiate" => m.session \notin Sids(s, "initiate")
      PROVE  Once(t)
  <2>1. \A j \in DOMAIN s :
          ~(m.type = "initiate" /\ s[j].type = "initiate" /\ s[j].session = m.session)
    BY <1>4, SidsOf
  <2>2. QED
    BY <1>1, <1>2, <1>4, <2>1 DEF Once
<1>5. QED
  BY <1>3, <1>4

LEMMA TailedSids ==
  ASSUME NEW s \in Seq(Message), s # <<>>, NEW t, t = Tail(s)
  PROVE  /\ t \in Seq(Message) /\ \A type : Sids(t, type) \subseteq Sids(s, type)
         /\ Head(s).session \in Sids(s, Head(s).type)
         /\ Once(s) => /\ Once(t)
                       /\ Head(s).type = "initiate" => Head(s).session \notin Sids(t, "initiate")
<1> DEFINE n == Len(s)
<1>1. /\ t \in Seq(Message) /\ n \in Nat /\ n > 0 /\ DOMAIN s = 1 .. n /\ DOMAIN t = 1 .. (n - 1)
      /\ Head(s) = s[1] /\ \A j \in 1 .. (n - 1) : t[j] = s[j + 1]
  BY Tailed
<1> HIDE DEF n
<1>2. 1 \in DOMAIN s /\ \A j \in DOMAIN t : j + 1 \in DOMAIN s /\ j + 1 # 1 /\ t[j] = s[j + 1]
  BY <1>1
<1>3. ASSUME NEW type, NEW z \in Sids(t, type)
      PROVE  z \in Sids(s, type)
  <2>1. PICK j \in DOMAIN t : t[j].type = type /\ t[j].session = z
    BY <1>3 DEF Sids
  <2>2. j + 1 \in DOMAIN s /\ s[j + 1].type = type /\ s[j + 1].session = z
    BY <1>2, <2>1
  <2>3. QED
    BY <2>2, SidsOf
<1>4. Head(s).session \in Sids(s, Head(s).type)
  BY <1>1, <1>2, SidsOf
<1>5. ASSUME Once(s)
      PROVE  Once(t)
  <2>1. \A i, j \in DOMAIN t : i + 1 = j + 1 => i = j
    BY <1>1
  <2>2. QED
    BY <1>2, <1>5, <2>1 DEF Once
<1>6. ASSUME Once(s), Head(s).type = "initiate", Head(s).session \in Sids(t, "initiate")
      PROVE  FALSE
  <2>1. PICK j \in DOMAIN t : t[j].type = "initiate" /\ t[j].session = Head(s).session
    BY <1>6 DEF Sids
  <2>2. QED
    BY <1>1, <1>2, <1>6, <2>1 DEF Once
<1>7. QED
  BY <1>1, <1>3, <1>4, <1>5, <1>6

(* A box that gets neither.                                                *)
Calm(x) ==
  /\ Once(inbox'[x])
  /\ \A type \in {"initiate", "accept"} : Sids(inbox'[x], type) \subseteq Sids(inbox[x], type)

LEMMA CalmBox ==
  ASSUME LocalInv, CallsOK, NEW x \in Endpoint,
         NEW box, box = inbox[x] \/ (inbox[x] # <<>> /\ box = Tail(inbox[x])),
         \/ inbox'[x] = box
         \/ \E m \in Message : m.type \notin {"initiate", "accept"} /\ inbox'[x] = Append(box, m)
  PROVE  Calm(x)
<1>1. inbox[x] \in Seq(Message) /\ Once(inbox[x])
  BY DEF LocalInv, TypeOK, CallsOK, BoxCalls
<1>2. box \in Seq(Message) /\ Once(box) /\ \A type : Sids(box, type) \subseteq Sids(inbox[x], type)
  BY <1>1, TailedSids
<1>3. CASE inbox'[x] = box
  BY <1>2, <1>3 DEF Calm
<1>4. ASSUME NEW m \in Message, m.type \notin {"initiate", "accept"}, inbox'[x] = Append(box, m)
      PROVE  Calm(x)
  <2>1. /\ \A type, z : z \in Sids(inbox'[x], type) <=>
             z \in Sids(box, type) \/ (m.type = type /\ z = m.session)
        /\ Once(inbox'[x])
    BY <1>2, <1>4, AppendedSids, ZenonT(60)
  <2>2. QED
    BY <1>2, <1>4, <2>1 DEF Calm
<1>5. QED
  BY <1>3, <1>4

(* The boxes as they are, or once the next stanza of e is read.            *)
Taken(e, boxes) == boxes = inbox \/ (inbox[e] # <<>> /\ boxes = Rest(e))

LEMMA CalmDelivery ==
  ASSUME LocalInv, CallsOK, NEW e \in Endpoint, NEW boxes, Taken(e, boxes),
         \/ inbox' = boxes
         \/ \E to, m : m \in Message /\ m.type \notin {"initiate", "accept"}
                         /\ inbox' = Deliver(boxes, to, m)
  PROVE  \A x \in Endpoint : Calm(x)
<1>1. TAKE x \in Endpoint
<1>2. boxes[x] = inbox[x] \/ (inbox[x] # <<>> /\ boxes[x] = Tail(inbox[x]))
  BY RestBoxes DEF Taken
<1>3. \/ inbox'[x] = boxes[x]
      \/ \E m \in Message : m.type \notin {"initiate", "accept"} /\ inbox'[x] = Append(boxes[x], m)
  <2>1. CASE inbox' = boxes
    BY <2>1
  <2>2. ASSUME NEW to, NEW m, m \in Message, m.type \notin {"initiate", "accept"},
               inbox' = Deliver(boxes, to, m)
        PROVE  \/ inbox'[x] = boxes[x]
               \/ inbox'[x] = Append(boxes[x], m)
    <3>1. Deliver(boxes, to, m)[x] = IF x \in to /\ Here(x) THEN Append(boxes[x], m) ELSE boxes[x]
      BY Delivered
    <3>2. QED
      BY <2>2, <3>1
  <2>3. QED
    BY <2>1, <2>2
<1>4. QED
  BY <1>2, <1>3, CalmBox

LEMMA CalmGoodbye ==
  ASSUME LocalInv, CallsOK, NEW e \in Endpoint, NEW boxes, Taken(e, boxes), NEW d,
         NEW restart \in BOOLEAN, inbox' = Goodbyes(boxes, e, conf[e], d, restart)
  PROVE  \A x \in Endpoint : Calm(x)
<1> DEFINE s == conf[e].session
           m == Terminate(e, s, restart)
<1>1. CASE s = None \/ d.session = s
  <2>1. inbox' = boxes
    BY <1>1 DEF Goodbyes
  <2>2. QED
    BY <2>1, CalmDelivery
<1>2. CASE ~(s = None \/ d.session = s)
  <2>1. s \in Session
    BY <1>2 DEF LocalInv, TypeOK, Conference
  <2>2. m \in Message /\ m.type = "terminate"
    BY <2>1, JingleType DEF Terminate
  <2>3. inbox' = Deliver(boxes, {Other(e, s)} \cap d.peers, m)
    BY <1>2 DEF Goodbyes
  <2> HIDE DEF m
  <2>4. QED
    BY <2>2, <2>3, CalmDelivery
<1>3. QED
  BY <1>1, <1>2

-----------------------------------------------------------------------------
(* The steps, and what becomes of the session in each.                     *)

Turn(e, b, d) ==
  /\ room'[e] = "left" \/ d.made >= b.made
  /\ Stays(b, d) \/ Ends(e, b, d) \/ Starts(e, b, d) \/ Takes(e, b, d)

LEMMA SameTurn ==
  ASSUME NEW e, NEW b \in Conference, NEW d, SameSession(b, d)
  PROVE  Turn(e, b, d)
<1>1. b.made \in Nat
  BY DEF Conference
<1>2. QED
  BY <1>1 DEF Turn, Stays, SameSession

(* After _stopP2PSession or _maybeStartOrStopP2P.                          *)
LEMMA Turned ==
  ASSUME LocalInv, NEW e \in Endpoint, room[e] # "left", NEW c, SameSession(conf[e], c),
         NEW d, Keeps(c, d) \/ Drops(c, d) \/ Begins(e, c, d)
  PROVE  Turn(e, conf[e], d)
<1> DEFINE b == conf[e]
<1>1. b.made \in Nat /\ (b.session = None => ~b.p2p)
  BY Parties DEF PartiesOK, Party, Here
<1>2. CASE Keeps(c, d)
  BY <1>1, <1>2 DEF Keeps, SameSession, Turn, Stays
<1>3. CASE Drops(c, d)
  BY <1>1, <1>3 DEF Drops, SameSession, Turn, Ends, Late
<1>4. CASE Begins(e, c, d)
  <2>1. PICK q \in c.peers : e < q /\ d.session = [by |-> e, to |-> q, n |-> c.made]
    BY <1>4 DEF Begins
  <2>2. d.session.by = e /\ d.session.n = b.made
    BY <2>1 DEF SameSession
  <2>3. QED
    BY <1>1, <1>4, <2>2 DEF Begins, SameSession, Turn, Starts, Late
<1>5. QED
  BY <1>2, <1>3, <1>4

(* A step that invites nobody and sends no answer.                         *)
LEMMA QuietCall ==
  ASSUME LocalInv, LocalInv', CallsOK, AgreeOK, NEW e \in Endpoint, room' = room, Answers,
         NEW d, conf' = [conf EXCEPT ![e] = d], Turn(e, conf[e], d),
         \A x \in Endpoint : Calm(x)
  PROVE  CallsOK' /\ AgreeOK'
<1>1. conf'[e] = d /\ \A x \in Endpoint \ {e} : conf'[x] = conf[x]
  BY DEF LocalInv, TypeOK
<1>2. Onward
  BY DEF Onward
<1>3. \A x \in Endpoint : Boxed(x)
  BY DEF Calm, Boxed
<1>4. StepOf(e)
  BY <1>1, <1>2, <1>3 DEF StepOf, Turn
<1>5. QED
  BY <1>4, CallStep

(* ... but the goodbye to a session it gives up, ...                       *)
LEMMA GoodbyeCall ==
  ASSUME LocalInv, LocalInv', CallsOK, AgreeOK, NEW e \in Endpoint, room' = room, Answers,
         NEW d, conf' = [conf EXCEPT ![e] = d], Turn(e, conf[e], d),
         NEW boxes, Taken(e, boxes), NEW restart \in BOOLEAN,
         inbox' = Goodbyes(boxes, e, conf[e], d, restart)
  PROVE  CallsOK' /\ AgreeOK'
  BY CalmGoodbye, QuietCall

(* ... or no stanza at all.                                                *)
LEMMA SilentCall ==
  ASSUME LocalInv, LocalInv', CallsOK, AgreeOK, NEW e \in Endpoint,
         UNCHANGED <<room, inbox, answered>>,
         NEW d, conf' = [conf EXCEPT ![e] = d], Turn(e, conf[e], d)
  PROVE  CallsOK' /\ AgreeOK'
<1>1. Answers /\ Taken(e, inbox)
  BY DEF Answers, Taken
<1>2. \A x \in Endpoint : Calm(x)
  BY <1>1, CalmDelivery
<1>3. QED
  BY <1>1, <1>2, QuietCall

LEMMA LooksCall ==
  ASSUME LocalInv, LocalInv', CallsOK, AgreeOK, NEW e \in Endpoint, Looks(e)
  PROVE  CallsOK' /\ AgreeOK'
<1>1. PICK c \in Conference, userLeft \in BOOLEAN :
        /\ Sound(e, c) /\ Expected(e, c) /\ SameSession(conf[e], c)
        /\ Handle(e, MaybeStartOrStopP2P(e, c, userLeft))
  BY DEF Looks
<1> DEFINE d == MaybeStartOrStopP2P(e, c, userLeft)
           boxes == Rest(e)
<1>2. Keeps(c, d) \/ Drops(c, d) \/ Begins(e, c, d)
  BY <1>1, MaybeSound
<1>3. /\ Here(e) /\ inbox[e] # <<>> /\ room' = room /\ answered' = answered
      /\ conf' = [conf EXCEPT ![e] = d] /\ inbox' = Goodbyes(boxes, e, conf[e], d, FALSE)
  BY <1>1 DEF Looks, Handle
<1>4. Answers /\ Taken(e, boxes)
  BY <1>3 DEF Answers, Taken
<1> HIDE DEF d, boxes
<1>5. Turn(e, conf[e], d)
  BY <1>1, <1>2, <1>3, Turned DEF Here
<1>6. QED
  BY <1>3, <1>4, <1>5, GoodbyeCall

(* The stanza e reads is in its box.                                       *)
LEMMA ReadSids ==
  ASSUME LocalInv, CallsOK, NEW e \in Endpoint, inbox[e] # <<>>
  PROVE  LET m == Received(e) IN
         /\ m.session \in Sids(inbox[e], m.type)
         /\ m.type = "initiate" => m.session \notin Sids(Rest(e)[e], "initiate")
<1>1. inbox[e] \in Seq(Message) /\ Once(inbox[e])
  BY DEF LocalInv, TypeOK, CallsOK, BoxCalls
<1>2. Rest(e)[e] = Tail(inbox[e])
  BY RestBoxes
<1>3. QED
  BY <1>1, <1>2, TailedSids DEF Received

LEMMA OnIncomingCallCall ==
  ASSUME LocalInv, LocalInv', CallsOK, AgreeOK, NEW e \in Endpoint, OnIncomingCall(e)
  PROVE  CallsOK' /\ AgreeOK'
<1> DEFINE b == conf[e]
           m == Received(e)
           s == m.session
           d == [b EXCEPT !.session = s, !.phase = "accepting", !.p2pTracks = {}]
           boxes == Rest(e)
<1>1. Here(e) /\ inbox[e] # <<>> /\ m.type = "initiate" /\ answered' = answered
  BY DEF OnIncomingCall, Receives, Received
<1>2. Answers /\ Taken(e, boxes)
  BY <1>1 DEF Answers, Taken
<1>3. s \in Sids(inbox[e], "initiate") /\ s \notin Sids(boxes[e], "initiate")
  BY <1>1, ReadSids
<1>4. b \in Conference /\ b.made \in Nat /\ (b.session = None => ~b.p2p)
  BY <1>1, Parties DEF PartiesOK, Party, LocalInv, TypeOK
<1>5. CASE e \in Capable /\ b.session = None /\ ShouldBeInP2PMode(b)
  <2>1. Handle(e, d)
    BY <1>5 DEF OnIncomingCall
  <2>2. d.session = s /\ d.phase = "accepting" /\ d.late = b.late /\ d.made = b.made /\ d.p2p = b.p2p
    BY <1>4 DEF Conference
  <2> HIDE DEF d, s, boxes
  <2>3. /\ room' = room /\ conf' = [conf EXCEPT ![e] = d] /\ inbox' = boxes
        /\ inbox' = Goodbyes(boxes, e, b, d, FALSE)
    BY <1>5, <2>1 DEF Handle, Goodbyes, boxes
  <2>4. Turn(e, b, d)
    <3>1. ~d.p2p /\ d.phase # "inviting" /\ d.late \subseteq b.late
      BY <1>4, <1>5, <2>2
    <3>2. d.session \in Sids(inbox[e], "initiate") /\ d.session \notin Sids(inbox'[e], "initiate")
      BY <1>3, <2>2, <2>3
    <3>3. d.made >= b.made
      BY <1>4, <2>2
    <3>4. QED
      BY <3>1, <3>2, <3>3 DEF Turn, Takes
  <2>5. QED
    BY <1>2, <2>3, <2>4, GoodbyeCall
<1>6. CASE ~(e \in Capable /\ b.session = None /\ ShouldBeInP2PMode(b))
  <2> DEFINE n == Terminate(e, s, FALSE)
  <2>1. /\ inbox' = Deliver(boxes, {s.by}, n) /\ room' = room
        /\ conf' = [conf EXCEPT ![e] = b]
    BY <1>6 DEF OnIncomingCall, RejectIncomingCall, LocalInv, TypeOK
  <2>2. s \in Session
    BY <1>3, Parties DEF PartiesOK, Party, Between
  <2>3. n \in Message /\ n.type = "terminate"
    BY <2>2, JingleType DEF Terminate
  <2>4. Turn(e, b, b)
    BY <1>4, SameTurn DEF SameSession
  <2> HIDE DEF n, s, boxes
  <2>5. \A x \in Endpoint : Calm(x)
    BY <1>2, <2>1, <2>3, CalmDelivery
  <2>6. QED
    BY <1>2, <2>1, <2>4, <2>5, QuietCall
<1>7. QED
  BY <1>5, <1>6

LEMMA OnCallAcceptedCall ==
  ASSUME LocalInv, LocalInv', CallsOK, AgreeOK, NEW e \in Endpoint, OnCallAccepted(e)
  PROVE  CallsOK' /\ AgreeOK'
<1> DEFINE b == conf[e]
           s == Received(e).session
           d == IF b.session = s THEN [b EXCEPT !.phase = "negotiated"] ELSE b
           boxes == Rest(e)
<1>1. /\ Here(e) /\ inbox[e] # <<>> /\ Received(e).type = "accept" /\ Handle(e, d)
      /\ answered' = IF b.session = s THEN answered \cup {s} ELSE answered
  BY DEF OnCallAccepted, Receives, Received
<1>2. s \in Sids(inbox[e], "accept") /\ s.by = e
  BY <1>1, ReadSids, Parties DEF PartiesOK, Party
<1>3. b \in Conference /\ b.made \in Nat
  BY DEF LocalInv, TypeOK, Conference
<1>4. d.session = b.session /\ d.late = b.late /\ d.made = b.made /\ d.p2p = b.p2p
      /\ (d.phase = b.phase \/ d.phase = "negotiated")
  BY <1>3 DEF Conference
<1> HIDE DEF d, s, boxes
<1>5. /\ conf' = [conf EXCEPT ![e] = d] /\ room' = room
      /\ inbox' = Goodbyes(boxes, e, b, d, FALSE)
  BY <1>1 DEF Handle, boxes
<1>6. conf'[e] = d
  BY <1>5 DEF LocalInv, TypeOK
<1>7. Answers
  BY <1>1, <1>2, <1>4, <1>6 DEF Answers
<1>8. Turn(e, b, d)
  BY <1>3, <1>4 DEF Turn, Stays
<1>9. Taken(e, boxes)
  BY <1>1 DEF Taken, boxes
<1>10. QED
  BY <1>5, <1>7, <1>8, <1>9, GoodbyeCall

LEMMA OnCallEndedCall ==
  ASSUME LocalInv, LocalInv', CallsOK, AgreeOK, NEW e \in Endpoint, OnCallEnded(e)
  PROVE  CallsOK' /\ AgreeOK'
<1> DEFINE b == conf[e]
           m == Received(e)
           x == StopP2PSession(b, m.restart)
           d == IF b.session = m.session THEN x ELSE b
           boxes == Rest(e)
<1>1. Here(e) /\ inbox[e] # <<>> /\ UNCHANGED <<room, answered>>
  BY DEF OnCallEnded, Receives
<1>2. Sound(e, b) /\ OnlyOK(e, b) /\ DeferredOK(b) /\ m.restart \in BOOLEAN
  BY <1>1, HereGood, HeadOK DEF Message
<1>3. conf' = [conf EXCEPT ![e] = d] /\ inbox' = boxes
  BY DEF OnCallEnded
<1>4. Keeps(b, x) \/ Drops(b, x)
  BY <1>2, StoppedGood
<1>5. Keeps(b, b) /\ SameSession(b, b)
  BY DEF Keeps, SameSession
<1> HIDE DEF x
<1>6. Keeps(b, d) \/ Drops(b, d)
  BY <1>4, <1>5
<1> HIDE DEF d, boxes
<1>7. Turn(e, b, d)
  BY <1>1, <1>5, <1>6, Turned DEF Here
<1>8. Answers /\ Taken(e, boxes)
  BY <1>1 DEF Answers, Taken, boxes
<1>9. \A y \in Endpoint : Calm(y)
  BY <1>3, <1>8, CalmDelivery
<1>10. QED
  BY <1>1, <1>3, <1>7, <1>8, <1>9, QuietCall

(* A step that sends the invitation to a session.                          *)
LEMMA InvitedCall ==
  ASSUME LocalInv, LocalInv', CallsOK, AgreeOK, NEW e \in Endpoint,
         UNCHANGED <<room, answered>>, NEW d, conf' = [conf EXCEPT ![e] = d],
         Stays(conf[e], d), d.made = conf[e].made,
         NEW s \in Session, Numbered(s), ToSend(s), ~ToSend(s)',
         inbox' = Deliver(inbox, {s.to}, Jingle("initiate", e, s))
  PROVE  CallsOK' /\ AgreeOK'
<1> DEFINE m == Jingle("initiate", e, s)
           to == {s.to}
<1>1. conf'[e] = d /\ (\A x \in Endpoint \ {e} : conf'[x] = conf[x]) /\ conf[e].made \in Nat
  BY DEF LocalInv, TypeOK, Conference
<1>2. Onward /\ Answers
  BY DEF Onward, Answers
<1>3. m \in Message /\ m.type = "initiate" /\ m.session = s
  BY JingleType DEF Jingle
<1>4. inbox' = Deliver(inbox, to, m)
  OBVIOUS
<1> HIDE DEF m
<1>5. ASSUME NEW x \in Endpoint
      PROVE  Boxed(x)
  <2>1. inbox[x] \in Seq(Message) /\ BoxCalls(x) /\ Once(inbox[x])
    BY DEF LocalInv, TypeOK, CallsOK, BoxCalls
  <2>2. Deliver(inbox, to, m)[x] = IF x \in to /\ Here(x) THEN Append(inbox[x], m) ELSE inbox[x]
    BY Delivered
  <2>3. CASE x \in to /\ Here(x)
    <3>1. inbox'[x] = Append(inbox[x], m) /\ s.to = x
      BY <1>4, <2>2, <2>3
    <3>2. s \notin Sids(inbox[x], "initiate")
      BY <2>1 DEF BoxCalls
    <3>3. /\ \A type, z : z \in Sids(inbox'[x], type) <=>
               z \in Sids(inbox[x], type) \/ (m.type = type /\ z = m.session)
          /\ Once(inbox'[x])
      BY <1>3, <2>1, <3>1, <3>2, AppendedSids
    <3>4. QED
      BY <1>3, <3>1, <3>3 DEF Boxed
  <2>4. CASE ~(x \in to /\ Here(x))
    BY <1>4, <2>1, <2>2, <2>4 DEF Boxed
  <2>5. QED
    BY <2>3, <2>4
<1>6. d.made >= conf[e].made
  BY <1>1
<1>7. StepOf(e)
  BY <1>1, <1>2, <1>5, <1>6 DEF StepOf
<1>8. QED
  BY <1>7, CallStep

LEMMA InviteDoneCall ==
  ASSUME LocalInv, LocalInv', CallsOK, AgreeOK, NEW e \in Endpoint, InviteDone(e)
  PROVE  CallsOK' /\ AgreeOK'
<1> DEFINE b == conf[e]
           d == [b EXCEPT !.phase = "offered"]
<1>1. /\ b.phase = "inviting" /\ UNCHANGED <<room, answered>> /\ conf' = [conf EXCEPT ![e] = d]
      /\ inbox' = Deliver(inbox, {b.session.to}, Jingle("initiate", e, b.session))
  BY DEF InviteDone
<1>2. b \in Conference /\ Party(e) /\ OwnCalls(e)
  BY Parties DEF PartiesOK, LocalInv, TypeOK, CallsOK
<1>3. PICK s \in Session : s = b.session /\ s # None /\ s.by = e
  BY <1>1, <1>2 DEF Party
<1>4. /\ d.session = s /\ d.phase = "offered" /\ d.late = b.late /\ d.made = b.made
      /\ d.p2p = b.p2p
  BY <1>2, <1>3 DEF Conference
<1> HIDE DEF d
<1>5. conf'[e] = d
  BY <1>1 DEF LocalInv, TypeOK
<1>6. Stays(b, d)
  BY <1>3, <1>4 DEF Stays
<1>7. Numbered(s) /\ s \notin b.late
  BY <1>2, <1>3 DEF OwnCalls
<1>8. ToSend(s)
  BY <1>1, <1>3 DEF ToSend
<1>9. ~ToSend(s)'
  BY <1>3, <1>4, <1>5, <1>7 DEF ToSend
<1>10. inbox' = Deliver(inbox, {s.to}, Jingle("initiate", e, s))
  BY <1>1, <1>3
<1>11. QED
  BY <1>1, <1>4, <1>6, <1>7, <1>8, <1>9, <1>10, InvitedCall

LEMMA OldInviteDoneCall ==
  ASSUME LocalInv, LocalInv', CallsOK, AgreeOK, NEW e \in Endpoint, OldInviteDone(e)
  PROVE  CallsOK' /\ AgreeOK'
<1> DEFINE b == conf[e]
<1>1. UNCHANGED <<room, answered>> /\ b \in Conference /\ Party(e) /\ OwnCalls(e)
  BY Parties DEF OldInviteDone, PartiesOK, LocalInv, TypeOK, CallsOK
<1>2. PICK s \in b.late :
        /\ conf' = [conf EXCEPT ![e].late = @ \ {s}]
        /\ inbox' = inbox \/ inbox' = Deliver(inbox, {s.to}, Jingle("initiate", e, s))
  BY DEF OldInviteDone
<1> DEFINE late == b.late \ {s}
           d == [b EXCEPT !.late = late]
<1>3. conf' = [conf EXCEPT ![e] = d]
  BY <1>2
<1>4. s \in Session /\ s.by = e
  BY <1>1 DEF Party
<1>5. /\ d.session = b.session /\ d.phase = b.phase /\ d.late = late /\ d.made = b.made
      /\ d.p2p = b.p2p /\ b.made \in Nat
  BY <1>1 DEF Conference
<1> HIDE DEF d
<1>6. Stays(b, d)
  BY <1>5 DEF Stays
<1>7. CASE inbox' = inbox
  <2>1. d.made >= b.made
    BY <1>5
  <2>2. Turn(e, b, d)
    BY <1>6, <2>1 DEF Turn
  <2>3. QED
    BY <1>1, <1>3, <1>7, <2>2, SilentCall
<1>8. CASE inbox' = Deliver(inbox, {s.to}, Jingle("initiate", e, s))
  <2>1. Numbered(s) /\ s # b.session
    BY <1>1 DEF OwnCalls
  <2>2. ToSend(s)
    BY <1>4 DEF ToSend
  <2>3. conf'[e] = d
    BY <1>3 DEF LocalInv, TypeOK
  <2>4. ~ToSend(s)'
    BY <1>4, <1>5, <2>1, <2>3 DEF ToSend
  <2>5. QED
    BY <1>1, <1>3, <1>4, <1>5, <1>6, <1>8, <2>1, <2>2, <2>4, InvitedCall
<1>9. QED
  BY <1>2, <1>7, <1>8

LEMMA AcceptDoneCall ==
  ASSUME LocalInv, LocalInv', CallsOK, AgreeOK, NEW e \in Endpoint, AcceptDone(e)
  PROVE  CallsOK' /\ AgreeOK'
<1> DEFINE b == conf[e]
           s == b.session
           d == [b EXCEPT !.phase = "negotiated"]
           m == Jingle("accept", e, s)
           to == {s.by}
<1>1. /\ Here(e) /\ b.phase = "accepting" /\ UNCHANGED <<room, answered>>
      /\ conf' = [conf EXCEPT ![e] = d] /\ inbox' = Deliver(inbox, to, m)
  BY DEF AcceptDone
<1>2. b \in Conference /\ s # None /\ s.to = e /\ Between(e, s) /\ s \in Session
  BY <1>1, HereGood DEF Good, StateOK, Between
<1>3. m \in Message /\ m.type = "accept" /\ m.session = s
  BY <1>2, JingleType DEF Jingle
<1>4. /\ d.session = s /\ d.phase = "negotiated" /\ d.late = b.late /\ d.made = b.made
      /\ d.p2p = b.p2p /\ b.made \in Nat
  BY <1>2 DEF Conference
<1> HIDE DEF d, m
<1>5. conf'[e] = d /\ (\A x \in Endpoint \ {e} : conf'[x] = conf[x])
  BY <1>1 DEF LocalInv, TypeOK
<1>6. Onward /\ Answers
  BY <1>1 DEF Onward, Answers
<1>7. ASSUME NEW x \in Endpoint
      PROVE  Boxed(x)
  <2>1. inbox[x] \in Seq(Message) /\ Once(inbox[x])
    BY DEF LocalInv, TypeOK, CallsOK, BoxCalls
  <2>2. Deliver(inbox, to, m)[x] = IF x \in to /\ Here(x) THEN Append(inbox[x], m) ELSE inbox[x]
    BY Delivered
  <2>3. CASE x \in to /\ Here(x)
    <3>1. inbox'[x] = Append(inbox[x], m) /\ s.by = x
      BY <1>1, <2>2, <2>3
    <3>2. /\ \A type, z : z \in Sids(inbox'[x], type) <=>
               z \in Sids(inbox[x], type) \/ (m.type = type /\ z = m.session)
          /\ Once(inbox'[x])
      BY <1>3, <2>1, <3>1, AppendedSids
    <3>3. conf[s.to].session = s /\ conf'[s.to].session = s /\ s.to \in Endpoint
      BY <1>2, <1>4, <1>5
    <3> HIDE DEF s, to
    <3>4. QED
      BY <1>3, <3>1, <3>2, <3>3 DEF Boxed
  <2>4. CASE ~(x \in to /\ Here(x))
    BY <1>1, <2>1, <2>2, <2>4 DEF Boxed
  <2>5. QED
    BY <2>3, <2>4
<1>8. Stays(b, d) /\ d.made >= b.made
  BY <1>4 DEF Stays
<1>9. StepOf(e)
  BY <1>1, <1>5, <1>6, <1>7, <1>8 DEF StepOf
<1>10. QED
  BY <1>9, CallStep

-----------------------------------------------------------------------------
(* The steps that leave the session alone.                                 *)

LEMMA AsideCall ==
  ASSUME LocalInv, LocalInv', CallsOK, AgreeOK, NEW e \in Endpoint,
         UNCHANGED <<room, inbox, answered>>,
         NEW d, conf' = [conf EXCEPT ![e] = d], SameSession(conf[e], d)
  PROVE  CallsOK' /\ AgreeOK'
<1>1. Turn(e, conf[e], d)
  BY SameTurn DEF LocalInv, TypeOK
<1>2. QED
  BY <1>1, SilentCall

LEMMA ShownFields ==
  ASSUME NEW c \in Conference, NEW tag \in {"jvb", "p2p"}, NEW owners
  PROVE  /\ Added(c, tag, owners) \in Conference /\ SameSession(c, Added(c, tag, owners))
         /\ Removed(c, tag, owners) \in Conference /\ SameSession(c, Removed(c, tag, owners))
<1> DEFINE more == c.shown \cup ({tag} \X (owners \cap c.peers))
           rest == c.shown \ ({tag} \X owners)
<1>1. more \in SUBSET ({"jvb", "p2p"} \X Endpoint) /\ rest \in SUBSET ({"jvb", "p2p"} \X Endpoint)
  BY DEF Conference
<1>2. SameSession(c, c)
  BY DEF SameSession
<1>3. /\ Added(c, tag, owners) \in {c, [c EXCEPT !.shown = more]}
      /\ Removed(c, tag, owners) = [c EXCEPT !.shown = rest]
  BY DEF Added, Removed
<1> HIDE DEF more, rest
<1>4. ASSUME NEW shown \in SUBSET ({"jvb", "p2p"} \X Endpoint)
      PROVE  [c EXCEPT !.shown = shown] \in Conference /\ SameSession(c, [c EXCEPT !.shown = shown])
  BY DEF Conference, SameSession
<1>5. QED
  BY <1>1, <1>2, <1>3, <1>4

LEMMA AsideCalls ==
  ASSUME LocalInv, LocalInv', CallsOK, AgreeOK, NEW e \in Endpoint,
         \/ P2PTrackAdded(e) \/ OldConnectionClosed(e) \/ JvbInvited(e) \/ JvbAccepted(e)
         \/ JvbTerminated(e) \/ JvbClosed(e) \/ JvbTrackAdded(e) \/ JvbTrackRemoved(e) \/ SetE2EE(e)
  PROVE  CallsOK' /\ AgreeOK'
<1> DEFINE b == conf[e]
<1>1. b \in Conference /\ conf \in [Endpoint -> Conference]
  BY DEF LocalInv, TypeOK
<1>2. UNCHANGED <<room, inbox, answered>>
  BY DEF P2PTrackAdded, OldConnectionClosed, JvbInvited, JvbAccepted, JvbTerminated, JvbClosed,
         JvbTrackAdded, JvbTrackRemoved, SetE2EE
<1>3. CASE P2PTrackAdded(e)
  <2> DEFINE owners == {Other(e, b.session)}
             c == [b EXCEPT !.p2pTracks = owners]
  <2>1. Here(e) /\ b.phase = "negotiated" /\ conf' = [conf EXCEPT ![e] = Added(c, "p2p", owners)]
    BY <1>3 DEF P2PTrackAdded
  <2>2. owners \subseteq Endpoint
    BY <2>1, HereGood, PeersType DEF Good, StateOK
  <2> HIDE DEF owners
  <2>3. c \in Conference /\ SameSession(b, c)
    BY <1>1, <2>2 DEF Conference, SameSession
  <2> HIDE DEF c
  <2>4. SameSession(b, Added(c, "p2p", owners))
    BY <2>3, ShownFields DEF SameSession
  <2>5. QED
    BY <1>2, <2>1, <2>4, AsideCall
<1>4. CASE OldConnectionClosed(e)
  <2> DEFINE d == [b EXCEPT !.stale = FALSE]
  <2>1. conf' = [conf EXCEPT ![e] = d] /\ SameSession(b, d)
    BY <1>1, <1>4 DEF OldConnectionClosed, Conference, SameSession
  <2>2. QED
    BY <1>2, <2>1, AsideCall
<1>5. CASE JvbInvited(e)
  <2> DEFINE d == [b EXCEPT !.jvb = "accepting", !.jvbMedia = TRUE, !.parked = FALSE]
  <2>1. conf' = [conf EXCEPT ![e] = d] /\ SameSession(b, d)
    BY <1>1, <1>5 DEF JvbInvited, Conference, SameSession
  <2>2. QED
    BY <1>2, <2>1, AsideCall
<1>6. CASE JvbAccepted(e)
  <2> DEFINE media == b.jvbMedia /\ ~b.p2p
             d == [b EXCEPT !.jvb = "live", !.jvbMedia = media]
  <2>1. conf' = [conf EXCEPT ![e] = d]
    BY <1>1, <1>6 DEF JvbAccepted, Conference
  <2> HIDE DEF media
  <2>2. SameSession(b, d)
    BY <1>1 DEF Conference, SameSession
  <2>3. QED
    BY <1>2, <2>1, <2>2, AsideCall
<1>7. CASE JvbTerminated(e)
  <2> DEFINE d == [b EXCEPT !.jvb = "none"]
  <2>1. conf' = [conf EXCEPT ![e] = d] /\ SameSession(b, d)
    BY <1>1, <1>7 DEF JvbTerminated, Conference, SameSession
  <2>2. QED
    BY <1>2, <2>1, AsideCall
<1>8. CASE JvbClosed(e)
  <2> DEFINE c == Removed(b, "jvb", b.jvbTracks)
             d == [c EXCEPT !.jvbTracks = {}]
  <2>1. conf' = [conf EXCEPT ![e] = d]
    BY <1>8 DEF JvbClosed, RemoveRemoteTracks, TracksOf
  <2>2. c \in Conference /\ SameSession(b, c)
    BY <1>1, ShownFields
  <2> HIDE DEF c
  <2>3. SameSession(b, d)
    BY <2>2 DEF Conference, SameSession
  <2>4. QED
    BY <1>2, <2>1, <2>3, AsideCall
<1>9. CASE JvbTrackAdded(e)
  <2>1. PICK q \in b.peers \ b.jvbTracks :
          conf' = [conf EXCEPT ![e] = Added([b EXCEPT !.jvbTracks = @ \cup {q}], "jvb", {q})]
    BY <1>9 DEF JvbTrackAdded
  <2> DEFINE tracks == b.jvbTracks \cup {q}
             c == [b EXCEPT !.jvbTracks = tracks]
  <2>2. tracks \in SUBSET Endpoint
    BY <1>1 DEF Conference
  <2>3. conf' = [conf EXCEPT ![e] = Added(c, "jvb", {q})]
    BY <2>1
  <2> HIDE DEF tracks
  <2>4. c \in Conference /\ SameSession(b, c)
    BY <1>1, <2>2 DEF Conference, SameSession
  <2> HIDE DEF c
  <2>5. SameSession(b, Added(c, "jvb", {q}))
    BY <2>4, ShownFields DEF SameSession
  <2>6. QED
    BY <1>2, <2>3, <2>5, AsideCall
<1>10. CASE JvbTrackRemoved(e)
  <2>1. PICK q \in b.jvbTracks \ b.peers :
          conf' = [conf EXCEPT ![e] = [Removed(b, "jvb", {q}) EXCEPT !.jvbTracks = @ \ {q}]]
    BY <1>10 DEF JvbTrackRemoved
  <2> DEFINE c == Removed(b, "jvb", {q})
             d == [c EXCEPT !.jvbTracks = @ \ {q}]
  <2>2. c \in Conference /\ SameSession(b, c)
    BY <1>1, ShownFields
  <2>3. conf' = [conf EXCEPT ![e] = d]
    BY <2>1
  <2> HIDE DEF c
  <2>4. SameSession(b, d)
    BY <2>2 DEF Conference, SameSession
  <2>5. QED
    BY <1>2, <2>3, <2>4, AsideCall
<1>11. CASE SetE2EE(e)
  <2> DEFINE d == [b EXCEPT !.e2ee = ~@, !.toggles = @ + 1, !.switching = TRUE]
  <2>1. conf' = [conf EXCEPT ![e] = d]
    BY <1>1, <1>11 DEF SetE2EE, Conference
  <2>2. SameSession(b, d)
    BY <1>1 DEF Conference, SameSession
  <2>3. QED
    BY <1>2, <2>1, <2>2, AsideCall
<1>12. QED
  BY <1>3, <1>4, <1>5, <1>6, <1>7, <1>8, <1>9, <1>10, <1>11

-----------------------------------------------------------------------------
(* The connection of the session, and what follows the encryption.         *)

LEMMA BecomeCall ==
  ASSUME LocalInv, LocalInv', CallsOK, AgreeOK, NEW e \in Endpoint, UNCHANGED <<room, answered>>,
         NEW d, conf' = [conf EXCEPT ![e] = d], Turn(e, conf[e], d),
         NEW restart \in BOOLEAN, inbox' = Goodbyes(inbox, e, conf[e], d, restart)
  PROVE  CallsOK' /\ AgreeOK'
<1>1. Answers /\ Taken(e, inbox)
  BY DEF Answers, Taken
<1>2. QED
  BY <1>1, GoodbyeCall

LEMMA StoppedTurn ==
  ASSUME LocalInv, NEW e \in Endpoint, Here(e), NEW restart \in BOOLEAN
  PROVE  Turn(e, conf[e], StopP2PSession(conf[e], restart))
<1> DEFINE b == conf[e]
           d == StopP2PSession(b, restart)
<1>1. Sound(e, b) /\ OnlyOK(e, b) /\ DeferredOK(b)
  BY HereGood
<1>2. Keeps(b, d) \/ Drops(b, d)
  BY <1>1, StoppedGood
<1>3. SameSession(b, b)
  BY DEF SameSession
<1> HIDE DEF d
<1>4. Turn(e, b, d)
  BY <1>2, <1>3, Turned DEF Here
<1>5. QED
  BY <1>4 DEF d

LEMMA IceConnectedCall ==
  ASSUME LocalInv, LocalInv', CallsOK, AgreeOK, NEW e \in Endpoint, IceConnected(e)
  PROVE  CallsOK' /\ AgreeOK'
<1> DEFINE b == conf[e]
           c == [SetP2PStatus(b, TRUE) EXCEPT !.parked = FALSE]
           y == RemoveRemoteTracks(c, "jvb")
           x == IF c.jvb = "none" THEN c ELSE SuspendJvbMedia(y)
           d == AddRemoteTracks(x, "p2p")
<1>1. Here(e) /\ b.session \in answered /\ UNCHANGED <<room, answered>>
  BY DEF IceConnected
<1>2. Become(e, d) \/ Become(e, StopP2PSession(b, FALSE))
  BY DEF IceConnected
<1>3. b \in Conference /\ b.made \in Nat
  BY DEF LocalInv, TypeOK, Conference
<1>4. CASE Become(e, d)
  <2>1. /\ c \in Conference /\ c.session = b.session /\ c.phase = b.phase /\ c.late = b.late
        /\ c.made = b.made
    BY <1>3 DEF SetP2PStatus, Conference
  <2> HIDE DEF c
  <2>2. y \in Conference /\ SameSession(c, y)
    BY <2>1, ShownFields DEF RemoveRemoteTracks
  <2> HIDE DEF y
  <2>3. x \in Conference /\ SameSession(c, x)
    <3>1. [y EXCEPT !.jvbMedia = FALSE] \in Conference /\ SameSession(c, [y EXCEPT !.jvbMedia = FALSE])
      BY <2>2 DEF Conference, SameSession
    <3>2. SameSession(c, c)
      BY DEF SameSession
    <3>3. QED
      BY <2>1, <3>1, <3>2 DEF SuspendJvbMedia
  <2> HIDE DEF x
  <2>4. SameSession(x, d)
    BY <2>3, ShownFields DEF AddRemoteTracks
  <2> HIDE DEF d
  <2>5. d.session = b.session /\ d.phase = b.phase /\ d.late = b.late /\ d.made = b.made
    BY <2>1, <2>3, <2>4 DEF SameSession
  <2>6. Turn(e, b, d)
    BY <1>1, <1>3, <2>5 DEF Turn, Stays
  <2>7. conf' = [conf EXCEPT ![e] = d] /\ inbox' = Goodbyes(inbox, e, b, d, FALSE)
    BY <1>4 DEF Become
  <2>8. QED
    BY <1>1, <2>6, <2>7, BecomeCall
<1>5. CASE Become(e, StopP2PSession(b, FALSE))
  <2> DEFINE z == StopP2PSession(b, FALSE)
  <2>1. conf' = [conf EXCEPT ![e] = z] /\ inbox' = Goodbyes(inbox, e, b, z, FALSE)
    BY <1>5 DEF Become
  <2>2. Turn(e, b, z)
    BY <1>1, StoppedTurn
  <2> HIDE DEF z
  <2>3. QED
    BY <1>1, <2>1, <2>2, BecomeCall
<1>6. QED
  BY <1>2, <1>4, <1>5

LEMMA IceFailedCall ==
  ASSUME LocalInv, LocalInv', CallsOK, AgreeOK, NEW e \in Endpoint, IceFailed(e)
  PROVE  CallsOK' /\ AgreeOK'
<1> DEFINE b == conf[e]
           d == StopP2PSession(b, FALSE)
<1>1. /\ Here(e) /\ UNCHANGED <<room, answered>> /\ conf' = [conf EXCEPT ![e] = d]
      /\ inbox' = Goodbyes(inbox, e, b, d, FALSE)
  BY DEF IceFailed, Become
<1>2. Turn(e, b, d)
  BY <1>1, StoppedTurn
<1> HIDE DEF d
<1>3. QED
  BY <1>1, <1>2, BecomeCall

LEMMA OldConnectionFailedCall ==
  ASSUME LocalInv, LocalInv', CallsOK, AgreeOK, NEW e \in Endpoint, OldConnectionFailed(e)
  PROVE  CallsOK' /\ AgreeOK'
<1> DEFINE b == conf[e]
           c == StopP2PSession(b, FALSE)
           d == [c EXCEPT !.stale = FALSE]
<1>1. /\ Here(e) /\ UNCHANGED <<room, answered>> /\ conf' = [conf EXCEPT ![e] = d]
      /\ inbox' = Goodbyes(inbox, e, b, d, FALSE)
  BY DEF OldConnectionFailed, Become
<1>2. Sound(e, b) /\ OnlyOK(e, b) /\ DeferredOK(b)
  BY <1>1, HereGood
<1>3. Sound(e, c) /\ (Keeps(b, c) \/ Drops(b, c))
  BY <1>2, StoppedGood
<1> HIDE DEF c
<1>4. /\ d.session = c.session /\ d.phase = c.phase /\ d.late = c.late /\ d.made = c.made
      /\ d.p2p = c.p2p
  BY <1>3 DEF Sound, Conference
<1>5. Keeps(b, d) \/ Drops(b, d)
  BY <1>3, <1>4 DEF Keeps, Drops
<1>6. SameSession(b, b)
  BY DEF SameSession
<1> HIDE DEF d
<1>7. Turn(e, b, d)
  BY <1>1, <1>5, <1>6, Turned DEF Here
<1>8. QED
  BY <1>1, <1>7, BecomeCall

LEMMA DeferredStartCall ==
  ASSUME LocalInv, LocalInv', CallsOK, AgreeOK, NEW e \in Endpoint, DeferredStart(e)
  PROVE  CallsOK' /\ AgreeOK'
<1> DEFINE b == conf[e]
           alone == b.peers = {b.deferred} /\ b.bots = {}
           history == b.outdated \/ (b.session = None /\ b.toggles > 0 /\ ~alone)
           q == b.deferred
           c == StartP2PSession(e, b, q)
           d == [c EXCEPT !.outdated = history]
<1>1. q # None /\ UNCHANGED <<room, inbox, answered>>
  BY DEF DeferredStart
<1>2. b \in Conference /\ b.made \in Nat /\ q \in Endpoint
  BY <1>1 DEF LocalInv, TypeOK, Conference
<1>3. CASE Here(e)
  <2>1. conf' = [conf EXCEPT ![e] = d]
    BY <1>3 DEF DeferredStart
  <2>2. /\ c \in Conference /\ c.late = b.late /\ c.p2p = b.p2p
        /\ b.session # None => c.session = b.session /\ c.phase = b.phase /\ c.made = b.made
        /\ b.session = None => /\ c.session = [by |-> e, to |-> q, n |-> b.made]
                               /\ c.phase = "inviting" /\ c.made = b.made + 1
    BY <1>2, StartedFields
  <2> HIDE DEF c, history
  <2>3. /\ d.session = c.session /\ d.phase = c.phase /\ d.late = c.late /\ d.made = c.made
        /\ d.p2p = c.p2p
    BY <2>2 DEF Conference
  <2> HIDE DEF d
  <2>4. b.session = None => ~b.p2p
    BY <1>3, Parties DEF PartiesOK, Party
  <2>5. Turn(e, b, d)
    <3>1. CASE b.session # None
      BY <1>2, <2>2, <2>3, <3>1 DEF Turn, Stays
    <3>2. CASE b.session = None
      <4>1. d.session.by = e /\ d.session.n = b.made /\ d.made = b.made + 1 /\ d.late = b.late
        BY <2>2, <2>3, <3>2
      <4>2. ~d.p2p /\ room[e] # "left" /\ d.late \subseteq Late(b)
        BY <1>3, <2>2, <2>3, <2>4, <3>2 DEF Here, Late
      <4>3. QED
        BY <1>2, <4>1, <4>2 DEF Turn, Starts
    <3>3. QED
      BY <3>1, <3>2
  <2>6. QED
    BY <1>1, <2>1, <2>5, SilentCall
<1>4. CASE ~Here(e)
  <2> DEFINE x == [b EXCEPT !.deferred = None]
  <2>1. conf' = [conf EXCEPT ![e] = x] /\ SameSession(b, x)
    BY <1>2, <1>4 DEF DeferredStart, Conference, SameSession
  <2>2. QED
    BY <1>1, <2>1, AsideCall
<1>5. QED
  BY <1>3, <1>4

LEMMA RestartMediaSessionsCall ==
  ASSUME LocalInv, LocalInv', CallsOK, AgreeOK, NEW e \in Endpoint, RestartMediaSessions(e)
  PROVE  CallsOK' /\ AgreeOK'
<1> DEFINE b == conf[e]
           c0 == StopP2PSession([b EXCEPT !.switching = FALSE], TRUE)
           c == [c0 EXCEPT !.jvb = IF c0.jvb = "none" THEN "none" ELSE "ended"]
           d == MaybeStartOrStopP2P(e, c, FALSE)
<1>1. Here(e) /\ b.switching /\ UNCHANGED <<room, answered>>
  BY DEF RestartMediaSessions
<1>2. conf' = [conf EXCEPT ![e] = d] /\ inbox' = Goodbyes(inbox, e, b, d, TRUE)
  BY DEF RestartMediaSessions
<1>3. /\ c0.session = None /\ (Keeps(b, c0) \/ Drops(b, c0))
      /\ Keeps(c0, d) \/ Begins(e, c0, d)
  BY <1>1, RestartConference
<1> HIDE DEF c0, d
<1>4. b.made \in Nat /\ (b.session = None => ~b.p2p)
  BY <1>1, Parties DEF PartiesOK, Party
<1>5. c0.made = b.made /\ ~c0.p2p /\ c0.late \subseteq Late(b)
  BY <1>3, <1>4 DEF Keeps, Drops, Late
<1>6. Turn(e, b, d)
  <2>1. CASE Begins(e, c0, d)
    <3>1. PICK q \in c0.peers : d.session = [by |-> e, to |-> q, n |-> c0.made]
      BY <2>1 DEF Begins
    <3>2. d.session.by = e /\ d.session.n = b.made
      BY <1>5, <3>1
    <3>3. QED
      BY <1>1, <1>4, <1>5, <2>1, <3>2 DEF Begins, Turn, Starts, Here
  <2>2. CASE Keeps(c0, d) /\ Keeps(b, c0)
    BY <1>4, <2>2 DEF Keeps, Turn, Stays
  <2>3. CASE Keeps(c0, d) /\ Drops(b, c0)
    BY <1>4, <1>5, <2>3 DEF Keeps, Drops, Turn, Ends
  <2>4. QED
    BY <1>3, <2>1, <2>2, <2>3
<1>7. QED
  BY <1>1, <1>2, <1>6, BecomeCall

-----------------------------------------------------------------------------
(* The room.                                                               *)

LEMMA RoomCall ==
  ASSUME LocalInv, LocalInv', CallsOK, AgreeOK, NEW e \in Endpoint, room[e] # "left",
         NEW r, r # "out", room' = [room EXCEPT ![e] = r], answered' = answered,
         NEW d, conf' = [conf EXCEPT ![e] = d], Turn(e, conf[e], d), \A x \in Endpoint : Calm(x)
  PROVE  CallsOK' /\ AgreeOK'
<1>1. /\ conf'[e] = d /\ \A x \in Endpoint \ {e} : conf'[x] = conf[x] /\ room'[x] = room[x]
      /\ room'[e] = r
  BY DEF LocalInv, TypeOK
<1>2. Onward /\ Answers
  BY <1>1 DEF Onward, Answers
<1>3. \A x \in Endpoint : Boxed(x)
  BY DEF Calm, Boxed
<1>4. StepOf(e)
  BY <1>1, <1>2, <1>3 DEF StepOf, Turn
<1>5. QED
  BY <1>4, CallStep

LEMMA JoinCall ==
  ASSUME LocalInv, LocalInv', CallsOK, AgreeOK, NEW e \in Endpoint, Join(e)
  PROVE  CallsOK' /\ AgreeOK'
<1> DEFINE b == conf[e]
           c == [b EXCEPT !.peers = Occupants \ {e}, !.bots = Occupants \ (Members \cup {e})]
           d == MaybeStartOrStopP2P(e, c, FALSE)
           m == Presence(IF room[e] = "bot" THEN "human" ELSE "join", e)
<1>1. /\ room[e] \in {"out", "bot"} /\ room' = [room EXCEPT ![e] = "in"]
      /\ conf' = [conf EXCEPT ![e] = d] /\ inbox' = Deliver(inbox, Members, m)
      /\ answered' = answered
  BY DEF Join
<1>2. Keeps(c, d) \/ Drops(c, d) \/ Begins(e, c, d)
  BY <1>1, JoinConference
<1>3. SameSession(b, c)
  BY DEF LocalInv, TypeOK, Conference, SameSession
<1> HIDE DEF c, d
<1>4. Turn(e, b, d)
  BY <1>1, <1>2, <1>3, Turned
<1>5. m \in Message /\ m.type \notin {"initiate", "accept"}
  BY DEF Presence, Message
<1> HIDE DEF m
<1>6. \A x \in Endpoint : Calm(x)
  BY <1>1, <1>5, CalmDelivery DEF Taken
<1>7. QED
  BY <1>1, <1>4, <1>6, RoomCall

LEMMA BotJoinsCall ==
  ASSUME LocalInv, LocalInv', CallsOK, AgreeOK, NEW e \in Endpoint, BotJoins(e)
  PROVE  CallsOK' /\ AgreeOK'
<1> DEFINE b == conf[e]
           m == Presence("bot", e)
<1>1. /\ room[e] = "out" /\ room' = [room EXCEPT ![e] = "bot"] /\ answered' = answered
      /\ inbox' = Deliver(inbox, Members, m)
  BY DEF BotJoins
<1>2. b \in Conference /\ conf' = [conf EXCEPT ![e] = b]
  BY DEF BotJoins, LocalInv, TypeOK
<1>3. Turn(e, b, b)
  BY <1>2, SameTurn DEF SameSession
<1>4. m \in Message /\ m.type \notin {"initiate", "accept"}
  BY DEF Presence, Message
<1> HIDE DEF m
<1>5. \A x \in Endpoint : Calm(x)
  BY <1>1, <1>4, CalmDelivery DEF Taken
<1>6. QED
  BY <1>1, <1>2, <1>3, <1>5, RoomCall

LEMMA LeaveCall ==
  ASSUME LocalInv, LocalInv', CallsOK, AgreeOK, NEW e \in Endpoint, Leave(e)
  PROVE  CallsOK' /\ AgreeOK'
<1> DEFINE b == conf[e]
           d == [NewConference EXCEPT !.p2p = b.p2p, !.deferred = b.deferred]
           m == Presence("leave", e)
           to == Members \ {e}
           boxes == Deliver(inbox, to, m)
<1>1. /\ room[e] \in {"in", "bot"} /\ room' = [room EXCEPT ![e] = "left"]
      /\ conf' = [conf EXCEPT ![e] = d] /\ answered' = answered
      /\ inbox' = [boxes EXCEPT ![e] = <<>>]
  BY DEF Leave
<1>2. d.session = None /\ d.phase = "none" /\ d.late = {}
  BY DEF NewConference
<1> HIDE DEF d
<1>3. room'[e] = "left"
  BY <1>1 DEF LocalInv, TypeOK
<1>4. Turn(e, b, d)
  BY <1>2, <1>3 DEF Turn, Ends
<1>5. m \in Message /\ m.type \notin {"initiate", "accept"}
  BY DEF Presence, Message
<1>6. \A x \in Endpoint : boxes[x] = IF x \in to /\ Here(x) THEN Append(inbox[x], m) ELSE inbox[x]
  BY Delivered
<1>7. boxes = [x \in Endpoint |-> boxes[x]]
  BY DEF Deliver
<1> HIDE DEF m, to, boxes
<1>8. inbox'[e] = <<>> /\ \A x \in Endpoint \ {e} : inbox'[x] = boxes[x]
  BY <1>1, <1>7
<1>9. ASSUME NEW x \in Endpoint
      PROVE  Calm(x)
  <2>1. CASE x = e
    <3>1. DOMAIN inbox'[x] = {}
      BY <1>8, <2>1, EmptySeq
    <3>2. QED
      BY <3>1 DEF Calm, Once, Sids
  <2>2. CASE x # e
    <3>1. inbox'[x] = inbox[x] \/ inbox'[x] = Append(inbox[x], m)
      BY <1>6, <1>8, <2>2
    <3> DEFINE box == inbox[x]
    <3>2. \/ inbox'[x] = box
          \/ \E n \in Message : n.type \notin {"initiate", "accept"} /\ inbox'[x] = Append(box, n)
      BY <1>5, <3>1
    <3>3. QED
      BY <3>2, CalmBox
  <2>3. QED
    BY <2>1, <2>2
<1>10. QED
  BY <1>1, <1>4, <1>9, RoomCall

-----------------------------------------------------------------------------
(* What holds of every two conferences.                                    *)

LEMMA CallsInit == Init => CallsInv
<1>1. SUFFICES ASSUME Init
               PROVE  CallsInv
  OBVIOUS
<1>2. \A e \in Endpoint : conf[e] = NewConference /\ inbox[e] = <<>> /\ room[e] = "out"
  BY <1>1 DEF Init
<1>3. NewConference.session = None /\ NewConference.late = {} /\ answered = {}
  BY <1>1 DEF NewConference, Init
<1>4. ASSUME NEW e \in Endpoint
      PROVE  OwnCalls(e) /\ BoxCalls(e)
  <2>1. DOMAIN inbox[e] = {}
    BY <1>2
  <2>2. Once(inbox[e]) /\ \A type : Sids(inbox[e], type) = {}
    BY <2>1 DEF Once, Sids
  <2>3. OwnCalls(e)
    BY <1>2, <1>3 DEF OwnCalls, Here
  <2>4. QED
    BY <2>2, <2>3 DEF BoxCalls
<1>5. CallsOK /\ AgreeOK
  BY <1>3, <1>4 DEF CallsOK, AgreeOK
<1>6. QED
  BY <1>1, <1>5, LocalInit DEF CallsInv

LEMMA CallsNext == CallsInv /\ [Next]_vars => CallsInv'
<1>1. SUFFICES ASSUME CallsInv, [Next]_vars
               PROVE  CallsInv'
  OBVIOUS
<1>2. LocalInv /\ CallsOK /\ AgreeOK /\ LocalInv'
  BY <1>1, LocalNext DEF CallsInv
<1>3. CASE UNCHANGED vars
  <2>1. room' = room /\ inbox' = inbox /\ conf' = conf /\ answered' = answered
    BY <1>3 DEF vars
  <2>2. CallsOK'
    BY <1>2, <2>1 DEF CallsOK, OwnCalls, BoxCalls, Numbered, Handled, ToSend, Here
  <2>3. AgreeOK'
    BY <1>2, <2>1 DEF AgreeOK
  <2>4. QED
    BY <1>2, <2>2, <2>3 DEF CallsInv
<1>4. ASSUME NEW e \in Endpoint, Stanza(e)
      PROVE  CallsInv'
  <2>1. OnMemberJoined(e) \/ OnBotTypeRemoved(e) \/ OnMemberLeft(e) => Looks(e)
    BY <1>2, OnMemberJoinedLooks, OnBotTypeRemovedLooks, OnMemberLeftLooks
  <2>2. QED
    BY <1>2, <1>4, <2>1, LooksCall, OnIncomingCallCall, OnCallAcceptedCall, OnCallEndedCall
    DEF Stanza, CallsInv
<1>5. ASSUME NEW e \in Endpoint, Tasks(e)
      PROVE  CallsInv'
  BY <1>2, <1>5, InviteDoneCall, OldInviteDoneCall, AcceptDoneCall, AsideCalls, DeferredStartCall,
     RestartMediaSessionsCall DEF Tasks, CallsInv
<1>6. ASSUME NEW e \in Endpoint, JvbTasks(e) \/ Ice(e)
      PROVE  CallsInv'
  BY <1>2, <1>6, AsideCalls, IceConnectedCall, IceFailedCall DEF JvbTasks, Ice, CallsInv
<1>7. ASSUME NEW e \in Endpoint, Environment(e)
      PROVE  CallsInv'
  BY <1>2, <1>7, JoinCall, BotJoinsCall, LeaveCall, OldConnectionFailedCall, AsideCalls
  DEF Environment, CallsInv
<1>8. QED
  BY <1>1, <1>3, <1>4, <1>5, <1>6, <1>7 DEF Next

(* Every reachable state has the inductive invariant of the sessions: an   *)
(* invitation is sent once, an answer belongs to one that was handled, and *)
(* the session both are in is the last one they answered.                  *)
THEOREM CallsInductive == Spec => []CallsInv
  BY CallsInit, CallsNext, PTL DEF Spec

(* Two participants that are in P2P mode with each other use the same      *)
(* session, whatever was invited, refused, restarted or late in between    *)
(* (_onIncomingCallP2P, onCallAccepted, _onIceConnectionEstablished).      *)
THEOREM PeersAgreeOnSession == Spec => []PeersAgree
<1>1. CallsInv => PeersAgree
  <2>1. SUFFICES ASSUME CallsInv, NEW e \in Members, NEW q \in Members, conf[e].p2p, conf[q].p2p,
                        Other(e, conf[e].session) = q, Other(q, conf[q].session) = e
                 PROVE  conf[e].session = conf[q].session
    BY DEF PeersAgree
  <2>2. e \in Endpoint /\ q \in Endpoint /\ Here(e) /\ Here(q)
    BY DEF Members
  <2>3. Party(e) /\ Party(q) /\ OwnCalls(e) /\ OwnCalls(q)
    BY <2>1, <2>2, Parties DEF CallsInv, PartiesOK, CallsOK
  <2>4. PICK s \in Session, z \in Session : s = conf[e].session /\ z = conf[q].session
    BY <2>1, <2>2, <2>3 DEF Party
  <2>5. /\ Between(e, s) /\ Between(q, z) /\ s \in answered /\ z \in answered
        /\ s # None /\ z # None
    BY <2>1, <2>2, <2>3, <2>4 DEF Party, OwnCalls
  <2>6. s.by = z.by /\ s.to = z.to /\ {s.by, s.to} = {e, q} /\ s.by \in Nat /\ s.to \in Nat
    BY <2>1, <2>2, <2>4, <2>5, EndpointAssumption DEF Between, Other
  <2>7. AgreeOK
    BY <2>1 DEF CallsInv
  <2>8. CASE s.to = e /\ s.by = q
    BY <2>4, <2>5, <2>6, <2>7, <2>8 DEF AgreeOK
  <2>9. CASE s.to = q /\ s.by = e
    BY <2>4, <2>5, <2>6, <2>7, <2>9 DEF AgreeOK
  <2>10. QED
    BY <2>6, <2>8, <2>9
<1>2. QED
  BY <1>1, CallsInductive, PTL
=============================================================================
