---------------------------- MODULE RemoteTracks ----------------------------
(***************************************************************************)
(* The remote video tracks of a conference: what the presence of their     *)
(* owners says (SignalingLayerImpl), the tracks of each media session      *)
(* (TraceablePeerConnection), what the application is shown                *)
(* (JitsiConference), and the status of each video (VideoStatus).          *)
(*                                                                         *)
(* An owner joins and leaves once and sends one video source per session,  *)
(* named alike in both; the type of a video and the audio tracks take the  *)
(* way of the mute state.  Presence of an owner comes before its sources.  *)
(* The application asks for the status of tracks it is shown and stops     *)
(* when told that one is removed.                                          *)
(***************************************************************************)
EXTENDS VideoStatus, Sequences, FiniteSets

CONSTANTS Owner, Changes \* bound: changes of mute state in the presence of an owner

ASSUME RemoteTracksAssumption == IsFiniteSet(Owner) /\ Changes \in Nat

Session == {"jvb", "p2p"}
Key == (Session \union {"user"}) \X Owner

VARIABLES
    names,      \* source names are signalled: tracks have a status, else owners
    presence,   \* of each owner: its place, what it said, its source at the bridge
    sources,    \* the source infos kept of the owners that send them
    ses,        \* the sessions: described sources, tasks, track event, tracks
    track,      \* the tracks: muted, dry (no data), status asked for
    shown,      \* the tracks the participants have
    p2p,        \* the P2P session: "none", "starting" or "active"
    bridge,     \* what the bridge said: forwarded sources, dead endpoints
    audioOnly,  \* lastN is 0
    det         \* the detectors

vars == <<names, presence, sources, ses, track, shown, p2p, bridge, audioOnly, det>>

member == {o \in Owner : presence[o].place = "in"}

Task == [op : {"add", "remove", "leave"}, owner : Owner]

NoEvent == [kind |-> "none"]
NoTrack == [muted |-> FALSE, dry |-> FALSE, asked |-> FALSE]
NewSession == [described |-> {}, tasks |-> <<>>, event |-> NoEvent, tracks |-> {}]

-----------------------------------------------------------------------------
(* What a detector looks at.  A participant without a video is muted.      *)
View(k) ==
    LET o == k[2]
        videos == IF k[1] = "user" THEN {s \in Session : <<s, o>> \in shown} ELSE {k[1]}
    IN [p2p |-> p2p = "active",
        audioOnly |-> audioOnly,
        muted |-> \A s \in videos : track[s][o].muted,
        dry |-> \E s \in videos : track[s][o].dry,
        forwarded |-> bridge.forwarded[o] \in {"all", "in"},
        bridgeOk |-> k[1] # "user" \/ o \notin bridge.dead]

NoVideo(v) == [v EXCEPT !.muted = TRUE, !.dry = FALSE]

(* The detectors that are there: of every participant, or of every track   *)
(* whose status the application asked for.                                 *)
Watched == {k \in Key : IF names THEN k[1] # "user" /\ track[k[1]][k[2]].asked
                        ELSE k[1] = "user" /\ k[2] \in member}

(* The status is figured out of a participant only while it is there.      *)
FigureOut(k, d) == IF k \in Watched' THEN Figure(d, View(k)') ELSE d

RefreshAll == det' = [k \in Key |-> FigureOut(k, det[k])]

(* The status of a track goes with its detector.  How long its source has  *)
(* been forwarded is the track's own.                                      *)
DisposeStatus(d) == [NewDetector EXCEPT !.enteredFor = d.enteredFor]

(* Faulty: the participant's status is not figured out without the track.  *)
ForgetTimesQuietly(k, removed, v) ==
    LET mine == {<<s, k[2]>> : s \in Session} \intersect removed IN
    IF names THEN IF k \in removed THEN DisposeStatus(det[k]) ELSE det[k]
    ELSE IF mine # {} THEN ClearTimes(det[k]) ELSE det[k]

(* Removed tracks: the participant's times are forgotten; the application  *)
(* no longer asks for their status.  A participant removed with its tracks *)
(* has them still.                                                         *)
ForgetTimes(k, removed, v) ==
    LET mine == {<<s, k[2]>> : s \in Session} \intersect removed IN
    IF names THEN IF k \in removed THEN DisposeStatus(det[k]) ELSE det[k]
    ELSE IF mine # {} /\ k \in Watched THEN Figure(ClearTimes(det[k]), v) ELSE det[k]

-----------------------------------------------------------------------------
(* What the signalling says of an owner's video.  An owner that sends no   *)
(* source infos is known by its legacy presence.                           *)

SendsSourceInfo(o) == names /\ presence[o].modern

GetPeerMediaInfo(o) ==
    IF SendsSourceInfo(o) THEN sources[o] # "unmuted" ELSE presence[o].muted

SourceInfo(muted) == IF muted THEN "muted" ELSE "unmuted"

(* Sessions hear of a mute state of a source info only when it is new.     *)
Told(o, muted) == ~SendsSourceInfo(o) \/ sources[o] # SourceInfo(muted)

(* Faulty: only the active session hears of it.                            *)
SetMuteActive(o, muted) ==
    track' = [s \in Session |-> [track[s] EXCEPT ![o].muted =
                IF o \in ses[s].tracks /\ (s = "p2p") = (p2p = "active") THEN muted ELSE @]]

SetMute(o, muted) ==
    track' = [s \in Session |-> [track[s] EXCEPT ![o].muted =
                IF o \in ses[s].tracks /\ Told(o, muted) THEN muted ELSE @]]

KeepSourceInfo(o, muted) ==
    sources' = IF SendsSourceInfo(o)' THEN [sources EXCEPT ![o] = SourceInfo(muted)]
               ELSE sources

Presence(o, muted) ==
    /\ o \in member /\ presence[o].muted # muted /\ presence[o].changes < Changes
    /\ presence' = [presence EXCEPT ![o].muted = muted, ![o].changes = @ + 1]
    /\ UNCHANGED <<names, ses, shown, p2p, bridge, audioOnly>>
    /\ KeepSourceInfo(o, muted)
    /\ SetMute(o, muted)
    /\ det' = [k \in Key |-> IF k \in Watched /\ View(k)'.muted # View(k).muted
                             THEN Figure(det[k], View(k)') ELSE det[k]]

-----------------------------------------------------------------------------
(* The P2P session ends, if there is one.  Its tracks are removed, and     *)
(* those of the bridge come back after the change of status was told.      *)
StopP2P ==
    LET removed == {k \in shown : k[1] = "p2p"} IN
    /\ p2p' = "none"
    /\ ses' = [ses EXCEPT !["p2p"] = NewSession]
    /\ track' = [track EXCEPT !["p2p"] = [o \in Owner |-> NoTrack]]
    /\ shown' = IF p2p = "active"
                THEN {<<"jvb", o>> : o \in ses["jvb"].tracks \intersect member'}
                ELSE shown
    /\ det' = [k \in Key |->
           LET d == ForgetTimes(k, removed, View(k)) IN
           IF p2p = "active" /\ k \in Watched' THEN Figure(d, NoVideo(View(k)')) ELSE d]

(* An owner joins; a third participant ends P2P.                           *)
MemberJoined(o, muted) ==
    /\ presence[o].place = "out"
    /\ presence' = [presence EXCEPT ![o].place = "in", ![o].muted = muted]
    /\ UNCHANGED <<names, bridge, audioOnly>>
    /\ KeepSourceInfo(o, muted)
    /\ StopP2P

(* An owner leaves: its tracks are removed from the conference at once,    *)
(* and from the sessions by a task.  The peer takes the P2P session along. *)
MemberLeft(o) ==
    LET its == {<<s, o>> : s \in {s \in Session : o \in ses[s].tracks}}
        leave == [op |-> "leave", owner |-> o]
    IN
    /\ o \in member
    /\ presence' = [presence EXCEPT ![o].place = "gone"]
    /\ sources' = [sources EXCEPT ![o] = "none"]
    /\ p2p' = "none"
    /\ ses' = [jvb |-> [ses["jvb"] EXCEPT !.tasks = Append(@, leave)], p2p |-> NewSession]
    /\ track' = [jvb |-> [track["jvb"] EXCEPT ![o].asked = FALSE],
                 p2p |-> [q \in Owner |-> NoTrack]]
    /\ shown' = {k \in shown : k[2] # o}
    /\ UNCHANGED <<names, bridge, audioOnly>>
    /\ det' = [k \in Key |-> ForgetTimes(k, its, View(k))]

Queue(s, op, o) == ses' = [ses EXCEPT ![s].tasks = Append(@, [op |-> op, owner |-> o])]

StartP2P(o) ==
    /\ p2p = "none" /\ member = {o}
    /\ p2p' = "starting"
    /\ Queue("p2p", "add", o)
    /\ UNCHANGED <<names, presence, sources, track, shown, bridge, audioOnly, det>>

(* ICE connects: the status is told, then the tracks change over.          *)
P2PConnected ==
    LET removed == {k \in shown : k[1] = "jvb"}
        connected(k) == [View(k) EXCEPT !.p2p = TRUE]
        refreshed(k) == IF k \in Watched THEN Figure(det[k], connected(k)) ELSE det[k]
    IN
    /\ p2p = "starting" /\ ses["p2p"].described # {}
    /\ p2p' = "active"
    /\ shown' = {<<"p2p", o>> : o \in ses["p2p"].tracks \intersect member}
    /\ track' = [track EXCEPT !["jvb"] = [o \in Owner |-> [@[o] EXCEPT !.asked = FALSE]]]
    /\ UNCHANGED <<names, presence, sources, ses, bridge, audioOnly>>
    /\ det' = [k \in Key |->
           IF names THEN IF k \in removed THEN DisposeStatus(refreshed(k)) ELSE refreshed(k)
           ELSE IF k \in Watched /\ <<"jvb", k[2]>> \in removed
                THEN Figure(ClearTimes(refreshed(k)), NoVideo(connected(k)))
                ELSE refreshed(k)]

P2PStopped ==
    /\ p2p # "none"
    /\ UNCHANGED <<names, presence, sources, bridge, audioOnly>>
    /\ StopP2P

-----------------------------------------------------------------------------
(* Sources of the bridge.  The focus tells of one after its owner's        *)
(* presence, perhaps after the owner left, and takes it back in the end.   *)

SourceAdd(o) ==
    /\ presence[o].place # "out" /\ presence[o].source = "none"
    /\ presence' = [presence EXCEPT ![o].source = "added"]
    /\ Queue("jvb", "add", o)
    /\ UNCHANGED <<names, sources, track, shown, p2p, bridge, audioOnly, det>>

SourceRemove(o) ==
    /\ presence[o].source = "added"
    /\ presence' = [presence EXCEPT ![o].source = "removed"]
    /\ Queue("jvb", "remove", o)
    /\ UNCHANGED <<names, sources, track, shown, p2p, bridge, audioOnly, det>>

(* Faulty: sources taken back are those that have a track.                 *)
DescribesTracks(s, task) ==
    IF task.op = "add" THEN ses[s].described \union {task.owner}
    ELSE ses[s].described \ ({task.owner} \intersect ses[s].tracks)

(* What a task does to the remote description.  A source that is described *)
(* is not added again; a participant's sources are those of its tracks.    *)
Describes(s, task) ==
    CASE task.op = "add" -> ses[s].described \union {task.owner}
      [] task.op = "remove" -> ses[s].described \ {task.owner}
      [] OTHER -> ses[s].described \ ({task.owner} \intersect ses[s].tracks)

(* A task sets the remote description, and the browser tells of the track  *)
(* that came or went before the task ends.                                 *)
RunTask(s) ==
    LET task == Head(ses[s].tasks)
        described == Describes(s, task)
        kind == IF described = ses[s].described THEN "none"
                ELSE IF task.op = "add" THEN "added" ELSE "removed"
    IN
    /\ ses[s].tasks # <<>> /\ ses[s].event = NoEvent
    /\ ses' = IF kind = "none" THEN [ses EXCEPT ![s].tasks = Tail(@)]
              ELSE [ses EXCEPT ![s].described = described,
                               ![s].event = [kind |-> kind, owner |-> task.owner]]
    /\ UNCHANGED <<names, presence, sources, track, shown, p2p, bridge, audioOnly, det>>

EndTask(s, tracks) ==
    ses' = [ses EXCEPT ![s].tasks = Tail(@), ![s].event = NoEvent, ![s].tracks = tracks]

(* A track is added: its owner must have a presence.  The conference adds  *)
(* it to the participant if its session is the active one.                 *)
RemoteTrackAdded(s) ==
    LET o == ses[s].event.owner IN
    /\ ses[s].event.kind = "added"
    /\ UNCHANGED <<names, presence, sources, p2p, bridge, audioOnly, det>>
    /\ IF o \notin member
       THEN EndTask(s, ses[s].tracks) /\ UNCHANGED <<track, shown>>
       ELSE /\ EndTask(s, ses[s].tracks \union {o})
            /\ track' = [track EXCEPT ![s][o] =
                   [muted |-> GetPeerMediaInfo(o), dry |-> TRUE, asked |-> FALSE]]
            /\ shown' = IF (s = "p2p") = (p2p = "active") THEN shown \union {<<s, o>>}
                        ELSE shown

(* A track is removed: it is disposed of, its status with it, and the      *)
(* conference removes it from its participant.                             *)
RemoteTrackRemoved(s) ==
    LET o == ses[s].event.owner IN
    /\ ses[s].event.kind = "removed"
    /\ EndTask(s, ses[s].tracks \ {o})
    /\ track' = [track EXCEPT ![s][o] = NoTrack]
    /\ shown' = shown \ {<<s, o>>}
    /\ UNCHANGED <<names, presence, sources, p2p, bridge, audioOnly>>
    /\ det' = [k \in Key |->
           IF k = <<s, o>> THEN NewDetector
           ELSE ForgetTimes(k, {<<s, o>>} \intersect shown, NoVideo(View(k)))]

-----------------------------------------------------------------------------
(* The application asks for the status of a track it is shown, or stops.   *)

AddEventListener(k) ==
    /\ names /\ k \in shown /\ ~track[k[1]][k[2]].asked
    /\ track' = [track EXCEPT ![k[1]][k[2]].asked = TRUE]
    /\ UNCHANGED <<names, presence, sources, ses, shown, p2p, bridge, audioOnly, det>>

RemoveEventListener(k) ==
    /\ k \in Watched /\ names
    /\ track' = [track EXCEPT ![k[1]][k[2]].asked = FALSE]
    /\ det' = [det EXCEPT ![k] = DisposeStatus(@)]
    /\ UNCHANGED <<names, presence, sources, ses, shown, p2p, bridge, audioOnly>>

(* The detectors that take a track's events for theirs: the participant's, *)
(* or those of tracks with the name of its source, whatever their session. *)
Hearing(o) == {k \in Key : k[2] = o /\ IF names THEN k \in Watched ELSE k[1] = "user"}

(* The data of a track stops.                                              *)
TrackRtcMuted(s, o) ==
    /\ o \in ses[s].tracks /\ ~track[s][o].dry
    /\ track' = [track EXCEPT ![s][o].dry = TRUE]
    /\ UNCHANGED <<names, presence, sources, ses, shown, p2p, bridge, audioOnly>>
    /\ det' = [k \in Key |->
           IF k \in Hearing(o) \intersect Watched
           THEN RtcMuted(det[k], View(k), IF names THEN track[s][o].muted ELSE View(k).muted)
           ELSE det[k]]

(* Data of a track arrives.                                                *)
TrackRtcUnmuted(s, o) ==
    /\ o \in ses[s].tracks /\ track[s][o].dry
    /\ track' = [track EXCEPT ![s][o].dry = FALSE]
    /\ UNCHANGED <<names, presence, sources, ses, shown, p2p, bridge, audioOnly>>
    /\ det' = [k \in Key |-> IF k \in Hearing(o) THEN FigureOut(k, ClearTimes(det[k]))
                             ELSE det[k]]

(* The bridge tells which sources it forwards, or whose videos in lastN.   *)
(* The first list has entering sources only.                               *)
ForwardedSourcesChanged(list) ==
    LET now == [o \in Owner |-> IF o \in list THEN "in" ELSE "out"]
        was == bridge.forwarded
        heard(k) == ~names \/ k \in Watched
    IN
    /\ now # was
    /\ bridge' = [bridge EXCEPT !.forwarded = now]
    /\ UNCHANGED <<names, presence, sources, ses, track, shown, p2p, audioOnly>>
    /\ det' = [k \in Key |->
           LET o == k[2] IN
           CASE heard(k) /\ was[o] = "in" /\ now[o] = "out" -> FigureOut(k, Leaves(det[k]))
             [] heard(k) /\ was[o] # "in" /\ now[o] = "in" -> FigureOut(k, Enters(det[k]))
             [] OTHER -> det[k]]

(* The bridge tells that an endpoint is dead, or alive again.              *)
EndpointConnStatusChanged(o) ==
    /\ ~names
    /\ bridge' = [bridge EXCEPT !.dead = IF o \in @ THEN @ \ {o} ELSE @ \union {o}]
    /\ UNCHANGED <<names, presence, sources, ses, track, shown, p2p, audioOnly>>
    /\ det' = [k \in Key |-> IF k = <<"user", o>> THEN FigureOut(k, det[k]) ELSE det[k]]

LastNChanged ==
    /\ audioOnly' = ~audioOnly
    /\ UNCHANGED <<names, presence, sources, ses, track, shown, p2p, bridge>>
    /\ RefreshAll

(* Timers go off, perhaps late.  A restoring timer keeps its id.           *)
TrackTimer(k) ==
    /\ det[k].trackTimer = 0
    /\ UNCHANGED <<names, presence, sources, ses, track, shown, p2p, bridge, audioOnly>>
    /\ det' = [det EXCEPT ![k] = FigureOut(k, [@ EXCEPT !.trackTimer = Off])]

RestoringTimer(k) ==
    /\ det[k].restoringTimer = 0
    /\ UNCHANGED <<names, presence, sources, ses, track, shown, p2p, bridge, audioOnly>>
    /\ det' = [det EXCEPT ![k] = FigureOut(k, [@ EXCEPT !.restoringTimer = Spent])]

Tick ==
    /\ \E k \in Key : Older(det[k]) # det[k]
    /\ det' = [k \in Key |-> Older(det[k])]
    /\ UNCHANGED <<names, presence, sources, ses, track, shown, p2p, bridge, audioOnly>>

Init ==
    /\ names \in BOOLEAN
    /\ presence \in [Owner -> [place : {"out"}, muted : {TRUE}, modern : BOOLEAN,
                               source : {"none"}, changes : {0}]]
    /\ sources = [o \in Owner |-> "none"]
    /\ ses = [s \in Session |-> NewSession]
    /\ track = [s \in Session |-> [o \in Owner |-> NoTrack]]
    /\ shown = {} /\ p2p = "none" /\ audioOnly = FALSE
    /\ bridge = [forwarded |-> [o \in Owner |-> "all"], dead |-> {}]
    /\ det = [k \in Key |-> NewDetector]

Next ==
    \/ \E o \in Owner :
         \/ \E muted \in BOOLEAN : MemberJoined(o, muted) \/ Presence(o, muted)
         \/ MemberLeft(o)
         \/ SourceAdd(o) \/ SourceRemove(o)
         \/ StartP2P(o)
         \/ EndpointConnStatusChanged(o)
         \/ \E s \in Session : TrackRtcMuted(s, o) \/ TrackRtcUnmuted(s, o)
    \/ P2PConnected \/ P2PStopped
    \/ \E s \in Session : RunTask(s) \/ RemoteTrackAdded(s) \/ RemoteTrackRemoved(s)
    \/ \E list \in SUBSET Owner : ForwardedSourcesChanged(list)
    \/ LastNChanged \/ Tick
    \/ \E k \in Key : \/ AddEventListener(k) \/ RemoveEventListener(k)
                      \/ TrackTimer(k) \/ RestoringTimer(k)

Spec == Init /\ [][Next]_vars

-----------------------------------------------------------------------------

(* Types; a track is shown to the application only while its owner is in   *)
(* the room, and asked for only while it is shown.                         *)
TypeOK ==
    /\ names \in BOOLEAN /\ audioOnly \in BOOLEAN
    /\ presence \in [Owner -> [place : {"out", "in", "gone"}, muted : BOOLEAN,
                     modern : BOOLEAN, source : {"none", "added", "removed"},
                     changes : 0 .. Changes]]
    /\ sources \in [Owner -> {"none", "muted", "unmuted"}]
    /\ \A s \in Session : /\ ses[s].described \subseteq Owner
                          /\ ses[s].tracks \subseteq ses[s].described \union
                               (IF ses[s].event = NoEvent THEN {} ELSE {ses[s].event.owner})
                          /\ ses[s].tasks \in Seq(Task)
    /\ track \in [Session -> [Owner -> [muted : BOOLEAN, dry : BOOLEAN, asked : BOOLEAN]]]
    /\ shown \subseteq Session \X member
    /\ \A k \in Session \X Owner : track[k[1]][k[2]].asked => k \in shown
    /\ p2p \in {"none", "starting", "active"}
    /\ bridge \in [forwarded : [Owner -> {"all", "in", "out"}], dead : SUBSET Owner]
    /\ det \in [Key -> Detector]

(* Every session's track of a participant is muted as its presence last    *)
(* said, whichever of the two came first and whichever way it was said.    *)
MutedAsTold ==
    \A s \in Session : \A o \in ses[s].tracks \intersect member :
        track[s][o].muted = presence[o].muted

(* When a session has no task left, each described source of a participant *)
(* has its track, and it is shown if the session is the active one;        *)
(* nothing remains of a source that was taken back.                        *)
TracksKept ==
    \A s \in Session : ses[s].tasks = <<>> =>
        /\ ses[s].described \intersect member = ses[s].tracks \intersect member
        /\ \A o \in member : (<<s, o>> \in shown) =
                (o \in ses[s].tracks /\ (s = "p2p") = (p2p = "active"))
        /\ s = "jvb" => \A o \in ses[s].described : presence[o].source = "added"
        /\ ses[s].tracks \subseteq ses[s].described

(* What a detector overlooks: a video that froze after its last look at it *)
(* with no timer to look again, and a restoring video whose timer is spent *)
(* before its time was up.                                                 *)
Overlooked(k) ==
    \/ det[k].status = "active" /\ Frozen(det[k], View(k))
    \/ det[k].status = "restoring" /\ det[k].restoringTimer = Spent

(* Once no timer is pending, the status of a video is what the state of    *)
(* the conference says it is now: no order of mutes, unmutes, forwarding,  *)
(* P2P changes, lastN and late timers leaves another behind, but for what  *)
(* is overlooked.  A track nobody asks for has no timer of a status left.  *)
StatusCurrent ==
    \A k \in Key :
        IF k \in Watched
        THEN det[k].figured /\ ~Pending(det[k]) =>
                det[k].status = StatusNow(det[k], View(k)) \/ Overlooked(k)
        ELSE names => ~Pending(det[k])

=============================================================================
