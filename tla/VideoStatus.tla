----------------------------- MODULE VideoStatus -----------------------------
(***************************************************************************)
(* The status of a remote video: active, inactive, interrupted or          *)
(* restoring.  One computation serves participants                         *)
(* (ParticipantConnectionStatus) and tracks (TrackStreamingStatus); a      *)
(* detector is what either keeps for one of them.  Time is counted in      *)
(* units; ages stop at the longest timeout.  The browser reports when a    *)
(* video track runs dry (supportsVideoMuteOnConnInterrupted).              *)
(***************************************************************************)
EXTENDS Integers, FiniteSetsExt

CONSTANTS
    OutTimeout,       \* a video that is not forwarded freezes after this
    P2PTimeout,       \* a video from the peer
    InTimeout,        \* a video that is forwarded
    RestoringTimeout  \* how long a video may be restoring

ASSUME VideoStatusAssumption ==
    /\ {OutTimeout, P2PTimeout, InTimeout, RestoringTimeout} \subseteq Nat \ {0}
    /\ OutTimeout <= P2PTimeout /\ P2PTimeout <= InTimeout

Off == -1           \* no timer, no timestamp
Spent == -2         \* a timer that went off and whose id is still kept

Longest == Max({InTimeout, RestoringTimeout})

Statuses == {"active", "inactive", "interrupted", "restoring"}

Detector == [status : Statuses, figured : BOOLEAN, trackTimer : Off .. Longest,
             mutedFor : Off .. Longest, restoringTimer : Spent .. Longest,
             enteredFor : Off .. Longest]

NewDetector == [status |-> "active", figured |-> FALSE, trackTimer |-> Off,
                mutedFor |-> Off, restoringTimer |-> Off, enteredFor |-> Off]

-----------------------------------------------------------------------------
(***************************************************************************)
(* What a detector looks at is a record v: p2p, audioOnly, muted (as       *)
(* signalled), dry (as the browser says), forwarded, bridgeOk.             *)
(***************************************************************************)
FrozenTimeout(v) ==
    IF v.forwarded THEN InTimeout ELSE IF v.p2p THEN P2PTimeout ELSE OutTimeout

Frozen(d, v) == v.dry /\ d.mutedFor # Off /\ d.mutedFor >= FrozenTimeout(v)

RestoringTimedOut(d) == d.enteredFor >= RestoringTimeout

StatusP2P(v, frozen) == IF v.muted \/ ~frozen THEN "active" ELSE "interrupted"

StatusBridge(v, frozen, timedOut) ==
    CASE ~v.bridgeOk -> "interrupted"
      [] v.bridgeOk /\ (v.muted \/ ~frozen) -> "active"
      [] v.bridgeOk /\ ~v.muted /\ frozen /\ ~v.forwarded -> "inactive"
      [] OTHER -> IF timedOut THEN "interrupted" ELSE "restoring"

StatusNow(d, seen) ==
    LET v == [seen EXCEPT !.muted = @ \/ seen.audioOnly] IN
    IF v.p2p THEN StatusP2P(v, Frozen(d, v))
    ELSE StatusBridge(v, Frozen(d, v), RestoringTimedOut(d))

ChangeStatus(d, s) == [d EXCEPT !.status = s, !.figured = TRUE]

ClearRestoring(d) == [d EXCEPT !.restoringTimer = Off]

(* Computing the status starts a restoring timer, unless one is kept, and  *)
(* only a video that is restoring keeps it.                                *)
Figure(d, v) ==
    LET s == StatusNow(d, v)
        t == IF RestoringTimedOut(d) \/ d.restoringTimer # Off THEN d.restoringTimer
             ELSE RestoringTimeout
    IN [ChangeStatus(d, s) EXCEPT !.restoringTimer = IF s = "restoring" THEN t ELSE Off]

ClearTimes(d) == [d EXCEPT !.trackTimer = Off, !.mutedFor = Off]

(* The video has run dry: v.muted says whether its owner muted it.         *)
RtcMuted(d, v, muted) ==
    [d EXCEPT !.mutedFor = 0,
              !.trackTimer = IF muted THEN @ ELSE FrozenTimeout(v)]

Leaves(d) == ClearRestoring([d EXCEPT !.enteredFor = Off])

Enters(d) == [d EXCEPT !.enteredFor = 0]

Older(d) ==
    LET Age(n) == IF n = Off THEN Off ELSE Min({n + 1, Longest})
        Run(n) == IF n <= 0 THEN n ELSE n - 1
    IN [d EXCEPT !.mutedFor = Age(@), !.enteredFor = Age(@),
                 !.trackTimer = Run(@), !.restoringTimer = Run(@)]

Pending(d) == d.trackTimer # Off \/ d.restoringTimer >= 0

=============================================================================
