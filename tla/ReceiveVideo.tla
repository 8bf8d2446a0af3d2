---------------------------- MODULE ReceiveVideo ----------------------------
(***************************************************************************)
(* The video a client asks of the bridge (ReceiveVideoController and       *)
(* ReceiverVideoConstraints).  The application names a lastN, the          *)
(* endpoints it looks at and a height, or sets whole constraints of its    *)
(* own.  The constraints are one object that the controller changes in     *)
(* place and the channel keeps: the value of "obj" is that object's.       *)
(***************************************************************************)
EXTENDS Integers

CONSTANTS LastN, Endpoint, Height

ASSUME ReceiveVideoAssumption ==
    /\ LastN \subseteq Int /\ -1 \in LastN
    /\ Height \subseteq Nat /\ \E h \in Height : \A g \in Height : g <= h

Unlimited == -1
OnStage == CHOOSE h \in Height : \A g \in Height : g <= h

(* What a view shows: endpoints (the first on stage, more are tiles) and   *)
(* the height they are wanted in.                                          *)
View == [shown : SUBSET Endpoint, height : Height \union {0}]
NoView == [shown |-> {}, height |-> 0]
Constraints == [lastN : LastN, view : View]
Unasked == [lastN |-> Unlimited, view |-> NoView]

Controller == [lastN : LastN, height : Height, rvcLastN : LastN, rvcHeight : Height,
               selected : SUBSET Endpoint, obj : Constraints, cached : BOOLEAN]

-----------------------------------------------------------------------------
(* Reading the constraints brings the object up to date.                   *)
Updated(c) ==
    [c EXCEPT !.obj.lastN = c.rvcLastN,
              !.obj.view = IF c.selected = {} THEN @
                           ELSE [shown |-> c.selected, height |-> c.rvcHeight]]

(* The updated constraints are kept by RTC for the channel.                *)
Sent(c) == [Updated(c) EXCEPT !.cached = TRUE]

NewController(startLastN) ==
    LET c == [lastN |-> startLastN, height |-> OnStage, rvcLastN |-> startLastN,
              rvcHeight |-> OnStage, selected |-> {}, obj |-> Unasked, cached |-> FALSE]
    IN IF startLastN = Unlimited THEN c ELSE Sent(c)

WithLastN(c, n) ==
    LET d == [c EXCEPT !.lastN = n, !.rvcLastN = n] IN
    IF c.lastN = n THEN c ELSE IF c.rvcLastN = n THEN [c EXCEPT !.lastN = n] ELSE Sent(d)

(* Selecting nobody leaves the endpoints selected before.                  *)
WithSelected(c, ids) ==
    LET d == Updated(IF ids = {} THEN c ELSE [c EXCEPT !.selected = ids]) IN
    IF d.obj = Updated(c).obj THEN d ELSE Sent(d)

(* The height counts once there is a session with the bridge.              *)
WithHeight(c, h, session) ==
    IF session /\ c.rvcHeight # h THEN Sent([c EXCEPT !.height = h, !.rvcHeight = h])
    ELSE [c EXCEPT !.height = h]

WithConstraints(c, own) ==
    IF c.obj = own THEN c
    ELSE [c EXCEPT !.obj = own, !.lastN = own.lastN, !.cached = TRUE]

(* Faulty: the height set before there was a session is forgotten.         *)
MediaSessionStartedAnew(c) == Sent(c)

MediaSessionStarted(c) == Sent([c EXCEPT !.rvcHeight = c.height])

=============================================================================
