--------------------------- MODULE MCJingleSession ---------------------------
(* Model checking of JingleSession: small sets, and the stalls it documents. *)
EXTENDS JingleSession

CONSTANTS s1, s2

TwoSources == {s1, s2}
AllRoles == {"jvb", "initiator", "responder"}
BothPlans == {"unified", "planB"}
AllFaults == {"media", "renegotiation"}
NoFaults == {}
OnlyJvb == {"jvb"}
OnlyUnified == {"unified"}
=============================================================================
