------------------------- MODULE MCConferenceServices -------------------------
(* Model checking of ConferenceServices: one SIP address, the user and one     *)
(* other participant to approve.                                               *)
EXTENDS ConferenceServices

Persons == {"me", "other"}

===============================================================================
