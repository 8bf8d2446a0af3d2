--------------------------- MODULE MCP2PConference ---------------------------
(* Model checking of P2PConference with two or three occupants.              *)
EXTENDS P2PConference

Two == {1, 2}
Three == {1, 2, 3}
NoEndpoint == {}
OnlyThree == {3}
OnlyTwo == {2}
NoFaults == {}
AllFaults == {"ice", "force", "late", "stale"}
=============================================================================
