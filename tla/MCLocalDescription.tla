------------------------- MODULE MCLocalDescription -------------------------
(* Model values for TLC: every kind of connection in one run.              *)
EXTENDS LocalDescription

Modes ==
    {[unified |-> TRUE, p2p |-> FALSE, rtx |-> r, cap |-> FALSE] : r \in BOOLEAN}
      \union {[unified |-> TRUE, p2p |-> TRUE, rtx |-> TRUE, cap |-> FALSE]}
      \union {[unified |-> FALSE, p2p |-> TRUE, rtx |-> TRUE, cap |-> c] : c \in BOOLEAN}
=============================================================================
