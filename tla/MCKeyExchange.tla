--------------------------- MODULE MCKeyExchange ---------------------------
EXTENDS KeyExchange

\* One endpoint switches encryption on and off, the others switch it on.
Calls == [e \in Endpoint |-> IF e = 1 THEN 2 ELSE 1]
=============================================================================
