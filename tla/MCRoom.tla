------------------------------- MODULE MCRoom -------------------------------
EXTENDS Room

CONSTANT Others   \* whose connection may drop and who change their presence

Drops == [c \in Client |-> IF c \in Others THEN 1 ELSE 0]
Updates == [c \in Client |-> IF c \in Others THEN 1 ELSE 0]
=============================================================================
