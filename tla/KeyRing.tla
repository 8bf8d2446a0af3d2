------------------------------ MODULE KeyRing ------------------------------
(***************************************************************************)
(* modules/e2ee/Context.js: the ring of keys one participant's media are   *)
(* encrypted and decrypted with.  A key is its owner, its number and how   *)
(* often it has been ratcheted; a frame carries the key it was encrypted   *)
(* with and the ring position written into its trailer.                    *)
(***************************************************************************)
EXTENDS Integers, FiniteSetsExt

CONSTANTS
    NoKey,        \* "false" in the code: no encryption
    RingSize,     \* KEYRING_SIZE
    Window        \* RATCHET_WINDOW_SIZE

Key == [owner : Nat, n : Nat, step : Nat]

ASSUME RingAssumption ==
    RingSize \in Nat \ {0} /\ Window \in Nat \ {0} /\ NoKey \notin Key

Position == -1..(RingSize - 1)

\* An array index of -1 is an ordinary property in JavaScript.
Context == [ring : [Position -> Key \cup {NoKey}], cur : Position]

NewContext == [ring |-> [i \in Position |-> NoKey], cur |-> -1]

Ratchet(key) == [key EXCEPT !.step = @ + 1]

SetKeys(c, key, index) ==
    LET cur == IF index >= 0 THEN index % RingSize ELSE c.cur
    IN  [ring |-> [c.ring EXCEPT ![cur] = key], cur |-> cur]

\* Without a key the frame leaves as it is, whatever its last byte.
Encode(c) == [key |-> c.ring[c.cur], at |-> c.cur]

Opens(c, frame) == frame.key # NoKey /\ frame.key = c.ring[frame.at]

\* The context after n failed attempts to open the frame at a position: each
\* ratchets that key, and stores the result at the current position.
Tried(c, at, n) ==
    LET after[k \in 0..n] ==
            IF k = 0 THEN c
            ELSE SetKeys(after[k - 1], Ratchet(after[k - 1].ring[at]), -1)
    IN  after[n]

\* decodeFunction with the recursion of _decryptFrame.  After the last attempt
\* the key kept as initialKey comes back: it was read after the first ratchet.
Decode(c, frame) ==
    IF frame.at \notin 0..(RingSize - 1) \/ c.ring[frame.at] = NoKey
    THEN c
    ELSE LET hits == {n \in 0..Window : Opens(Tried(c, frame.at, n), frame)}
             initial == Tried(c, frame.at, 1)
         IN  IF hits # {} THEN Tried(c, frame.at, Min(hits))
             ELSE SetKeys(Tried(c, frame.at, Window), initial.ring[c.cur], -1)

\* Whether the frame comes out of Decode in the clear.
CanOpen(c, frame) ==
    /\ frame.at \in 0..(RingSize - 1)
    /\ c.ring[frame.at] # NoKey
    /\ \E n \in 0..Window : Opens(Tried(c, frame.at, n), frame)
=============================================================================
