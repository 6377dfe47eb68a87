---------------------------- MODULE MCCardTable ----------------------------
(* Instances of CardTable for TLC: who owns which objects at the start. *)
EXTENDS CardTable

CONSTANTS p1, p2, p3

\* The objects for the decks at the start; the other objects are spare.
BigDeck == [c \in Card |-> IF c <= 2 THEN p1 ELSE IF c = 3 THEN p2 ELSE None]
OneDeck == [c \in Card |-> IF c = 1 THEN p1 ELSE None]

\* The bounds of each player, in that order.
Bound(b) == [p \in Player |-> IF p = p1 THEN b[1] ELSE IF p = p2 THEN b[2] ELSE b[3]]
Bound000 == Bound(<<0, 0, 0>>)
Bound020 == Bound(<<0, 2, 0>>)
Bound211 == Bound(<<2, 1, 1>>)
Bound420 == Bound(<<4, 2, 0>>)

============================================================================
