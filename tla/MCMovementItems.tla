---------------------------- MODULE MCMovementItems ----------------------------
(* Instances of MovementItems for TLC.                                      *)
EXTENDS MovementItems, TLC

CONSTANTS i1, i2, r1, r2

TwoItems == {i1, i2}
TwoRequests == {r1, r2}
ZeroOrOne == {0, 1}

AnyNames == Permutations(Items) \cup Permutations(Requests)
=============================================================================
