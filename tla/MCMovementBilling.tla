------------------------- MODULE MCMovementBilling -------------------------
(* Instances of MovementBilling for TLC.                                    *)
EXTENDS MovementBilling, TLC

CONSTANTS r1, r2, r3

OneRequest == {r1}
TwoRequests == {r1, r2}
ThreeRequests == {r1, r2, r3}

RequestSymmetry == Permutations(Requests)
=============================================================================
