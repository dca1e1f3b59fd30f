--------------------------------- MODULE MCNfse ---------------------------------
(* Instances of Nfse for TLC.                                               *)
EXTENDS Nfse, TLC

CONSTANTS n1, r1, r2

OneNote == {n1}
TwoRequests == {r1, r2}
=============================================================================
