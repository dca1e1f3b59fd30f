--------------------------- MODULE MCConnectionPool ---------------------------
(* Instances of ConnectionPool for TLC.                                     *)
EXTENDS ConnectionPool

CONSTANTS k1, k2, r1, r2, r3

TwoClients == {k1, k2}
ThreeRequests == {r1, r2, r3}
=============================================================================
