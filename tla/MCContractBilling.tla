--------------------------- MODULE MCContractBilling ---------------------------
(* Instances of ContractBilling for TLC.                                    *)
EXTENDS ContractBilling

CONSTANTS c1, r1, r2

OneContract == {c1}
TwoRequests == {r1, r2}

(* POST /:id/billing, or POST /billing with one contract, or with several,  *)
(* of which one may be named twice.                                         *)
OneByOne == {<<c1>>}
OneOrTwo == {<<c1>>, <<c1, c1>>}

(* The last day that every month has.                                       *)
January28 == [c \in Contracts |-> [month |-> 288, day |-> 28]]
March == {[month |-> 290, day |-> 1]}
=============================================================================
