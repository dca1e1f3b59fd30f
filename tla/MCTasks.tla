-------------------------------- MODULE MCTasks --------------------------------
(* Instances of Tasks for TLC.                                              *)
EXTENDS Tasks

CONSTANTS w, r1, r2

TwoRequests == {r1, r2}
InitialDependencies ==
  {[id |-> 1, task |-> 1, on |-> 2, active |-> TRUE],
   [id |-> 2, task |-> 2, on |-> 3, active |-> TRUE],
   [id |-> 3, task |-> 2, on |-> 1, active |-> FALSE]}
InitialStatuses == <<"pending", "cancelled", "cancelled">>
Statuses == {"pending", "cancelled"}
=============================================================================
