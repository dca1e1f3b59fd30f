------------------------------- MODULE TaskQueue -------------------------------
(* What the queue of background tasks promises, seen from outside: tasks    *)
(* are submitted, the one worker claims pending tasks and settles what it   *)
(* has claimed, and requests change or remove tasks at any time. Nothing    *)
(* here says how many statements that takes, or in which order they come.   *)
CONSTANTS
  Tasks,            \* identifiers of tasks
  RequestStatuses,  \* statuses a request may give a task
  WorkerStatuses    \* statuses the worker may give a task

VARIABLES
  status,   \* of each task; "none" before it exists, "gone" after its removal
  claimed   \* the tasks the worker has taken and not settled

vars == <<status, claimed>>

Exists(t) == status[t] \notin {"none", "gone"}

Init ==
  /\ status \in [Tasks -> RequestStatuses \cup {"none", "pending"}]
  /\ claimed = {}

Submit(t) ==
  /\ status[t] = "none"
  /\ status' = [status EXCEPT ![t] = "pending"]
  /\ UNCHANGED claimed

Change(t, s) ==
  /\ Exists(t)
  /\ status' = [status EXCEPT ![t] = s]
  /\ UNCHANGED claimed

(* A task that is removed does not come back, whoever still works on it.    *)
Remove(t) ==
  /\ Exists(t)
  /\ status' = [status EXCEPT ![t] = "gone"]
  /\ UNCHANGED claimed

(* Only pending tasks are claimed, and only by a worker with empty hands.   *)
Claim(S) ==
  /\ claimed = {}
  /\ \A t \in S : status[t] = "pending"
  /\ claimed' = S
  /\ UNCHANGED status

(* The worker settles only what it has claimed. What a request has done to  *)
(* the status since is overwritten.                                         *)
Settle(t, s) ==
  /\ t \in claimed /\ Exists(t)
  /\ status' = [status EXCEPT ![t] = s]
  /\ claimed' = claimed \ {t}

(* An error or a restart: the claims are forgotten, before or after a task  *)
(* of the claim has been settled.                                           *)
Abandon ==
  /\ claimed' = {}
  /\ \/ UNCHANGED status
     \/ \E t \in claimed, s \in WorkerStatuses :
          Exists(t) /\ status' = [status EXCEPT ![t] = s]

Next ==
  \/ \E t \in Tasks : Submit(t) \/ Remove(t)
  \/ \E t \in Tasks, s \in RequestStatuses : Change(t, s)
  \/ \E t \in Tasks, s \in WorkerStatuses : Settle(t, s)
  \/ \E S \in SUBSET Tasks : Claim(S)
  \/ Abandon

Spec == Init /\ [][Next]_vars
=============================================================================
