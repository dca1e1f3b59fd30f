--------------------------------- MODULE Tasks ---------------------------------
(* Background tasks of finance-api and the dependencies between them. One   *)
(* worker polls for pending tasks and works through the batch it read;      *)
(* requests create, change and delete tasks and dependencies meanwhile.     *)
(* Every statement commits alone, so that worker and requests interleave    *)
(* between a task's status, its log and its dependencies.                   *)
EXTENDS Naturals, Sequences, FiniteSets

CONSTANTS
  Requests,         \* requests being served
  Worker,           \* the worker
  MaxTask,          \* task_id runs over 1 .. MaxTask
  MaxEdge,          \* bound: the last id a dependency gets
  InitialStatus,    \* the statuses of the first tasks, which exist already,
  InitialEdges,     \* and their rows in task_dependencies
  RequestStatuses,  \* statuses that PUT is sent with
  BatchSize,        \* batchSize: 10
  MaxRetries,       \* maxRetries: 3
  MaxFaults         \* bound: statements that fail, and restarts

TaskIds == 1 .. MaxTask
Callers == Requests \cup {Worker}
WorkerStatuses == {"failed", "retrying"}
Edges == [id : Nat, task : TaskIds, on : TaskIds, active : BOOLEAN]

ASSUME CallersAssumption == Worker \notin Requests
ASSUME BoundsAssumption ==
  /\ MaxTask \in Nat /\ MaxEdge \in Nat /\ MaxFaults \in Nat
  /\ BatchSize \in Nat \ {0} /\ MaxRetries \in Nat \ {0}
ASSUME StatusesAssumption ==
  RequestStatuses \subseteq
    {"pending", "running", "success", "error", "cancelled"}

VARIABLES
  status,    \* tasks.status; "none" before a row exists, "gone" after
  log,       \* task_logs: the statuses logged for a task
  edges,     \* task_dependencies
  nextEdge,  \* the sequence of their ids
  batch,     \* worker: the tasks it has read and not settled
  failures,  \* worker: retryCount
  pc,        \* where each caller stands
  task,      \* the task its call is about
  value,     \* the status it sets
  needs,     \* the task that a new dependency needs
  fresh,     \* history: nothing became active since a request's check
  raced,     \* history: a dependency became active that no check had seen
  owed,      \* history: the tasks that the worker owes an attempt
  faults

db == <<status, log, edges, nextEdge>>
worker == <<batch, failures>>
call == <<task, value, needs>>
history == <<fresh, raced, owed>>
vars == <<db, worker, pc, call, history, faults>>

Exists(t) == status[t] \notin {"none", "gone"}
Known(t) == status[t] # "none"
Pending == {t \in TaskIds : status[t] = "pending"}

(* A set of tasks that has, with a task, all those it needs.                *)
Closed(E, S) == \A e \in E : e[1] \in S => e[2] \in S

(* The chain of dependencies of a leads to b: every closed set that has the *)
(* tasks a needs has b.                                                     *)
Reaches(E, a, b) ==
  \A S \in SUBSET TaskIds :
    Closed(E, S) /\ (\A e \in E : e[1] = a => e[2] \in S) => b \in S

Acyclic(E) == \A t \in TaskIds : ~ Reaches(E, t, t)

Pairs(rows) == {<<e.task, e.on>> : e \in {x \in rows : x.active}}
ActiveEdges == Pairs(edges)

ASSUME InitialAssumption ==
  /\ InitialStatus \in Seq(RequestStatuses \cup {"pending"})
  /\ Len(InitialStatus) <= MaxTask
  /\ IsFiniteSet(InitialEdges) /\ InitialEdges \subseteq Edges
  /\ {e.id : e \in InitialEdges} = 1 .. Cardinality(InitialEdges)
  /\ Acyclic(Pairs(InitialEdges))

----------------------------------------------------------------------------
Init ==
  /\ status = [t \in TaskIds |->
                 IF t <= Len(InitialStatus) THEN InitialStatus[t] ELSE "none"]
  /\ log = [t \in TaskIds |->
              IF t <= Len(InitialStatus) THEN {InitialStatus[t]} ELSE {}]
  /\ edges = InitialEdges
  /\ nextEdge = Cardinality(InitialEdges) + 1
  /\ batch = {}
  /\ failures = 0
  /\ pc = [c \in Callers |-> IF c = Worker THEN "poll" ELSE "idle"]
  /\ task = [c \in Callers |-> 0]
  /\ value = [c \in Callers |-> "none"]
  /\ needs = [r \in Requests |-> 0]
  /\ fresh = [r \in Requests |-> FALSE]
  /\ raced = FALSE
  /\ owed = Pending
  /\ faults = 0

Goto(c, step) == pc' = [pc EXCEPT ![c] = step]

(* A call ends well: the worker goes on with its batch, a request answers.  *)
Return(c) ==
  IF c = Worker
    THEN Goto(c, "take") /\ batch' = batch \ {task[c]}
    ELSE Goto(c, "ok") /\ UNCHANGED batch

(* An error ends the worker's round, whatever is left of the batch.         *)
Throw(c) ==
  IF c = Worker
    THEN Goto(c, "poll") /\ batch' = {}
    ELSE Goto(c, "error") /\ UNCHANGED batch

(* A statement fails, or the connection does.                               *)
Fault == faults < MaxFaults /\ faults' = faults + 1

----------------------------------------------------------------------------
(* Worker: one round of the loop.                                           *)

(* Mutant: the round also takes up the tasks in retrying.                   *)
PollRetrying ==
  /\ pc[Worker] = "poll"
  /\ \E t \in TaskIds :
       status[t] \in {"pending", "retrying"} /\ batch' = {t}
  /\ Goto(Worker, "take")
  /\ UNCHANGED <<db, failures, call, history, faults>>

(* findPendingTasks: as many tasks as the limit allows. Priority and age    *)
(* choose them and their order; any choice and any order stand for these.   *)
Poll ==
  /\ pc[Worker] = "poll" /\ Pending # {}
  /\ \E b \in SUBSET Pending :
       /\ IF Cardinality(Pending) <= BatchSize
            THEN b = Pending ELSE Cardinality(b) = BatchSize
       /\ batch' = b
  /\ Goto(Worker, "take")
  /\ UNCHANGED <<db, failures, call, history, faults>>

(* Mutant: the status for a failure that the schema of PUT has.             *)
AttemptError ==
  /\ pc[Worker] = "take"
  /\ \E t \in batch :
       /\ task' = [task EXCEPT ![Worker] = t]
       /\ owed' = owed \ {t}
  /\ failures' = IF failures < MaxRetries THEN failures + 1 ELSE failures
  /\ value' = [value EXCEPT ![Worker] = "error"]
  /\ Goto(Worker, "find")
  /\ UNCHANGED <<db, batch, needs, fresh, raced, faults>>

(* The processor always throws: it updates task.id, a field no row has,     *)
(* finds no task and rethrows. One counter counts the failures of all.      *)
Attempt ==
  /\ pc[Worker] = "take"
  /\ \E t \in batch :
       /\ task' = [task EXCEPT ![Worker] = t]
       /\ owed' = owed \ {t}
  /\ failures' = IF failures < MaxRetries THEN failures + 1 ELSE failures
  /\ value' = [value EXCEPT ![Worker] =
                 IF failures' >= MaxRetries THEN "failed" ELSE "retrying"]
  /\ Goto(Worker, "find")
  /\ UNCHANGED <<db, batch, needs, fresh, raced, faults>>

(* The batch is done, and the loop sleeps before the next round.            *)
Sleep ==
  /\ pc[Worker] = "take" /\ batch = {}
  /\ Goto(Worker, "poll")
  /\ UNCHANGED <<db, worker, call, history, faults>>

----------------------------------------------------------------------------
(* TaskService.update, called by the worker and by PUT: three awaits.       *)

(* Mutant: the worker writes the status past the service and its log.       *)
UpdateFindUnlogged(c) ==
  /\ pc[c] = "find"
  /\ IF ~ Exists(task[c])
       THEN Throw(c)
       ELSE /\ Goto(c, IF c = Worker \/ value[c] = status[task[c]]
                         THEN "write" ELSE "log")
            /\ UNCHANGED batch
  /\ UNCHANGED <<db, failures, call, history, faults>>

(* The task is read; a status that is not its own is to be logged.          *)
UpdateFind(c) ==
  /\ pc[c] = "find"
  /\ IF ~ Exists(task[c])
       THEN Throw(c)
       ELSE /\ Goto(c, IF value[c] = status[task[c]] THEN "write" ELSE "log")
            /\ UNCHANGED batch
  /\ UNCHANGED <<db, failures, call, history, faults>>

(* The row of the log refers to the task and fails when that is gone.       *)
UpdateLog(c) ==
  /\ pc[c] = "log"
  /\ IF ~ Exists(task[c])
       THEN Throw(c) /\ UNCHANGED log
       ELSE /\ log' = [log EXCEPT ![task[c]] = @ \cup {value[c]}]
            /\ Goto(c, "write")
            /\ UNCHANGED batch
  /\ UNCHANGED <<status, edges, nextEdge, failures, call, history, faults>>

(* Mutant: the outcome of an attempt goes to the log and not to the task.   *)
UpdateWriteRequests(c) ==
  /\ pc[c] = "write"
  /\ IF ~ Exists(task[c])
       THEN Throw(c) /\ UNCHANGED <<status, owed>>
       ELSE /\ status' = IF c = Worker THEN status
                         ELSE [status EXCEPT ![task[c]] = value[c]]
            /\ owed' = IF value[c] = "pending" THEN owed \cup {task[c]} ELSE owed
            /\ Return(c)
  /\ UNCHANGED <<log, edges, nextEdge, failures, call, fresh, raced, faults>>

(* Mutant: the row is written again though it has been deleted.             *)
UpdateWriteUpsert(c) ==
  /\ pc[c] = "write"
  /\ status' = [status EXCEPT ![task[c]] = value[c]]
  /\ owed' = IF value[c] = "pending" THEN owed \cup {task[c]} ELSE owed
  /\ Return(c)
  /\ UNCHANGED <<log, edges, nextEdge, failures, call, fresh, raced, faults>>

(* The UPDATE and its COMMIT. The row is read again before the answer: when *)
(* that fails, an error is reported of what has been written.               *)
UpdateWrite(c) ==
  /\ pc[c] = "write"
  /\ IF ~ Exists(task[c])
       THEN Throw(c) /\ UNCHANGED <<status, owed, faults>>
       ELSE /\ status' = [status EXCEPT ![task[c]] = value[c]]
            /\ owed' = IF value[c] = "pending" THEN owed \cup {task[c]} ELSE owed
            /\ \/ Return(c) /\ UNCHANGED faults
               \/ Throw(c) /\ Fault
  /\ UNCHANGED <<log, edges, nextEdge, failures, call, fresh, raced>>

Update(c) == UpdateFind(c) \/ UpdateLog(c) \/ UpdateWrite(c)

----------------------------------------------------------------------------
(* Requests.                                                                *)

(* POST /tasks. The row is committed; the service then looks for result.id, *)
(* which does not exist, and answers with an error. There is no first log.  *)
Create(r) ==
  /\ pc[r] = "idle"
  /\ \E t \in TaskIds :
       /\ ~ Known(t) /\ \A u \in 1 .. t - 1 : Known(u)
       /\ status' = [status EXCEPT ![t] = "pending"]
       /\ owed' = owed \cup {t}
  /\ Goto(r, "error")
  /\ UNCHANGED <<log, edges, nextEdge, worker, call, fresh, raced, faults>>

(* PUT /tasks/:id with a status. Without one it touches nothing kept here.  *)
Put(r, t, s) ==
  /\ pc[r] = "idle" /\ Known(t)
  /\ task' = [task EXCEPT ![r] = t]
  /\ value' = [value EXCEPT ![r] = s]
  /\ Goto(r, "find")
  /\ UNCHANGED <<db, worker, needs, history, faults>>

(* DELETE /tasks/:id: the task is read ...                                  *)
Delete(r, t) ==
  /\ pc[r] = "idle" /\ Known(t)
  /\ task' = [task EXCEPT ![r] = t]
  /\ Goto(r, IF Exists(t) THEN "dependents" ELSE "error")
  /\ UNCHANGED <<db, worker, value, needs, history, faults>>

(* ... then those that need it ...                                          *)
Dependents(r) ==
  /\ pc[r] = "dependents"
  /\ Goto(r, IF \E e \in ActiveEdges : e[2] = task[r] THEN "error" ELSE "remove")
  /\ UNCHANGED <<db, worker, call, history, faults>>

(* ... and one transaction removes it with its log and its dependencies.    *)
(* Those of other tasks on it go by cascade. The statement on dependencies  *)
(* compares their own id with that of the task, too.                        *)
Remove(r) ==
  /\ pc[r] = "remove"
  /\ edges' = {e \in edges :
                 e.id # task[r] /\ e.task # task[r] /\ e.on # task[r]}
  /\ status' = [status EXCEPT ![task[r]] = "gone"]
  /\ log' = [log EXCEPT ![task[r]] = {}]
  /\ Goto(r, "ok")
  /\ UNCHANGED <<nextEdge, worker, call, history, faults>>

(* Mutant: the chain is followed from the task that needs, not from the one *)
(* that is needed.                                                          *)
CheckReversed(r, t, d) ==
  /\ pc[r] = "idle" /\ Known(t) /\ Known(d)
  /\ task' = [task EXCEPT ![r] = t]
  /\ needs' = [needs EXCEPT ![r] = d]
  /\ IF t = d \/ Reaches(ActiveEdges, t, d)
       THEN Goto(r, "error") /\ UNCHANGED fresh
       ELSE Goto(r, "insert") /\ fresh' = [fresh EXCEPT ![r] = TRUE]
  /\ UNCHANGED <<db, worker, value, raced, owed, faults>>

(* POST of a dependency: t is to need d. The query follows the chain of d.  *)
(* When that runs into a cycle the levels grow for ever, no two rows are    *)
(* alike and UNION ends nothing: unless t is met the statement times out.   *)
Check(r, t, d) ==
  LET A == ActiveEdges
      Endless == \E x \in TaskIds : Reaches(A, d, x) /\ Reaches(A, x, x)
  IN /\ pc[r] = "idle" /\ Known(t) /\ Known(d)
     /\ task' = [task EXCEPT ![r] = t]
     /\ needs' = [needs EXCEPT ![r] = d]
     /\ IF t = d \/ Reaches(A, d, t) \/ Endless
          THEN Goto(r, "error") /\ UNCHANGED fresh
          ELSE Goto(r, "insert") /\ fresh' = [fresh EXCEPT ![r] = TRUE]
     /\ UNCHANGED <<db, worker, value, raced, owed, faults>>

(* The insert, in a statement of its own. It fails when one of the tasks is *)
(* gone, or the dependency there already; the id is used up all the same.   *)
Insert(r) ==
  /\ pc[r] = "insert" /\ nextEdge <= MaxEdge
  /\ nextEdge' = nextEdge + 1
  /\ IF /\ Exists(task[r]) /\ Exists(needs[r])
        /\ ~ \E e \in edges : e.task = task[r] /\ e.on = needs[r]
       THEN /\ edges' = edges \cup {[id |-> nextEdge, task |-> task[r],
                                     on |-> needs[r], active |-> TRUE]}
            /\ raced' = (raced \/ ~ fresh[r])
            /\ fresh' = [s \in Requests |-> FALSE]
            /\ Goto(r, "ok")
       ELSE Goto(r, "error") /\ UNCHANGED <<edges, fresh, raced>>
  /\ UNCHANGED <<status, log, worker, call, owed, faults>>

(* PUT of a dependency sets active either way, and nothing is checked. A    *)
(* dependency that is created inactive is like one that is put so at once.  *)
SetActive(r, e, active) ==
  /\ pc[r] = "idle" /\ e \in edges
  /\ edges' = (edges \ {e}) \cup {[e EXCEPT !.active = active]}
  /\ IF active /\ ~ e.active
       THEN raced' = TRUE /\ fresh' = [s \in Requests |-> FALSE]
       ELSE UNCHANGED <<raced, fresh>>
  /\ Goto(r, "ok")
  /\ UNCHANGED <<status, log, nextEdge, worker, call, owed, faults>>

----------------------------------------------------------------------------
AtStatement == {"find", "log", "write", "dependents", "remove", "insert"}
MidAttempt == IF pc[Worker] \in AtStatement THEN {task[Worker]} ELSE {}

(* A statement fails and changes nothing. The worker still owes the attempt *)
(* whose outcome it could not write.                                        *)
StatementFails(c) ==
  /\ pc[c] \in AtStatement
  /\ Fault /\ Throw(c)
  /\ owed' = IF c = Worker THEN owed \cup MidAttempt ELSE owed
  /\ UNCHANGED <<db, failures, call, fresh, raced>>

(* The process ends and is started again: what was in memory is gone.       *)
Restart ==
  /\ Fault
  /\ batch' = {} /\ failures' = 0
  /\ owed' = owed \cup MidAttempt
  /\ pc' = [c \in Callers |->
              IF c = Worker THEN "poll"
              ELSE IF pc[c] \in AtStatement THEN "error" ELSE pc[c]]
  /\ UNCHANGED <<db, call, fresh, raced>>

WorkerStep == Poll \/ Attempt \/ Sleep \/ Update(Worker)
RequestStep(r) == Update(r) \/ Dependents(r) \/ Remove(r) \/ Insert(r)

Receive(r) ==
  \/ Create(r)
  \/ \E t \in TaskIds, s \in RequestStatuses : Put(r, t, s)
  \/ \E t \in TaskIds : Delete(r, t)
  \/ \E t, d \in TaskIds : Check(r, t, d)
  \/ \E e \in edges, active \in BOOLEAN : SetActive(r, e, active)

Next ==
  \/ WorkerStep
  \/ \E r \in Requests : Receive(r) \/ RequestStep(r)
  \/ \E c \in Callers : StatementFails(c)
  \/ Restart

Spec == Init /\ [][Next]_vars

(* The loop of the worker goes on after any error, and every statement ends *)
(* or times out.                                                            *)
Fairness == WF_vars(WorkerStep) /\ \A r \in Requests : WF_vars(RequestStep(r))

FairSpec == Spec /\ Fairness

----------------------------------------------------------------------------
(* Every variable keeps its type.                                           *)
TypeOK ==
  /\ status \in [TaskIds -> RequestStatuses \cup WorkerStatuses
                              \cup {"pending", "none", "gone"}]
  /\ log \in [TaskIds -> SUBSET (RequestStatuses \cup WorkerStatuses \cup {"pending"})]
  /\ edges \subseteq Edges
  /\ nextEdge \in Nat
  /\ batch \subseteq TaskIds
  /\ failures \in 0 .. MaxRetries
  /\ pc \in [Callers -> AtStatement \cup {"poll", "take", "idle", "ok", "error"}]
  /\ task \in [Callers -> 0 .. MaxTask]
  /\ value \in [Callers -> RequestStatuses \cup WorkerStatuses \cup {"none"}]
  /\ needs \in [Requests -> 0 .. MaxTask]
  /\ fresh \in [Requests -> BOOLEAN] /\ raced \in BOOLEAN
  /\ owed \subseteq TaskIds
  /\ faults \in 0 .. MaxFaults

(* However updates of one task overlap, fail or are cut short, the status a *)
(* task has was written to its log before, or it is the one it was created  *)
(* with (task.service.js:112: the log comes first, in a commit of its own). *)
StatusIsLogged ==
  \A t \in TaskIds :
    Exists(t) => status[t] = "pending" \/ status[t] \in log[t]

(* The check is enough for requests one after the other: a cycle of active  *)
(* dependencies means that a dependency became active which no check had    *)
(* seen, by two creations at once or by a PUT                               *)
(* (taskdependencies.service.js:18).                                        *)
CycleNeedsRace == raced \/ Acyclic(ActiveEdges)

(* A task is attempted once for each time it was submitted, and again only  *)
(* when its outcome could not be written: the batch, read once, never makes *)
(* the worker attempt what it has settled (task.worker.js:58).              *)
AttemptIsOwed == [][Attempt => \E t \in owed : task'[Worker] = t]_vars

(* The statements of worker and requests implement the queue of TaskQueue.  *)
Queue == INSTANCE TaskQueue WITH Tasks <- TaskIds, claimed <- batch
QueueSpec == Queue!Spec

(* Whatever fails on the way, a pending task does not stay so, however the  *)
(* limit, an error in mid-batch or a restart may put it off                 *)
(* (task.repository.js:101).                                                *)
PendingIsTaken ==
  \A t \in TaskIds : status[t] = "pending" ~> status[t] # "pending"

(* docs/task-system.md:61 promises a retry for a boleto that fails; the     *)
(* poll looks for pending tasks only.                                       *)
RetryHappens ==
  \A t \in TaskIds : status[t] = "retrying" ~> status[t] # "retrying"
=============================================================================
