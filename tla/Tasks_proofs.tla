---------------------------- MODULE Tasks_proofs -----------------------------
(* The worker and the requests of Tasks implement the queue of TaskQueue,   *)
(* keep the log complete and the dependencies without cycles, leave alone   *)
(* what failed or waits for another attempt, and come nearer to having none *)
(* pending, for any number of tasks and requests and any size of batch.     *)
EXTENDS Tasks, FiniteSetTheorems, TLAPS

(* Where a caller may stand.                                                *)
Places ==
  /\ pc[Worker] \in {"poll", "take", "find", "log", "write"}
  /\ \A r \in Requests : pc[r] \notin {"poll", "take"}

(* What is known of the task, the status and the need of a call.            *)
Calls ==
  /\ \A c \in Callers : pc[c] \in AtStatement =>
       task[c] \in TaskIds /\ Known(task[c])
  /\ \A c \in Callers : pc[c] \in {"find", "log", "write"} =>
       value[c] \in IF c = Worker THEN WorkerStatuses ELSE RequestStatuses
  /\ \A r \in Requests : pc[r] = "insert" => needs[r] \in TaskIds

(* What the worker has in hand.                                             *)
Hands ==
  /\ pc[Worker] = "poll" => batch = {}
  /\ pc[Worker] \in {"find", "log", "write"} => task[Worker] \in batch
  /\ \A t \in batch : Known(t)

IInv == TypeOK /\ Places /\ Calls /\ Hands

(* A status about to be written is in the log.                              *)
Logged ==
  /\ StatusIsLogged
  /\ \A c \in Callers : pc[c] = "write" /\ Exists(task[c]) =>
       value[c] = "pending" \/ value[c] \in log[task[c]]

(* What a check has found still holds while nothing became active.          *)
Checked ==
  \A r \in Requests : pc[r] = "insert" /\ fresh[r] =>
    task[r] # needs[r] /\ ~ Reaches(ActiveEdges, needs[r], task[r])

(* What is pending, or in the worker's hands and not attempted, is owed.    *)
Owed == (Pending \cup batch) \ MidAttempt \subseteq owed

USE CallersAssumption, BoundsAssumption, StatusesAssumption

----------------------------------------------------------------------------
(* Dependencies.                                                            *)

LEMMA ReachesMonotone ==
  ASSUME NEW E, NEW F, F \subseteq E, NEW a, NEW b, Reaches(F, a, b)
  PROVE  Reaches(E, a, b)
BY DEF Reaches, Closed

LEMMA AcyclicMonotone ==
  ASSUME NEW E, NEW F, F \subseteq E, Acyclic(E)
  PROVE  Acyclic(F)
BY ReachesMonotone DEF Acyclic

(* A dependency of t on d closes no cycle when d does not lead to t.        *)
LEMMA NewDependency ==
  ASSUME NEW E, NEW t \in TaskIds, NEW d \in TaskIds,
         t # d, ~ Reaches(E, d, t), Acyclic(E)
  PROVE  Acyclic(E \cup {<<t, d>>})
<1> DEFINE F == E \cup {<<t, d>>}
<1> SUFFICES ASSUME NEW x \in TaskIds PROVE ~ Reaches(F, x, x)
  BY DEF Acyclic
<1>1. PICK D \in SUBSET TaskIds :
        /\ Closed(E, D) /\ t \notin D
        /\ \A e \in E : e[1] = d => e[2] \in D
  BY DEF Reaches
<1>2. PICK X \in SUBSET TaskIds :
        /\ Closed(E, X) /\ x \notin X
        /\ \A e \in E : e[1] = x => e[2] \in X
  BY DEF Reaches, Acyclic
<1>3. <<t, d>>[1] = t /\ <<t, d>>[2] = d
  OBVIOUS
<1>4. CASE x = t
  <2> DEFINE S == X \cup D \cup {d}
  <2>1. S \in SUBSET TaskIds /\ x \notin S
    BY <1>1, <1>2, <1>4
  <2>2. Closed(F, S)
    BY <1>1, <1>2, <1>3, <1>4 DEF Closed
  <2>3. \A e \in F : e[1] = x => e[2] \in S
    BY <1>2, <1>3, <1>4
  <2> QED BY <2>1, <2>2, <2>3 DEF Reaches
<1>5. CASE x # t /\ Reaches(E, x, t)
  <2> DEFINE S == X \cup D \cup {d}
  <2>1. x \notin D
    BY <1>1, <1>5 DEF Reaches, Closed
  <2>2. x # d
    BY <1>5
  <2>3. S \in SUBSET TaskIds /\ x \notin S
    BY <1>1, <1>2, <2>1, <2>2
  <2>4. Closed(F, S)
    BY <1>1, <1>2, <1>3 DEF Closed
  <2>5. \A e \in F : e[1] = x => e[2] \in S
    BY <1>2, <1>3, <1>5
  <2> QED BY <2>3, <2>4, <2>5 DEF Reaches
<1>6. CASE x # t /\ ~ Reaches(E, x, t)
  <2>1. PICK T \in SUBSET TaskIds :
          /\ Closed(E, T) /\ t \notin T
          /\ \A e \in E : e[1] = x => e[2] \in T
    BY <1>6 DEF Reaches
  <2> DEFINE S == X \cap T
  <2>2. S \in SUBSET TaskIds /\ x \notin S
    BY <1>2, <2>1
  <2>3. Closed(F, S)
    BY <1>2, <1>3, <2>1 DEF Closed
  <2>4. \A e \in F : e[1] = x => e[2] \in S
    BY <1>2, <1>3, <1>6, <2>1
  <2> QED BY <2>2, <2>3, <2>4 DEF Reaches
<1> QED BY <1>4, <1>5, <1>6

LEMMA PairsMonotone ==
  ASSUME NEW A, NEW B, A \subseteq B
  PROVE  Pairs(A) \subseteq Pairs(B)
BY DEF Pairs

----------------------------------------------------------------------------
(* Types, places and calls.                                                 *)

LEMMA InitIInv == Init => IInv
<1> SUFFICES ASSUME Init PROVE IInv
  OBVIOUS
<1> USE DEF Init
<1>1. TypeOK
  <2>1. status \in [TaskIds -> RequestStatuses \cup WorkerStatuses
                                \cup {"pending", "none", "gone"}]
    BY InitialAssumption DEF TaskIds
  <2>2. log \in [TaskIds -> SUBSET (RequestStatuses \cup WorkerStatuses \cup {"pending"})]
    BY InitialAssumption DEF TaskIds
  <2>3. edges \subseteq Edges /\ nextEdge \in Nat
    BY InitialAssumption, FS_CardinalityType
  <2>4. owed \subseteq TaskIds
    BY DEF Pending
  <2>5. /\ pc \in [Callers -> AtStatement \cup {"poll", "take", "idle", "ok", "error"}]
        /\ task \in [Callers -> 0 .. MaxTask]
        /\ value \in [Callers -> RequestStatuses \cup WorkerStatuses \cup {"none"}]
        /\ needs \in [Requests -> 0 .. MaxTask]
    OBVIOUS
  <2>6. fresh \in [Requests -> BOOLEAN] /\ raced \in BOOLEAN
    OBVIOUS
  <2>7. batch \subseteq TaskIds /\ failures \in 0 .. MaxRetries /\ faults \in 0 .. MaxFaults
    OBVIOUS
  <2> QED BY <2>1, <2>2, <2>3, <2>4, <2>5, <2>6, <2>7 DEF TypeOK
<1>2. Places /\ Calls /\ Hands
  BY DEF Places, Calls, Hands, Callers, AtStatement
<1> QED BY <1>1, <1>2 DEF IInv

LEMMA WorkerKeeps ==
  ASSUME IInv, Poll \/ Attempt \/ Sleep
  PROVE  IInv'
<1> USE DEF IInv, Goto
<1>1. CASE Poll
  <2>1. TypeOK'
    BY <1>1 DEF Poll, TypeOK, Pending, Callers, db, call, history, AtStatement
  <2>2. Places' /\ Hands' /\ Calls'
    BY <1>1 DEF Poll, TypeOK, Places, Hands, Calls, Pending, Known, Callers, db,
       call, history, AtStatement
  <2> QED BY <2>1, <2>2
<1>2. CASE Attempt
  <2>1. TypeOK'
    BY <1>2 DEF Attempt, TypeOK, Callers, WorkerStatuses, db, AtStatement, TaskIds
  <2>2. Places' /\ Hands'
    BY <1>2 DEF Attempt, TypeOK, Places, Hands, Known, Callers, db, AtStatement
  <2>3. Calls'
    BY <1>2 DEF Attempt, TypeOK, Hands, Calls, Known, Callers, WorkerStatuses, db,
       AtStatement
  <2> QED BY <2>1, <2>2, <2>3
<1>3. CASE Sleep
  <2>1. TypeOK'
    BY <1>3 DEF Sleep, TypeOK, Callers, db, worker, call, history, AtStatement
  <2>2. Places' /\ Hands' /\ Calls'
    BY <1>3 DEF Sleep, TypeOK, Places, Hands, Calls, Known, Callers, db, worker,
       call, history, AtStatement
  <2> QED BY <2>1, <2>2
<1> QED BY <1>1, <1>2, <1>3

LEMMA UpdateKeeps ==
  ASSUME IInv, NEW c \in Callers, Update(c)
  PROVE  IInv'
<1> USE DEF IInv, Goto, Return, Throw
<1>0. task[c] \in TaskIds /\ Known(task[c])
  BY DEF Update, UpdateFind, UpdateLog, UpdateWrite, Calls, AtStatement
<1>1. CASE UpdateFind(c)
  <2>1. TypeOK'
    BY <1>1 DEF UpdateFind, TypeOK, Callers, db, call, history, AtStatement
  <2>2. Places' /\ Hands' /\ Calls'
    BY <1>0, <1>1 DEF UpdateFind, TypeOK, Places, Hands, Calls, Known, Callers, db,
       call, history, AtStatement
  <2> QED BY <2>1, <2>2
<1>2. CASE UpdateLog(c)
  <2>1. value[c] \in RequestStatuses \cup WorkerStatuses
    BY <1>2 DEF UpdateLog, Calls
  <2>2. TypeOK'
    BY <1>0, <1>2, <2>1 DEF UpdateLog, TypeOK, Callers, call, history, AtStatement
  <2>3. Places' /\ Hands' /\ Calls'
    BY <1>0, <1>2 DEF UpdateLog, TypeOK, Places, Hands, Calls, Known, Callers,
       call, history, AtStatement
  <2> QED BY <2>2, <2>3
<1>3. CASE UpdateWrite(c)
  <2>1. value[c] \in RequestStatuses \cup WorkerStatuses
    BY <1>3 DEF UpdateWrite, Calls
  <2>2. faults' \in 0 .. MaxFaults
    BY <1>3 DEF UpdateWrite, TypeOK, Fault
  <2>3. TypeOK'
    BY <1>0, <1>3, <2>1, <2>2 DEF UpdateWrite, TypeOK, Callers, call, AtStatement
  <2>4. \A t \in TaskIds : Known(t) => Known(t)'
    BY <1>0, <1>3, <2>1 DEF UpdateWrite, TypeOK, Known, WorkerStatuses
  <2>5. Places' /\ Hands' /\ Calls'
    BY <1>0, <1>3, <2>4 DEF UpdateWrite, TypeOK, Places, Hands, Calls, Callers,
       call, AtStatement
  <2> QED BY <2>3, <2>5
<1> QED BY <1>1, <1>2, <1>3 DEF Update

LEMMA RequestKeeps ==
  ASSUME IInv, NEW r \in Requests,
         Receive(r) \/ Dependents(r) \/ Remove(r) \/ Insert(r)
  PROVE  IInv'
<1> USE DEF IInv, Goto
<1>0. r # Worker /\ r \in Callers
  BY DEF Callers
<1>1. CASE Create(r)
  <2>1. TypeOK'
    BY <1>0, <1>1 DEF Create, TypeOK, Callers, worker, call, AtStatement
  <2>2. \A t \in TaskIds : Known(t) => Known(t)'
    BY <1>1 DEF Create, TypeOK, Known
  <2>3. Places' /\ Hands' /\ Calls'
    BY <1>0, <1>1, <2>2 DEF Create, TypeOK, Places, Hands, Calls, Callers, worker,
       call, AtStatement
  <2> QED BY <2>1, <2>3
<1>2. ASSUME NEW t \in TaskIds, NEW s \in RequestStatuses, Put(r, t, s)
      PROVE  IInv'
  <2>1. TypeOK'
    BY <1>0, <1>2 DEF Put, TypeOK, Callers, db, worker, history, AtStatement, TaskIds
  <2>2. Places' /\ Hands' /\ Calls'
    BY <1>0, <1>2 DEF Put, TypeOK, Places, Hands, Calls, Known, Callers, db, worker,
       history, AtStatement
  <2> QED BY <2>1, <2>2
<1>3. ASSUME NEW t \in TaskIds, Delete(r, t)
      PROVE  IInv'
  <2>1. TypeOK'
    BY <1>0, <1>3 DEF Delete, TypeOK, Callers, db, worker, history, AtStatement, TaskIds
  <2>2. Places' /\ Hands' /\ Calls'
    BY <1>0, <1>3 DEF Delete, TypeOK, Places, Hands, Calls, Known, Callers, db, worker,
       history, AtStatement
  <2> QED BY <2>1, <2>2
<1>4. CASE Dependents(r)
  <2>1. TypeOK'
    BY <1>0, <1>4 DEF Dependents, TypeOK, Callers, db, worker, call, history, AtStatement
  <2>2. Places' /\ Hands' /\ Calls'
    BY <1>0, <1>4 DEF Dependents, TypeOK, Places, Hands, Calls, Known, Callers, db,
       worker, call, history, AtStatement
  <2> QED BY <2>1, <2>2
<1>5. CASE Remove(r)
  <2>1. task[r] \in TaskIds
    BY <1>0, <1>5 DEF Remove, Calls, AtStatement
  <2>2. TypeOK'
    BY <1>0, <1>5, <2>1 DEF Remove, TypeOK, Callers, worker, call, history, AtStatement
  <2>3. \A t \in TaskIds : Known(t) => Known(t)'
    BY <1>5, <2>1 DEF Remove, TypeOK, Known
  <2>4. Places' /\ Hands' /\ Calls'
    BY <1>0, <1>5, <2>3 DEF Remove, TypeOK, Places, Hands, Calls, Callers, worker,
       call, history, AtStatement
  <2> QED BY <2>2, <2>4
<1>6. ASSUME NEW t \in TaskIds, NEW d \in TaskIds, Check(r, t, d)
      PROVE  IInv'
  <2>1. /\ task' = [task EXCEPT ![r] = t]
        /\ needs' = [needs EXCEPT ![r] = d]
        /\ \/ pc' = [pc EXCEPT ![r] = "error"] /\ UNCHANGED fresh
           \/ pc' = [pc EXCEPT ![r] = "insert"] /\ fresh' = [fresh EXCEPT ![r] = TRUE]
        /\ Known(t)
        /\ UNCHANGED <<status, log, edges, nextEdge, batch, failures, value,
                       raced, owed, faults>>
    BY <1>6 DEF Check, db, worker
  <2>2. TypeOK'
    <3>1. fresh' \in [Requests -> BOOLEAN]
      <4>1. fresh \in [Requests -> BOOLEAN]
        BY DEF TypeOK
      <4>2. fresh' = fresh \/ fresh' = [fresh EXCEPT ![r] = TRUE]
        BY <2>1
      <4> QED BY ONLY <4>1, <4>2
    <3>4. needs' \in [Requests -> 0 .. MaxTask]
      BY <2>1 DEF TypeOK, TaskIds
    <3>2. task' \in [Callers -> 0 .. MaxTask]
      BY <1>0, <2>1 DEF TypeOK, TaskIds
    <3>3. pc' \in [Callers -> AtStatement \cup {"poll", "take", "idle", "ok", "error"}]
      BY <1>0, <2>1 DEF TypeOK, AtStatement
    <3> QED BY <2>1, <3>1, <3>2, <3>3, <3>4 DEF TypeOK
  <2>3. Places' /\ Hands' /\ Calls'
    BY <1>0, <2>1 DEF TypeOK, Places, Hands, Calls, Known, Callers, AtStatement
  <2> QED BY <2>2, <2>3
<1>7. CASE Insert(r)
  <2>1. task[r] \in TaskIds /\ needs[r] \in TaskIds
    BY <1>0, <1>7 DEF Insert, Calls, AtStatement
  <2>2. edges' \subseteq Edges /\ nextEdge' \in Nat
    <3>1. [id |-> nextEdge, task |-> task[r], on |-> needs[r], active |-> TRUE] \in Edges
      BY <2>1 DEF TypeOK, Edges
    <3>2. nextEdge' \in Nat
      BY <1>7 DEF Insert, TypeOK
    <3>3. edges' = edges \/ edges' = edges \cup
            {[id |-> nextEdge, task |-> task[r], on |-> needs[r], active |-> TRUE]}
      BY <1>7, Zenon DEF Insert
    <3> QED BY <3>1, <3>2, <3>3 DEF TypeOK
  <2>3. fresh' \in [Requests -> BOOLEAN] /\ raced' \in BOOLEAN
    <3>1. \/ UNCHANGED <<fresh, raced>>
          \/ /\ fresh' = [s \in Requests |-> FALSE]
             /\ raced' = (raced \/ ~ fresh[r])
      BY <1>7, Zenon DEF Insert
    <3>2. fresh \in [Requests -> BOOLEAN] /\ raced \in BOOLEAN
      BY DEF TypeOK
    <3>3. (raced \/ ~ fresh[r]) \in BOOLEAN
      OBVIOUS
    <3> QED BY ONLY <3>1, <3>2, <3>3
  <2>4. /\ pc' = [pc EXCEPT ![r] = "ok"] \/ pc' = [pc EXCEPT ![r] = "error"]
        /\ UNCHANGED <<status, log, batch, failures, task, value, needs, owed, faults>>
    BY <1>7 DEF Insert, worker, call, TypeOK
  <2>5. TypeOK'
    BY <1>0, <2>2, <2>3, <2>4 DEF TypeOK, Callers, AtStatement
  <2>6. Places' /\ Hands' /\ Calls'
    BY <1>0, <2>4 DEF TypeOK, Places, Hands, Calls, Known, Callers, AtStatement
  <2> QED BY <2>5, <2>6
<1>8. ASSUME NEW e \in edges, NEW active \in BOOLEAN, SetActive(r, e, active)
      PROVE  IInv'
  <2>1. edges' \subseteq Edges
    BY <1>8 DEF SetActive, TypeOK, Edges
  <2>2. fresh' \in [Requests -> BOOLEAN] /\ raced' \in BOOLEAN
    <3>1. \/ UNCHANGED <<fresh, raced>>
          \/ fresh' = [s \in Requests |-> FALSE] /\ raced' = TRUE
      BY <1>8, Zenon DEF SetActive
    <3>2. fresh \in [Requests -> BOOLEAN] /\ raced \in BOOLEAN
      BY DEF TypeOK
    <3> QED BY ONLY <3>1, <3>2
  <2>3. /\ pc' = [pc EXCEPT ![r] = "ok"]
        /\ UNCHANGED <<status, log, nextEdge, batch, failures, task, value, needs,
                       owed, faults>>
    BY <1>8 DEF SetActive, worker, call
  <2>4. TypeOK'
    BY <1>0, <2>1, <2>2, <2>3 DEF TypeOK, Callers, AtStatement
  <2>5. Places' /\ Hands' /\ Calls'
    BY <1>0, <2>3 DEF TypeOK, Places, Hands, Calls, Known, Callers, AtStatement
  <2> QED BY <2>4, <2>5
<1> QED BY <1>1, <1>2, <1>3, <1>4, <1>5, <1>6, <1>7, <1>8 DEF Receive

LEMMA FailureKeeps ==
  ASSUME IInv, (\E c \in Callers : StatementFails(c)) \/ Restart
  PROVE  IInv'
<1> USE DEF IInv, Goto, Throw
<1>0. MidAttempt \subseteq TaskIds
  BY DEF MidAttempt, Calls, Callers
<1>1. ASSUME NEW c \in Callers, StatementFails(c)
      PROVE  IInv'
  <2>1. TypeOK'
    BY <1>0, <1>1 DEF StatementFails, Fault, TypeOK, Callers, db, call, AtStatement
  <2>2. Places' /\ Hands' /\ Calls'
    BY <1>1 DEF StatementFails, TypeOK, Places, Hands, Calls, Known, Callers, db,
       call, AtStatement
  <2> QED BY <2>1, <2>2
<1>2. CASE Restart
  <2>1. TypeOK'
    BY <1>0, <1>2 DEF Restart, Fault, TypeOK, Callers, db, call, AtStatement
  <2>2. Places' /\ Hands' /\ Calls'
    BY <1>2 DEF Restart, TypeOK, Places, Hands, Calls, Known, Callers, db, call,
       AtStatement
  <2> QED BY <2>1, <2>2
<1> QED BY <1>1, <1>2

LEMMA StutterKeeps == IInv /\ UNCHANGED vars => IInv'
BY DEF IInv, TypeOK, Places, Hands, Calls, Known, vars, db, worker, call, history

LEMMA NextIInv == IInv /\ [Next]_vars => IInv'
<1> SUFFICES ASSUME IInv, [Next]_vars PROVE IInv'
  OBVIOUS
<1>1. Worker \in Callers /\ Requests \subseteq Callers
  BY DEF Callers
<1> QED
  BY <1>1, WorkerKeeps, UpdateKeeps, RequestKeeps, FailureKeeps, StutterKeeps
  DEF Next, WorkerStep, RequestStep

(* No operation of the worker or of a request, and no failure, breaks the   *)
(* types (task.worker.js:49, task.service.js:101).                          *)
THEOREM TypeCorrect == Spec => []TypeOK
<1>1. IInv => TypeOK
  BY DEF IInv
<1> QED BY <1>1, InitIInv, NextIInv, PTL DEF Spec

THEOREM Invariance == Spec => []IInv
BY InitIInv, NextIInv, PTL DEF Spec

----------------------------------------------------------------------------
(* The log.                                                                 *)

LEMMA NextLogged == IInv /\ Logged /\ [Next]_vars => Logged'
<1> SUFFICES ASSUME IInv, Logged, [Next]_vars PROVE Logged'
  OBVIOUS
<1> USE DEF IInv, Goto, Return, Throw
<1>0. Worker \in Callers /\ Requests \subseteq Callers
  BY DEF Callers
<1>1. ASSUME UNCHANGED <<status, log>>,
             \A c \in Callers : pc'[c] = "write" =>
               pc[c] = "write" /\ task'[c] = task[c] /\ value'[c] = value[c]
      PROVE  Logged'
  BY <1>1 DEF Logged, StatusIsLogged, Exists
<1>2. CASE Poll \/ Attempt \/ Sleep
  BY <1>0, <1>1, <1>2 DEF Poll, Attempt, Sleep, TypeOK, db, call
<1>3. ASSUME NEW c \in Callers, UpdateFind(c)
      PROVE  Logged'
  <2>1. task[c] \in TaskIds
    BY <1>3 DEF UpdateFind, Calls, AtStatement
  <2> QED
    BY <1>3, <2>1 DEF UpdateFind, TypeOK, Logged, StatusIsLogged, Exists, db, call
<1>4. ASSUME NEW c \in Callers, UpdateLog(c)
      PROVE  Logged'
  <2>1. task[c] \in TaskIds
    BY <1>4 DEF UpdateLog, Calls, AtStatement
  <2> QED
    BY <1>4, <2>1 DEF UpdateLog, TypeOK, Logged, StatusIsLogged, Exists, Calls,
       AtStatement, call
<1>5. ASSUME NEW c \in Callers, UpdateWrite(c)
      PROVE  Logged'
  <2>1. task[c] \in TaskIds
    BY <1>5 DEF UpdateWrite, Calls, AtStatement
  <2>2. \A d \in Callers : pc'[d] = "write" => d # c /\ pc[d] = "write"
    BY <1>5 DEF UpdateWrite, TypeOK
  <2>3. /\ UNCHANGED <<log, task, value>>
        /\ status' = status \/ (Exists(task[c]) /\ status' = [status EXCEPT ![task[c]] = value[c]])
    BY <1>5 DEF UpdateWrite, call
  <2>4. \A t \in TaskIds : Exists(t)' => Exists(t)
    BY <2>1, <2>3 DEF Exists, TypeOK
  <2>5. \A d \in Callers : pc'[d] = "write" => task[d] \in TaskIds
    BY <2>2 DEF Calls, AtStatement
  <2> QED
    BY <1>5, <2>1, <2>2, <2>3, <2>4, <2>5 DEF UpdateWrite, TypeOK, Logged, StatusIsLogged,
       Exists
<1>6. ASSUME NEW r \in Requests, Create(r)
      PROVE  Logged'
  <2>1. PICK t \in TaskIds : ~ Known(t) /\ status' = [status EXCEPT ![t] = "pending"]
    BY <1>6 DEF Create
  <2>2. \A c \in Callers : pc'[c] = "write" =>
          pc[c] = "write" /\ task[c] # t /\ task[c] \in TaskIds
    BY <1>6, <2>1 DEF Create, TypeOK, Calls, AtStatement, Known
  <2> QED BY <1>6, <2>1, <2>2 DEF Create, TypeOK, Logged, StatusIsLogged, Exists, call
<1>7. ASSUME NEW r \in Requests,
             \/ \E t \in TaskIds, s \in RequestStatuses : Put(r, t, s)
             \/ \E t \in TaskIds : Delete(r, t)
             \/ \E t, d \in TaskIds : Check(r, t, d)
             \/ \E e \in edges, active \in BOOLEAN : SetActive(r, e, active)
             \/ Dependents(r) \/ Insert(r)
      PROVE  Logged'
  <2>1. UNCHANGED <<status, log>>
    BY <1>7 DEF Put, Delete, Check, SetActive, Dependents, Insert, db
  <2>2. \A c \in Callers : pc'[c] = "write" =>
          pc[c] = "write" /\ task'[c] = task[c] /\ value'[c] = value[c]
    BY <1>0, <1>7 DEF Put, Delete, Check, SetActive, Dependents, Insert, TypeOK, call
  <2> QED BY <1>1, <2>1, <2>2
<1>8. ASSUME NEW r \in Requests, Remove(r)
      PROVE  Logged'
  <2>1. task[r] \in TaskIds
    BY <1>0, <1>8 DEF Remove, Calls, AtStatement
  <2>2. \A c \in Callers : pc'[c] = "write" => pc[c] = "write" /\ task[c] \in TaskIds
    BY <1>0, <1>8 DEF Remove, TypeOK, Calls, AtStatement
  <2> QED
    BY <1>8, <2>1, <2>2 DEF Remove, TypeOK, Logged, StatusIsLogged, Exists, call
<1>9. CASE (\E c \in Callers : StatementFails(c)) \/ Restart
  BY <1>0, <1>1, <1>9 DEF StatementFails, Restart, TypeOK, AtStatement, db, call
<1>10. CASE UNCHANGED vars
  BY <1>1, <1>10 DEF vars, db, call
<1> QED
  BY <1>0, <1>2, <1>3, <1>4, <1>5, <1>6, <1>7, <1>8, <1>9, <1>10
  DEF Next, WorkerStep, Update, RequestStep, Receive

(* However many updates of a task overlap, fail or are cut short, the       *)
(* status it has was logged first (task.service.js:112).                    *)
THEOREM LogComplete == Spec => []StatusIsLogged
<1>1. Init => Logged
  BY InitialAssumption DEF Init, Logged, StatusIsLogged, Exists, Callers
<1>2. Logged => StatusIsLogged
  BY DEF Logged
<1> QED BY <1>1, <1>2, NextLogged, Invariance, PTL DEF Spec

----------------------------------------------------------------------------
(* The dependencies.                                                        *)

(* A step that activates nothing and passes no check.                       *)
LEMMA NothingActivated ==
  ASSUME CycleNeedsRace, Checked, ActiveEdges' \subseteq ActiveEdges,
         raced => raced',
         \A r \in Requests : pc'[r] = "insert" /\ fresh'[r] =>
           /\ pc[r] = "insert" /\ fresh[r]
           /\ task'[r] = task[r] /\ needs'[r] = needs[r]
  PROVE  CycleNeedsRace' /\ Checked'
<1>1. CycleNeedsRace'
  BY AcyclicMonotone DEF CycleNeedsRace
<1>2. ASSUME NEW r \in Requests, pc'[r] = "insert" /\ fresh'[r]
      PROVE  task'[r] # needs'[r] /\ ~ Reaches(ActiveEdges', needs'[r], task'[r])
  BY <1>2, ReachesMonotone DEF Checked
<1> QED BY <1>1, <1>2 DEF Checked

LEMMA InsertKeeps ==
  ASSUME IInv, CycleNeedsRace, Checked, NEW r \in Requests, Insert(r)
  PROVE  CycleNeedsRace' /\ Checked'
<1> USE DEF Goto, IInv
<1> DEFINE new == [id |-> nextEdge, task |-> task[r], on |-> needs[r], active |-> TRUE]
<1>1. CASE edges' = edges \cup {new} /\ raced' = (raced \/ ~ fresh[r])
           /\ fresh' = [s \in Requests |-> FALSE]
  <2>1. ActiveEdges' \subseteq ActiveEdges \cup {<<task[r], needs[r]>>}
    BY <1>1 DEF ActiveEdges, Pairs
  <2>2. task[r] \in TaskIds /\ needs[r] \in TaskIds /\ pc[r] = "insert"
    BY DEF Insert, Calls, Callers, AtStatement
  <2>3. CASE raced'
    BY <1>1, <2>3 DEF CycleNeedsRace, Checked
  <2>4. CASE ~ raced'
    <3>1. fresh[r] /\ ~ raced
      BY <1>1, <2>4 DEF TypeOK
    <3>2. Acyclic(ActiveEdges)
      BY <3>1 DEF CycleNeedsRace
    <3>3. task[r] # needs[r] /\ ~ Reaches(ActiveEdges, needs[r], task[r])
      BY <2>2, <3>1 DEF Checked
    <3>4. Acyclic(ActiveEdges \cup {<<task[r], needs[r]>>})
      BY <2>2, <3>2, <3>3, NewDependency
    <3>5. Acyclic(ActiveEdges')
      BY <2>1, <3>4, AcyclicMonotone
    <3> QED BY <1>1, <3>5 DEF CycleNeedsRace, Checked
  <2> QED BY <2>3, <2>4
<1>2. CASE UNCHANGED <<edges, fresh, raced>>
  <2>1. ActiveEdges' = ActiveEdges
    BY <1>2 DEF ActiveEdges
  <2>2. pc' = [pc EXCEPT ![r] = "ok"] \/ pc' = [pc EXCEPT ![r] = "error"]
    BY Zenon DEF Insert
  <2>3. \A s \in Requests : pc'[s] = "insert" => pc[s] = "insert"
    BY <2>2 DEF TypeOK, Callers
  <2>4. UNCHANGED <<task, needs>>
    BY DEF Insert, call
  <2> QED BY <1>2, <2>1, <2>3, <2>4, NothingActivated
<1> QED BY <1>1, <1>2, Zenon DEF Insert

LEMMA SetActiveKeeps ==
  ASSUME IInv, CycleNeedsRace, Checked, NEW r \in Requests, NEW e \in edges,
         NEW active \in BOOLEAN, SetActive(r, e, active)
  PROVE  CycleNeedsRace' /\ Checked'
<1> USE DEF Goto, IInv
<1>1. CASE active /\ ~ e.active
  BY <1>1 DEF SetActive, CycleNeedsRace, Checked
<1>2. CASE ~ (active /\ ~ e.active)
  <2>1. e \in Edges
    BY DEF TypeOK
  <2>2. LET f == [e EXCEPT !.active = active]
        IN f.task = e.task /\ f.on = e.on /\ f.active = active
    BY <2>1 DEF Edges
  <2>3. ActiveEdges' \subseteq ActiveEdges
    BY <1>2, <2>1, <2>2 DEF SetActive, ActiveEdges, Pairs
  <2>4. \A s \in Requests : pc'[s] = "insert" => pc[s] = "insert"
    BY DEF SetActive, TypeOK
  <2>5. UNCHANGED <<raced, fresh, task, needs>>
    BY <1>2, Zenon DEF SetActive, call
  <2> QED BY <2>3, <2>4, <2>5, NothingActivated
<1> QED BY <1>1, <1>2

LEMMA CheckKeeps ==
  ASSUME IInv, CycleNeedsRace, Checked, NEW r \in Requests, NEW t \in TaskIds,
         NEW d \in TaskIds, Check(r, t, d)
  PROVE  CycleNeedsRace' /\ Checked'
<1> USE DEF Goto, IInv
<1>0. UNCHANGED <<edges, raced>> /\ ActiveEdges' = ActiveEdges
  BY DEF Check, db, ActiveEdges
<1>1. r \in Callers
  BY DEF Callers
<1>2. /\ task' = [task EXCEPT ![r] = t] /\ needs' = [needs EXCEPT ![r] = d]
      /\ \/ pc' = [pc EXCEPT ![r] = "error"] /\ UNCHANGED fresh
         \/ /\ t # d /\ ~ Reaches(ActiveEdges, d, t)
            /\ pc' = [pc EXCEPT ![r] = "insert"]
            /\ fresh' = [fresh EXCEPT ![r] = TRUE]
  BY Zenon DEF Check
<1>3. CycleNeedsRace'
  BY <1>0 DEF CycleNeedsRace
<1>4. ASSUME NEW s \in Requests, pc'[s] = "insert", fresh'[s]
      PROVE  task'[s] # needs'[s] /\ ~ Reaches(ActiveEdges, needs'[s], task'[s])
  <2>1. CASE s = r
    BY <1>1, <1>2, <1>4, <2>1 DEF TypeOK
  <2>2. CASE s # r
    <3>1. pc[s] = "insert" /\ fresh[s] /\ task'[s] = task[s] /\ needs'[s] = needs[s]
      BY <1>2, <1>4, <2>2 DEF TypeOK, Callers
    <3> QED BY <3>1 DEF Checked
  <2> QED BY <2>1, <2>2
<1> QED BY <1>0, <1>3, <1>4 DEF Checked

LEMMA NextChecked ==
  IInv /\ CycleNeedsRace /\ Checked /\ [Next]_vars => CycleNeedsRace' /\ Checked'
<1> SUFFICES ASSUME IInv, CycleNeedsRace, Checked, [Next]_vars
             PROVE  CycleNeedsRace' /\ Checked'
  OBVIOUS
<1> USE DEF Goto, Return, Throw, IInv
<1>0. Worker \in Callers /\ Requests \subseteq Callers /\ Worker \notin Requests
  BY DEF Callers
<1>1. ASSUME UNCHANGED <<edges, fresh, raced>>,
             \A r \in Requests : pc'[r] = "insert" =>
               pc[r] = "insert" /\ task'[r] = task[r] /\ needs'[r] = needs[r]
      PROVE  CycleNeedsRace' /\ Checked'
  <2>1. ActiveEdges' = ActiveEdges
    BY <1>1 DEF ActiveEdges
  <2> QED BY <1>1, <2>1, NothingActivated
<1>2. CASE Poll \/ Attempt \/ Sleep
  BY <1>0, <1>1, <1>2 DEF Poll, Attempt, Sleep, TypeOK, db, call, history
<1>3. ASSUME NEW c \in Callers, Update(c)
      PROVE  CycleNeedsRace' /\ Checked'
  <2>1. UNCHANGED <<edges, fresh, raced, task, needs>>
    BY <1>3 DEF Update, UpdateFind, UpdateLog, UpdateWrite, db, call, history
  <2>2. \A r \in Requests : pc'[r] = "insert" => pc[r] = "insert"
    BY <1>0, <1>3 DEF Update, UpdateFind, UpdateLog, UpdateWrite, TypeOK
  <2> QED BY <1>1, <2>1, <2>2
<1>4. ASSUME NEW r \in Requests,
             \/ Create(r) \/ Dependents(r)
             \/ \E t \in TaskIds, s \in RequestStatuses : Put(r, t, s)
             \/ \E t \in TaskIds : Delete(r, t)
      PROVE  CycleNeedsRace' /\ Checked'
  <2>1. UNCHANGED <<edges, fresh, raced>>
    BY <1>4 DEF Put, Delete, Create, Dependents, db, history
  <2>2. \A s \in Requests : pc'[s] = "insert" =>
          pc[s] = "insert" /\ task'[s] = task[s] /\ needs'[s] = needs[s]
    BY <1>0, <1>4 DEF Put, Delete, Create, Dependents, TypeOK, call
  <2> QED BY <1>1, <2>1, <2>2
<1>5. ASSUME NEW r \in Requests, Remove(r)
      PROVE  CycleNeedsRace' /\ Checked'
  <2>1. edges' \subseteq edges
    BY <1>5 DEF Remove
  <2>2. ActiveEdges' \subseteq ActiveEdges
    BY <2>1, PairsMonotone DEF ActiveEdges
  <2>3. UNCHANGED <<task, needs, fresh, raced>>
    BY <1>5 DEF Remove, call, history
  <2>4. \A s \in Requests : pc'[s] = "insert" => pc[s] = "insert"
    BY <1>0, <1>5 DEF Remove, TypeOK
  <2> QED BY <2>2, <2>3, <2>4, NothingActivated
<1>6. CASE (\E c \in Callers : StatementFails(c)) \/ Restart
  <2>1. UNCHANGED <<edges, fresh, raced, task, needs>>
    BY <1>6 DEF StatementFails, Restart, db, call
  <2>2. \A s \in Requests : pc'[s] = "insert" => pc[s] = "insert"
    BY <1>0, <1>6 DEF StatementFails, Restart, TypeOK
  <2> QED BY <1>1, <2>1, <2>2
<1>7. CASE UNCHANGED vars
  BY <1>1, <1>7 DEF vars, db, call, history
<1> QED
  BY <1>0, <1>2, <1>3, <1>4, <1>5, <1>6, <1>7, InsertKeeps, SetActiveKeeps, CheckKeeps
  DEF Next, WorkerStep, RequestStep, Receive

(* For any number of tasks and requests the check for cycles is enough as   *)
(* long as nothing is activated between a check and its insert              *)
(* (taskdependencies.service.js:18).                                        *)
THEOREM NoCycleWithoutRace == Spec => []CycleNeedsRace
<1>1. Init => CycleNeedsRace /\ Checked
  BY InitialAssumption DEF Init, CycleNeedsRace, Checked, ActiveEdges
<1> QED BY <1>1, NextChecked, Invariance, PTL DEF Spec

----------------------------------------------------------------------------
(* What the worker owes.                                                    *)

LEMMA NextOwed == IInv /\ Owed /\ [Next]_vars => Owed'
<1> SUFFICES ASSUME IInv, Owed, [Next]_vars PROVE Owed'
  OBVIOUS
<1> USE DEF IInv, Goto, Return, Throw
<1>0. Worker \in Callers /\ Requests \subseteq Callers /\ Worker \notin Requests
  BY DEF Callers
<1>1. ASSUME UNCHANGED <<status, batch, owed>>, pc'[Worker] = pc[Worker],
             task'[Worker] = task[Worker]
      PROVE  Owed'
  BY <1>1 DEF Owed, Pending, MidAttempt
<1>2. CASE Poll
  BY <1>0, <1>2 DEF Poll, TypeOK, Owed, Pending, MidAttempt, AtStatement, db, call, history
<1>3. CASE Attempt
  BY <1>0, <1>3 DEF Attempt, TypeOK, Owed, Pending, MidAttempt, AtStatement, db
<1>4. CASE Sleep
  BY <1>0, <1>4 DEF Sleep, TypeOK, Owed, Pending, MidAttempt, AtStatement, db, worker,
     call, history
<1>5. ASSUME NEW c \in Callers, UpdateFind(c) \/ UpdateLog(c)
      PROVE  Owed'
  <2>1. UNCHANGED <<status, owed, task>>
    BY <1>5 DEF UpdateFind, UpdateLog, db, call, history
  <2>2. CASE c # Worker
    BY <1>0, <1>1, <1>5, <2>1, <2>2 DEF UpdateFind, UpdateLog, TypeOK
  <2>3. CASE c = Worker
    BY <1>0, <1>5, <2>1, <2>3 DEF UpdateFind, UpdateLog, TypeOK, Owed, Pending,
       MidAttempt, AtStatement, Exists
  <2> QED BY <2>2, <2>3
<1>6. ASSUME NEW c \in Callers, UpdateWrite(c)
      PROVE  Owed'
  <2>1. task[c] \in TaskIds /\ UNCHANGED task
    BY <1>6 DEF UpdateWrite, Calls, AtStatement, call
  <2>2. CASE c # Worker
    <3>1. pc'[Worker] = pc[Worker] /\ UNCHANGED batch
      BY <1>0, <1>6, <2>2 DEF UpdateWrite, TypeOK
    <3> QED
      BY <1>0, <1>6, <2>1, <2>2, <3>1 DEF UpdateWrite, TypeOK, Owed, Pending, MidAttempt
  <2>3. CASE c = Worker
    <3>1. value[c] # "pending"
      BY <1>6, <2>3 DEF UpdateWrite, Calls, WorkerStatuses
    <3>2. pc'[Worker] \in {"take", "poll"} /\ batch' \subseteq batch \ {task[c]}
      BY <1>0, <1>6, <2>3 DEF UpdateWrite, TypeOK
    <3>3. MidAttempt' = {} /\ MidAttempt = {task[c]}
      BY <1>6, <2>3, <3>2 DEF MidAttempt, AtStatement, UpdateWrite
    <3>4. Pending' \subseteq Pending \ {task[c]} /\ UNCHANGED owed
      BY <1>6, <2>1, <3>1 DEF UpdateWrite, TypeOK, Pending, Exists
    <3> QED BY <3>2, <3>3, <3>4 DEF Owed
  <2> QED BY <2>2, <2>3
<1>7. ASSUME NEW r \in Requests, Create(r)
      PROVE  Owed'
  <2>1. /\ UNCHANGED <<batch, task>> /\ pc'[Worker] = pc[Worker]
        /\ Pending' \ Pending \subseteq owed' /\ owed \subseteq owed'
    BY <1>0, <1>7 DEF Create, TypeOK, Pending, worker, call
  <2> QED BY <2>1 DEF Owed, MidAttempt
<1>8. ASSUME NEW r \in Requests,
             \/ \E t \in TaskIds, s \in RequestStatuses : Put(r, t, s)
             \/ \E t \in TaskIds : Delete(r, t)
             \/ \E t, d \in TaskIds : Check(r, t, d)
             \/ \E e \in edges, active \in BOOLEAN : SetActive(r, e, active)
             \/ Dependents(r) \/ Insert(r)
      PROVE  Owed'
  <2>1. UNCHANGED <<status, batch, owed>>
    BY <1>8 DEF Put, Delete, Check, SetActive, Dependents, Insert, db, worker, history
  <2>2. pc'[Worker] = pc[Worker] /\ task'[Worker] = task[Worker]
    BY <1>0, <1>8 DEF Put, Delete, Check, SetActive, Dependents, Insert, TypeOK, call
  <2> QED BY <1>1, <2>1, <2>2
<1>9. ASSUME NEW r \in Requests, Remove(r)
      PROVE  Owed'
  <2>1. /\ UNCHANGED <<batch, task, owed>> /\ pc'[Worker] = pc[Worker]
        /\ Pending' \subseteq Pending
    BY <1>0, <1>9 DEF Remove, TypeOK, Pending, worker, call, history
  <2> QED BY <2>1 DEF Owed, MidAttempt
<1>10. ASSUME NEW c \in Callers, StatementFails(c)
       PROVE  Owed'
  <2>1. UNCHANGED <<status, task>>
    BY <1>10 DEF StatementFails, db, call
  <2>2. CASE c # Worker
    BY <1>0, <1>1, <1>10, <2>1, <2>2 DEF StatementFails, TypeOK
  <2>3. CASE c = Worker
    BY <1>0, <1>10, <2>1, <2>3 DEF StatementFails, TypeOK, Owed, Pending, MidAttempt,
       AtStatement
  <2> QED BY <2>2, <2>3
<1>11. CASE Restart
  <2>1. MidAttempt' = {} /\ batch' = {} /\ Pending' = Pending
    BY <1>0, <1>11 DEF Restart, MidAttempt, AtStatement, Pending, db, TypeOK
  <2> QED BY <1>11, <2>1 DEF Restart, Owed
<1>12. CASE UNCHANGED vars
  BY <1>1, <1>12 DEF vars, db, worker, call, history
<1> QED
  BY <1>0, <1>2, <1>3, <1>4, <1>5, <1>6, <1>7, <1>8, <1>9, <1>10, <1>11, <1>12
  DEF Next, WorkerStep, Update, RequestStep, Receive

(* For any size of batch, whoever changes or deletes its tasks meanwhile,   *)
(* the worker attempts what was submitted and not attempted since, or what  *)
(* it could not record (task.worker.js:58).                                 *)
THEOREM OnceForEachSubmission == Spec => AttemptIsOwed
<1>1. Init => Owed
  BY DEF Init, Owed
<1>2. IInv /\ Owed /\ [Next]_vars => [Attempt => \E t \in owed : task'[Worker] = t]_vars
  <2> SUFFICES ASSUME IInv, Owed, Attempt
               PROVE  \E t \in owed : task'[Worker] = t
    OBVIOUS
  <2>1. batch \subseteq owed
    BY DEF Owed, Attempt, MidAttempt, AtStatement
  <2>2. PICK t \in batch : task' = [task EXCEPT ![Worker] = t]
    BY DEF Attempt
  <2>3. task'[Worker] = t
    BY <2>2 DEF IInv, TypeOK, Callers
  <2> QED BY <2>1, <2>3
<1> QED BY <1>1, <1>2, NextOwed, Invariance, PTL DEF Spec, AttemptIsOwed

----------------------------------------------------------------------------
(* What becomes of a task that is put aside.                                *)

(* The batch of the worker has no task that it has put aside.               *)
PutAside == \A t \in batch : status[t] \notin WorkerStatuses

(* Who writes the status of a task, and what.                               *)
LEMMA StatusWriters ==
  ASSUME IInv, [Next]_vars
  PROVE  \/ UNCHANGED status
         \/ /\ pc[Worker] = "write" /\ batch' \subseteq batch \ {task[Worker]}
            /\ task[Worker] \in batch
            /\ status' = [status EXCEPT ![task[Worker]] = value[Worker]]
         \/ \E r \in Requests :
              /\ pc[r] = "write" /\ value[r] \in RequestStatuses
              /\ status' = [status EXCEPT ![task[r]] = value[r]]
              /\ UNCHANGED batch
         \/ \E t \in TaskIds :
              /\ ~ Known(t) /\ status' = [status EXCEPT ![t] = "pending"]
              /\ UNCHANGED batch
         \/ \E r \in Requests :
              /\ pc[r] = "remove" /\ status' = [status EXCEPT ![task[r]] = "gone"]
              /\ UNCHANGED batch
<1> USE DEF IInv, Return, Throw
<1>0. Requests \subseteq Callers /\ Worker \notin Requests
  BY DEF Callers
<1>1. ASSUME NEW c \in Callers, UpdateWrite(c), ~ UNCHANGED status
      PROVE  /\ pc[c] = "write" /\ status' = [status EXCEPT ![task[c]] = value[c]]
             /\ IF c = Worker
                  THEN batch' \subseteq batch \ {task[c]} /\ task[c] \in batch
                  ELSE UNCHANGED batch /\ value[c] \in RequestStatuses
  BY <1>1 DEF UpdateWrite, Calls, Hands
<1>2. ASSUME NEW r \in Requests, Receive(r) \/ Dependents(r) \/ Remove(r) \/ Insert(r)
      PROVE  \/ UNCHANGED status
             \/ \E t \in TaskIds :
                  /\ ~ Known(t) /\ status' = [status EXCEPT ![t] = "pending"]
                  /\ UNCHANGED batch
             \/ /\ pc[r] = "remove" /\ status' = [status EXCEPT ![task[r]] = "gone"]
                /\ UNCHANGED batch
  BY <1>2 DEF Receive, Create, Put, Delete, Check, SetActive, Dependents, Remove, Insert,
     db, worker
<1>3. ASSUME \/ Poll \/ Attempt \/ Sleep \/ Restart \/ UNCHANGED vars
             \/ \E c \in Callers : UpdateFind(c) \/ UpdateLog(c) \/ StatementFails(c)
      PROVE  UNCHANGED status
  BY <1>3 DEF Poll, Attempt, Sleep, Restart, UpdateFind, UpdateLog, StatementFails, vars, db
<1>4. CASE \E c \in Callers : UpdateWrite(c)
  <2>1. PICK c \in Callers : UpdateWrite(c)
    BY <1>4
  <2>2. CASE UNCHANGED status
    BY <2>2
  <2>3. CASE ~ UNCHANGED status /\ c = Worker
    BY <1>1, <2>1, <2>3
  <2>4. CASE ~ UNCHANGED status /\ c # Worker
    BY <1>1, <2>1, <2>4 DEF Callers
  <2> QED BY <2>2, <2>3, <2>4
<1> QED
  BY <1>0, <1>2, <1>3, <1>4 DEF Next, WorkerStep, RequestStep, Update, Callers

LEMMA NextPutAside == IInv /\ PutAside /\ [Next]_vars => PutAside'
<1> SUFFICES ASSUME IInv, PutAside, [Next]_vars PROVE PutAside'
  OBVIOUS
<1>1. CASE Poll
  BY <1>1 DEF Poll, PutAside, Pending, WorkerStatuses, db
<1>2. CASE UNCHANGED status /\ ~ Poll
  <2>1. batch' \subseteq batch
    BY <1>2 DEF Next, WorkerStep, Attempt, Sleep, Update, UpdateFind, UpdateLog, UpdateWrite,
       RequestStep, Receive, Create, Put, Delete, Check, SetActive, Dependents, Remove,
       Insert, StatementFails, Restart, Return, Throw, vars, worker
  <2> QED BY <1>2, <2>1 DEF PutAside
<1>3. CASE ~ UNCHANGED status /\ ~ Poll
  BY <1>3, StatusWriters DEF PutAside, IInv, TypeOK, WorkerStatuses
<1> QED BY <1>1, <1>2, <1>3

(* Nothing in the worker brings a task back that it has put in retrying or  *)
(* in failed: it does not attempt it, whatever fails or restarts, and the   *)
(* status it has then is given to it by a request, its PUT or its deletion  *)
(* (task.worker.js:98, task.repository.js:101).                             *)
Asked(r, t) ==
  /\ task[r] = t
  /\ \/ pc[r] = "write" /\ status'[t] = value[r] /\ value[r] \in RequestStatuses
     \/ pc[r] = "remove" /\ status'[t] = "gone"

LeftAlone(t) ==
  /\ ~ (Attempt /\ task'[Worker] = t)
  /\ status'[t] # status[t] => \E r \in Requests : Asked(r, t)

OnlyRequestsRetry ==
  [][\A t \in TaskIds : status[t] \in WorkerStatuses => LeftAlone(t)]_vars

THEOREM RetriesAreAskedFor == Spec => OnlyRequestsRetry
<1>1. Init => PutAside
  BY DEF Init, PutAside
<1>2. ASSUME IInv, PutAside, [Next]_vars, NEW t \in TaskIds, status[t] \in WorkerStatuses
      PROVE  LeftAlone(t)
  <2>1. t \notin batch /\ Known(t)
    BY <1>2 DEF PutAside, Known, WorkerStatuses
  <2>2. ~ (Attempt /\ task'[Worker] = t)
    BY <1>2, <2>1 DEF Attempt, IInv, TypeOK, Callers
  <2>3. ASSUME status'[t] # status[t]
        PROVE  \E r \in Requests : Asked(r, t)
    <3>1. DOMAIN status = TaskIds
      BY <1>2 DEF IInv, TypeOK
    <3>2. \A u, s : status' = [status EXCEPT ![u] = s] => u = t /\ status'[t] = s
      BY <2>3, <3>1
    <3>3. \A u, s : status' = [status EXCEPT ![u] = s] => u \notin batch /\ Known(u)
      BY <2>1, <3>2
    <3>4. \/ \E r \in Requests :
               /\ pc[r] = "write" /\ value[r] \in RequestStatuses
               /\ status' = [status EXCEPT ![task[r]] = value[r]]
          \/ \E r \in Requests :
               pc[r] = "remove" /\ status' = [status EXCEPT ![task[r]] = "gone"]
      BY <1>2, <2>3, <3>3, StatusWriters
    <3> QED BY <3>2, <3>4 DEF Asked
  <2> QED BY <2>2, <2>3 DEF LeftAlone
<1>3. IInv /\ PutAside /\ [Next]_vars =>
        [\A t \in TaskIds : status[t] \in WorkerStatuses => LeftAlone(t)]_vars
  BY <1>2
<1> QED BY <1>1, <1>3, NextPutAside, Invariance, PTL DEF Spec, OnlyRequestsRetry

(* The tasks in retrying, and the one that is about to be.                  *)
Retrying == {t \in TaskIds : status[t] = "retrying"}
OnItsWay == {t \in MidAttempt : value[Worker] = "retrying"}

(* One counter is there for all tasks and nothing resets it, as no attempt  *)
(* succeeds. In one life of the process few failures are below maxRetries:  *)
(* few tasks are ever in retrying, and all that fail later go straight to   *)
(* failed (task.worker.js:86-102).                                          *)
FewAreRetried == Cardinality(Retrying) <= (MaxRetries - 1) * (faults + 1)

(* The failures in this life that were put in retrying, and those before.   *)
Retried == IF failures < MaxRetries THEN failures ELSE MaxRetries - 1

RetriesCounted ==
  Cardinality(Retrying \cup OnItsWay) <= (MaxRetries - 1) * faults + Retried

LEMMA RetryNumbers ==
  ASSUME TypeOK
  PROVE  /\ faults \in Nat /\ failures \in Nat /\ Retried \in 0 .. MaxRetries - 1
         /\ MaxRetries - 1 \in Nat
         /\ (MaxRetries - 1) * faults \in Nat
         /\ (MaxRetries - 1) * (faults + 1) = (MaxRetries - 1) * faults + (MaxRetries - 1)
<1>1. faults \in Nat /\ failures \in Nat /\ MaxRetries - 1 \in Nat
  BY DEF TypeOK
<1>2. \A k, n \in Nat : k * n \in Nat /\ k * (n + 1) = k * n + k
  OBVIOUS
<1>3. Retried \in 0 .. MaxRetries - 1
  BY <1>1 DEF Retried, TypeOK
<1> QED BY <1>1, <1>2, <1>3

LEMMA RetriesFinite ==
  ASSUME TypeOK, Calls
  PROVE  /\ Retrying \cup OnItsWay \subseteq TaskIds
         /\ IsFiniteSet(Retrying \cup OnItsWay)
         /\ Cardinality(Retrying \cup OnItsWay) \in Nat
<1>1. Retrying \cup OnItsWay \subseteq TaskIds
  BY DEF Retrying, OnItsWay, MidAttempt, Calls, Callers
<1>2. IsFiniteSet(TaskIds)
  BY FS_Interval DEF TaskIds
<1> QED BY <1>1, <1>2, FS_Subset, FS_CardinalityType

(* A step that puts no task in retrying and takes back no failure.          *)
LEMMA RetriesStay ==
  ASSUME IInv, IInv', RetriesCounted,
         (Retrying \cup OnItsWay)' \subseteq Retrying \cup OnItsWay,
         \/ faults' = faults /\ failures' \in {failures, failures + 1}
         \/ faults' = faults + 1
  PROVE  RetriesCounted'
<1>1. Cardinality((Retrying \cup OnItsWay)') <= Cardinality(Retrying \cup OnItsWay)
  BY RetriesFinite, FS_Subset DEF IInv
<1>2. /\ Cardinality(Retrying \cup OnItsWay) \in Nat
      /\ Cardinality((Retrying \cup OnItsWay)') \in Nat
  BY RetriesFinite, FS_CardinalityType, FS_Subset DEF IInv
<1>3. (MaxRetries - 1) * faults + Retried <= ((MaxRetries - 1) * faults + Retried)'
  <2>1. CASE faults' = faults /\ failures' \in {failures, failures + 1}
    <3>1. Retried <= Retried'
      BY <2>1 DEF Retried, IInv, TypeOK
    <3>2. /\ (MaxRetries - 1) * faults' = (MaxRetries - 1) * faults
          /\ (MaxRetries - 1) * faults \in Nat /\ Retried \in Nat /\ Retried' \in Nat
      BY <2>1, RetryNumbers DEF Retried, IInv, TypeOK
    <3> QED BY <3>1, <3>2
  <2>2. CASE faults' = faults + 1
    <3>1. Retried' \in Nat /\ Retried <= MaxRetries - 1
      BY <2>2 DEF Retried, IInv, TypeOK
    <3> QED BY <2>2, <3>1, RetryNumbers DEF IInv
  <2> QED BY <2>1, <2>2
<1>4. (MaxRetries - 1) * faults' \in Nat /\ Retried' \in Nat
  <2>1. faults' \in Nat /\ MaxRetries - 1 \in Nat
    BY DEF IInv, TypeOK
  <2>2. \A k, n \in Nat : k * n \in Nat
    OBVIOUS
  <2>3. Retried' \in Nat
    BY DEF Retried, IInv, TypeOK
  <2> QED BY <2>1, <2>2, <2>3
<1> QED BY <1>1, <1>2, <1>3, <1>4, RetryNumbers DEF RetriesCounted, IInv

(* A failure that goes to retrying is counted, and adds one task.           *)
LEMMA AttemptCounts ==
  ASSUME IInv, IInv', RetriesCounted, Attempt
  PROVE  RetriesCounted'
<1> USE DEF IInv
<1>1. PICK t \in batch : task' = [task EXCEPT ![Worker] = t]
  BY DEF Attempt
<1>2. /\ task'[Worker] = t /\ t \in TaskIds
      /\ value'[Worker] = IF failures' >= MaxRetries THEN "failed" ELSE "retrying"
      /\ failures' = IF failures < MaxRetries THEN failures + 1 ELSE failures
      /\ Retrying' = Retrying /\ faults' = faults
  BY <1>1 DEF Attempt, TypeOK, Callers, Retrying, db
<1>3. CASE failures' >= MaxRetries
  <2>1. (Retrying \cup OnItsWay)' \subseteq Retrying \cup OnItsWay
    BY <1>2, <1>3 DEF OnItsWay, MidAttempt
  <2> QED BY <1>2, <2>1, RetriesStay
<1>4. CASE ~ (failures' >= MaxRetries)
  <2> DEFINE R == Retrying \cup OnItsWay
  <2>1. R' \subseteq R \cup {t}
    BY <1>2 DEF OnItsWay, MidAttempt
  <2>2. IsFiniteSet(R) /\ Cardinality(R) \in Nat
    BY RetriesFinite
  <2>3. Cardinality(R') <= Cardinality(R) + 1 /\ Cardinality(R') \in Nat
    <3> DEFINE S == R \cup {t}
    <3> HIDE DEF R
    <3>1. IsFiniteSet(S) /\ Cardinality(S) <= Cardinality(R) + 1 /\ Cardinality(S) \in Nat
      <4>1. /\ IsFiniteSet(S)
            /\ Cardinality(S) = Cardinality(R) \/ Cardinality(S) = Cardinality(R) + 1
        BY <2>2, FS_AddElement, Zenon
      <4> QED BY <2>2, <4>1
    <3> HIDE DEF S
    <3>2. R' \subseteq S
      BY <2>1 DEF S
    <3>3. Cardinality(R') <= Cardinality(S) /\ Cardinality(R') \in Nat
      BY <3>1, <3>2, FS_Subset, FS_CardinalityType
    <3> QED BY <2>2, <3>1, <3>3
  <2>4. Retried' = Retried + 1
    BY <1>2, <1>4 DEF Retried, TypeOK
  <2>5. /\ Cardinality(R) <= (MaxRetries - 1) * faults + Retried
        /\ (MaxRetries - 1) * faults' = (MaxRetries - 1) * faults
        /\ (MaxRetries - 1) * faults \in Nat /\ Retried \in Nat
    BY <1>2, RetryNumbers DEF RetriesCounted
  <2>6. Cardinality(R') <= (MaxRetries - 1) * faults' + Retried'
    <3> HIDE DEF R
    <3> QED BY <2>2, <2>3, <2>4, <2>5
  <2> QED BY <2>6 DEF RetriesCounted
<1> QED BY <1>3, <1>4

LEMMA NextRetried == IInv /\ IInv' /\ RetriesCounted /\ [Next]_vars => RetriesCounted'
<1> SUFFICES ASSUME IInv, IInv', RetriesCounted, [Next]_vars PROVE RetriesCounted'
  OBVIOUS
<1> USE DEF IInv, Goto, Return, Throw
<1>0. Worker \in Callers /\ Requests \subseteq Callers /\ Worker \notin Requests
  BY DEF Callers
<1>1. CASE Attempt
  BY <1>1, AttemptCounts
<1>2. ASSUME UNCHANGED <<failures, faults>>, Retrying' \subseteq Retrying,
             OnItsWay' \subseteq OnItsWay
      PROVE  RetriesCounted'
  BY <1>2, RetriesStay
<1>3. ASSUME NEW c \in Callers, UpdateWrite(c)
      PROVE  RetriesCounted'
  <2>1. UNCHANGED <<failures, task, value>> /\ faults' \in {faults, faults + 1}
    BY <1>3 DEF UpdateWrite, call, Fault
  <2>2. CASE c # Worker
    <3>1. Retrying' \subseteq Retrying
      BY <1>0, <1>3, <2>2 DEF UpdateWrite, Retrying, TypeOK, Calls
    <3>2. pc'[Worker] = pc[Worker]
      BY <1>0, <1>3, <2>2 DEF UpdateWrite, TypeOK
    <3>3. OnItsWay' = OnItsWay
      BY <2>1, <3>2 DEF OnItsWay, MidAttempt
    <3> QED BY <2>1, <3>1, <3>3, RetriesStay
  <2>3. CASE c = Worker
    <3>1. pc[Worker] = "write" /\ pc'[Worker] \in {"take", "poll"}
      BY <1>0, <1>3, <2>3 DEF UpdateWrite, TypeOK
    <3>2. OnItsWay' = {}
      BY <3>1 DEF OnItsWay, MidAttempt, AtStatement
    <3>3. Retrying' \subseteq Retrying \cup OnItsWay
      <4>1. \/ UNCHANGED status
            \/ status' = [status EXCEPT ![task[Worker]] = value[Worker]]
        BY <1>3, <2>3 DEF UpdateWrite
      <4>2. task[Worker] \in MidAttempt /\ DOMAIN status = TaskIds
        BY <3>1 DEF MidAttempt, AtStatement, TypeOK
      <4> QED BY <4>1, <4>2 DEF Retrying, OnItsWay
    <3> QED BY <2>1, <3>2, <3>3, RetriesStay
  <2> QED BY <2>2, <2>3
<1>4. ASSUME NEW c \in Callers,
             UpdateFind(c) \/ UpdateLog(c) \/ StatementFails(c)
      PROVE  RetriesCounted'
  <2>1. /\ UNCHANGED <<status, failures, task, value>>
        /\ faults' \in {faults, faults + 1}
    BY <1>4 DEF UpdateFind, UpdateLog, StatementFails, db, call, history, Fault
  <2>2. CASE c # Worker
    <3>1. pc'[Worker] = pc[Worker]
      BY <1>0, <1>4, <2>2 DEF UpdateFind, UpdateLog, StatementFails, TypeOK
    <3> QED BY <2>1, <3>1, RetriesStay DEF OnItsWay, MidAttempt, Retrying
  <2>3. CASE c = Worker
    <3>1. pc[Worker] \in AtStatement
      BY <1>4, <2>3 DEF UpdateFind, UpdateLog, StatementFails, AtStatement
    <3> QED BY <2>1, <3>1, RetriesStay DEF OnItsWay, MidAttempt, Retrying
  <2> QED BY <2>2, <2>3
<1>5. CASE Poll \/ Sleep
  <2>1. /\ UNCHANGED <<status, failures, faults, task, value>>
        /\ pc'[Worker] \in {"take", "poll"}
    BY <1>0, <1>5 DEF Poll, Sleep, TypeOK, db, worker, call, history
  <2> QED BY <1>2, <2>1 DEF OnItsWay, MidAttempt, AtStatement, Retrying
<1>6. ASSUME NEW r \in Requests, Receive(r) \/ Dependents(r) \/ Remove(r) \/ Insert(r)
      PROVE  RetriesCounted'
  <2>1. /\ UNCHANGED <<failures, faults>>
        /\ pc'[Worker] = pc[Worker]
        /\ task'[Worker] = task[Worker] /\ value'[Worker] = value[Worker]
    BY <1>0, <1>6 DEF Receive, Create, Put, Delete, Check, SetActive, Dependents, Remove,
       Insert, TypeOK, worker, call
  <2>2. \/ UNCHANGED status
        \/ \E t : status' = [status EXCEPT ![t] = "pending"]
        \/ \E t : status' = [status EXCEPT ![t] = "gone"]
    BY <1>6 DEF Receive, Create, Put, Delete, Check, SetActive, Dependents, Remove,
       Insert, db
  <2>3. Retrying' \subseteq Retrying
    BY <2>2 DEF Retrying, TypeOK
  <2>4. OnItsWay' = OnItsWay
    BY <2>1 DEF OnItsWay, MidAttempt
  <2> QED BY <1>2, <2>1, <2>3, <2>4
<1>7. CASE Restart
  <2>1. /\ UNCHANGED status /\ faults' = faults + 1 /\ pc'[Worker] = "poll"
    BY <1>0, <1>7 DEF Restart, Fault, db
  <2>2. Retrying' = Retrying /\ OnItsWay' = {}
    BY <2>1 DEF Retrying, OnItsWay, MidAttempt, AtStatement
  <2> QED BY <2>1, <2>2, RetriesStay
<1>8. CASE UNCHANGED vars
  BY <1>2, <1>8 DEF vars, db, worker, call, history, OnItsWay, MidAttempt, Retrying
<1> QED
  BY <1>0, <1>1, <1>3, <1>4, <1>5, <1>6, <1>7, <1>8
  DEF Next, WorkerStep, Update, RequestStep

(* For any number of tasks, requests and retries allowed, a life of the     *)
(* process has maxRetries - 1 retries to give, to all tasks together; a     *)
(* fault, a restart among them, gives as many again.                        *)
THEOREM FewTasksRetry == Spec => []FewAreRetried
<1>1. Init => RetriesCounted
  <2> SUFFICES ASSUME Init PROVE RetriesCounted
    OBVIOUS
  <2>1. TypeOK /\ faults = 0 /\ failures = 0
    BY InitIInv DEF IInv, Init
  <2>2. \A t \in TaskIds : status[t] # "retrying"
    BY InitialAssumption DEF Init, TaskIds
  <2>3. Retrying \cup OnItsWay = {}
    BY <2>2 DEF Init, Retrying, OnItsWay, MidAttempt, AtStatement, Callers
  <2>4. Cardinality(Retrying \cup OnItsWay) = 0
    BY <2>3, FS_EmptySet
  <2> QED BY <2>1, <2>4, RetryNumbers DEF RetriesCounted
<1>2. IInv /\ RetriesCounted => FewAreRetried
  <2> SUFFICES ASSUME IInv, RetriesCounted PROVE FewAreRetried
    OBVIOUS
  <2>1. /\ Cardinality(Retrying) <= Cardinality(Retrying \cup OnItsWay)
        /\ Cardinality(Retrying) \in Nat
    BY RetriesFinite, FS_Subset, FS_CardinalityType DEF IInv
  <2> QED
    BY <2>1, RetriesFinite, RetryNumbers DEF IInv, RetriesCounted, FewAreRetried
<1> QED BY <1>1, <1>2, NextRetried, Invariance, PTL DEF Spec

----------------------------------------------------------------------------
(* The refinement.                                                          *)

LEMMA StepRefines == IInv /\ [Next]_vars => [Queue!Next]_(Queue!vars)
<1> SUFFICES ASSUME IInv, [Next]_vars, ~ UNCHANGED <<status, batch>>
             PROVE  Queue!Next
  BY DEF Queue!vars
<1> USE DEF IInv, Goto, Return, Throw
<1>0. Worker \in Callers /\ Requests \subseteq Callers /\ Worker \notin Requests
  BY DEF Callers
<1>1. ASSUME UNCHANGED status, batch' = {}
      PROVE  Queue!Next
  BY <1>1 DEF Queue!Next, Queue!Abandon
<1>2. CASE Poll
  <2>1. PICK b \in SUBSET Pending : batch' = b
    BY <1>2 DEF Poll
  <2>2. b \in SUBSET TaskIds /\ batch = {} /\ UNCHANGED status
    BY <1>2, <2>1 DEF Poll, Pending, Hands, db
  <2>3. Queue!Claim(b)
    BY <2>1, <2>2 DEF Queue!Claim, Pending
  <2> QED BY <2>2, <2>3 DEF Queue!Next
<1>3. ASSUME NEW c \in Callers, Update(c)
      PROVE  Queue!Next
  <2>1. CASE UpdateFind(c) \/ UpdateLog(c)
    BY <1>1, <2>1 DEF UpdateFind, UpdateLog, db
  <2>2. CASE UpdateWrite(c) /\ ~ Exists(task[c])
    BY <1>1, <2>2 DEF UpdateWrite
  <2>3. CASE UpdateWrite(c) /\ Exists(task[c])
    <3> DEFINE t == task[c]
    <3>1. t \in TaskIds /\ Queue!Exists(t)
      BY <2>3 DEF UpdateWrite, Calls, AtStatement, Exists, Queue!Exists
    <3>2. status' = [status EXCEPT ![t] = value[c]]
      BY <2>3 DEF UpdateWrite
    <3>3. CASE c = Worker
      <4>1. value[c] \in WorkerStatuses /\ t \in batch
        BY <2>3, <3>3 DEF UpdateWrite, Calls, Hands
      <4>2. batch' = batch \ {t} \/ batch' = {}
        BY <2>3, <3>3 DEF UpdateWrite
      <4>3. CASE batch' = batch \ {t}
        BY <3>1, <3>2, <4>1, <4>3 DEF Queue!Next, Queue!Settle
      <4>4. CASE batch' = {}
        BY <3>1, <3>2, <4>1, <4>4 DEF Queue!Next, Queue!Abandon
      <4> QED BY <4>2, <4>3, <4>4
    <3>4. CASE c # Worker
      <4>1. value[c] \in RequestStatuses /\ UNCHANGED batch
        BY <2>3, <3>4 DEF UpdateWrite, Calls
      <4> QED BY <3>1, <3>2, <4>1 DEF Queue!Next, Queue!Change
    <3> QED BY <3>3, <3>4
  <2> QED BY <1>3, <2>1, <2>2, <2>3 DEF Update
<1>4. ASSUME NEW r \in Requests, Create(r)
      PROVE  Queue!Next
  <2>1. PICK t \in TaskIds : ~ Known(t) /\ status' = [status EXCEPT ![t] = "pending"]
    BY <1>4 DEF Create
  <2>2. Queue!Submit(t)
    BY <1>4, <2>1 DEF Create, worker, Known, Queue!Submit
  <2> QED BY <2>2 DEF Queue!Next
<1>5. ASSUME NEW r \in Requests, Remove(r)
      PROVE  Queue!Next
  <2>1. task[r] \in TaskIds /\ Known(task[r])
    BY <1>0, <1>5 DEF Remove, Calls, AtStatement
  <2>2. status' = [status EXCEPT ![task[r]] = "gone"] /\ UNCHANGED batch
    BY <1>5 DEF Remove, worker
  <2>3. status[task[r]] # "gone"
    BY <2>1, <2>2 DEF TypeOK
  <2>4. Queue!Remove(task[r])
    BY <2>1, <2>2, <2>3 DEF Queue!Remove, Queue!Exists, Known
  <2> QED BY <2>1, <2>4 DEF Queue!Next
<1>6. CASE (\E c \in Callers : StatementFails(c)) \/ Restart
  BY <1>1, <1>6 DEF StatementFails, Restart, db
<1>7. CASE \/ Attempt \/ Sleep \/ UNCHANGED vars
           \/ \E r \in Requests :
                \/ \E t \in TaskIds, s \in RequestStatuses : Put(r, t, s)
                \/ \E t \in TaskIds : Delete(r, t)
                \/ \E t, d \in TaskIds : Check(r, t, d)
                \/ \E e \in edges, active \in BOOLEAN : SetActive(r, e, active)
                \/ Dependents(r) \/ Insert(r)
  BY <1>7 DEF Attempt, Sleep, vars, Put, Delete, Check, SetActive, Dependents, Insert,
     db, worker
<1> QED
  BY <1>0, <1>2, <1>3, <1>4, <1>5, <1>6, <1>7
  DEF Next, WorkerStep, RequestStep, Receive

(* For any number of tasks, requests and retries, every behaviour of worker *)
(* and requests is one of the queue: what the worker settles it has claimed *)
(* while it was pending, and what is removed stays so.                      *)
THEOREM ImplementsQueue == Spec => QueueSpec
<1>1. Init => Queue!Init
  <2> SUFFICES ASSUME Init PROVE Queue!Init
    OBVIOUS
  <2>1. status \in [TaskIds -> RequestStatuses \cup {"none", "pending"}]
    BY InitialAssumption DEF Init, TaskIds
  <2> QED BY <2>1 DEF Init, Queue!Init
<1> QED BY <1>1, StepRefines, Invariance, PTL DEF Spec, QueueSpec, Queue!Spec

----------------------------------------------------------------------------
(* How far the worker is from having no task pending.                       *)

(* The tasks in its batch that a request has changed since it read them.    *)
Behind == batch \ Pending

(* Where it stands in its round.                                            *)
Place ==
  CASE pc[Worker] = "take" -> IF batch = {} THEN 5 ELSE 3
    [] pc[Worker] = "poll" -> 4
    [] pc[Worker] = "find" -> 2
    [] pc[Worker] = "log" -> 1
    [] OTHER -> 0

Sooner ==
  \/ Cardinality(Pending') < Cardinality(Pending)
  \/ /\ Pending' = Pending
     /\ \/ Cardinality(Behind') < Cardinality(Behind)
        \/ Behind' = Behind /\ Place' < Place

(* Whatever requests do to the batch under its hands, each step of the      *)
(* worker brings it nearer to having no task pending, whichever tasks the   *)
(* limit lets it read, and only requests add to those that are              *)
(* (task.worker.js:56-120, task.repository.js:101).                         *)
Submits == \E r \in Requests : Create(r) \/ UpdateWrite(r)

WorkerAdvances ==
  [][/\ WorkerStep => Sooner
     /\ Pending' \subseteq Pending \/ Submits]_vars

LEMMA QueueFinite ==
  ASSUME IInv
  PROVE  /\ IsFiniteSet(Pending) /\ Cardinality(Pending) \in Nat
         /\ IsFiniteSet(Behind) /\ Cardinality(Behind) \in Nat
<1>1. IsFiniteSet(TaskIds)
  BY BoundsAssumption, FS_Interval DEF TaskIds
<1>2. Pending \subseteq TaskIds /\ Behind \subseteq TaskIds
  BY DEF Pending, Behind, IInv, TypeOK
<1> QED BY <1>1, <1>2, FS_Subset, FS_CardinalityType

(* A finite set without one of its members, or without more, is smaller.    *)
LEMMA Smaller ==
  ASSUME NEW S, IsFiniteSet(S), NEW T, T \subseteq S, NEW x \in S, x \notin T
  PROVE  Cardinality(T) < Cardinality(S)
<1>1. IsFiniteSet(T) /\ Cardinality(T) <= Cardinality(S)
  BY FS_Subset
<1>2. T # S
  OBVIOUS
<1>3. Cardinality(T) # Cardinality(S)
  BY <1>2, FS_Subset
<1> QED BY <1>1, <1>3, FS_CardinalityType

LEMMA WorkerSooner ==
  ASSUME IInv, WorkerStep
  PROVE  Sooner
<1> USE DEF IInv, Goto
<1>t. pc \in [Callers -> AtStatement \cup {"poll", "take", "idle", "ok", "error"}]
  BY DEF TypeOK
<1>w. Worker \in Callers
  BY DEF Callers
<1>1. CASE Poll
  <2>1. /\ batch' \subseteq Pending /\ batch' # {}
        /\ pc[Worker] = "poll" /\ pc'[Worker] = "take" /\ UNCHANGED status
    <3>1. PICK b \in SUBSET Pending :
            /\ IF Cardinality(Pending) <= BatchSize
                 THEN b = Pending ELSE Cardinality(b) = BatchSize
            /\ batch' = b
      BY <1>1 DEF Poll
    <3>2. b # {}
      BY <1>1, <3>1, BoundsAssumption, FS_EmptySet DEF Poll
    <3> QED BY <1>t, <1>w, <1>1, <3>1, <3>2 DEF Poll, db
  <2>2. Pending' = Pending
    BY <2>1 DEF Pending
  <2>3. Behind = {} /\ Behind' = {}
    BY <2>1, <2>2 DEF Behind, Hands
  <2>4. Place = 4 /\ Place' = 3
    BY <2>1 DEF Place
  <2> QED BY <2>2, <2>3, <2>4 DEF Sooner
<1>2. CASE Attempt
  <2>1. /\ UNCHANGED <<status, batch>> /\ batch # {}
        /\ pc[Worker] = "take" /\ pc'[Worker] = "find"
    BY <1>t, <1>w, <1>2 DEF Attempt, db
  <2>2. Pending' = Pending /\ Behind' = Behind
    BY <2>1 DEF Pending, Behind
  <2>3. Place = 3 /\ Place' = 2
    BY <2>1 DEF Place
  <2> QED BY <2>2, <2>3 DEF Sooner
<1>3. CASE Sleep
  <2>1. /\ UNCHANGED <<status, batch>> /\ batch = {}
        /\ pc[Worker] = "take" /\ pc'[Worker] = "poll"
    BY <1>t, <1>w, <1>3 DEF Sleep, db, worker
  <2>2. Pending' = Pending /\ Behind' = Behind
    BY <2>1 DEF Pending, Behind
  <2>3. Place = 5 /\ Place' = 4
    BY <2>1 DEF Place
  <2> QED BY <2>2, <2>3 DEF Sooner
<1>4. ASSUME ~ Exists(task[Worker]), task[Worker] \in batch,
             Throw(Worker), UNCHANGED status
      PROVE  Sooner
  <2>1. Pending' = Pending /\ task[Worker] \in Behind
    BY <1>4 DEF Pending, Behind, Exists
  <2>2. Behind' = {}
    BY <1>4 DEF Throw, Behind
  <2>3. Cardinality(Behind') < Cardinality(Behind)
    BY <2>1, <2>2, QueueFinite, Smaller
  <2> QED BY <2>1, <2>3 DEF Sooner
<1>5. CASE UpdateFind(Worker)
  <2>1. pc[Worker] = "find" /\ UNCHANGED status /\ task[Worker] \in batch
    BY <1>5 DEF UpdateFind, db, Hands
  <2>2. CASE Exists(task[Worker])
    <3>1. UNCHANGED batch /\ pc'[Worker] \in {"log", "write"}
      BY <1>t, <1>w, <1>5, <2>2 DEF UpdateFind
    <3>2. Pending' = Pending /\ Behind' = Behind
      BY <2>1, <3>1 DEF Pending, Behind
    <3>3. Place = 2
      BY <2>1 DEF Place
    <3>4. Place' \in {0, 1}
      BY <3>1 DEF Place
    <3> QED BY <3>2, <3>3, <3>4 DEF Sooner
  <2>3. CASE ~ Exists(task[Worker])
    BY <1>4, <1>5, <2>1, <2>3 DEF UpdateFind
  <2> QED BY <2>2, <2>3
<1>6. CASE UpdateLog(Worker)
  <2>1. pc[Worker] = "log" /\ UNCHANGED status /\ task[Worker] \in batch
    BY <1>6 DEF UpdateLog, Hands
  <2>2. CASE Exists(task[Worker])
    <3>1. UNCHANGED batch /\ pc'[Worker] = "write"
      BY <1>t, <1>w, <1>6, <2>2 DEF UpdateLog
    <3>2. Pending' = Pending /\ Behind' = Behind
      BY <2>1, <3>1 DEF Pending, Behind
    <3>3. Place = 1 /\ Place' = 0
      BY <2>1, <3>1 DEF Place
    <3> QED BY <3>2, <3>3 DEF Sooner
  <2>3. CASE ~ Exists(task[Worker])
    BY <1>4, <1>6, <2>1, <2>3 DEF UpdateLog
  <2> QED BY <2>2, <2>3
<1>7. CASE UpdateWrite(Worker)
  <2>1. /\ pc[Worker] = "write" /\ task[Worker] \in batch
        /\ task[Worker] \in TaskIds /\ value[Worker] \in WorkerStatuses
    BY <1>7, <1>w DEF UpdateWrite, Hands, Calls, AtStatement
  <2>2. CASE Exists(task[Worker])
    <3> DEFINE t == task[Worker]
    <3>1. /\ status' = [status EXCEPT ![t] = value[Worker]]
          /\ batch' \subseteq batch \ {t}
      BY <1>7, <2>2 DEF UpdateWrite, Return, Throw
    <3>2. Pending' = Pending \ {t}
      BY <2>1, <3>1 DEF Pending, TypeOK, WorkerStatuses
    <3>3. CASE t \in Pending
      BY <3>2, <3>3, QueueFinite, Smaller DEF Sooner
    <3>4. CASE t \notin Pending
      <4>1. Pending' = Pending
        BY <3>2, <3>4
      <4>2. t \in Behind /\ Behind' \subseteq Behind /\ t \notin Behind'
        BY <2>1, <3>1, <3>4, <4>1 DEF Behind
      <4>3. Cardinality(Behind') < Cardinality(Behind)
        BY <4>2, QueueFinite, Smaller
      <4> QED BY <4>1, <4>3 DEF Sooner
    <3> QED BY <3>3, <3>4
  <2>3. CASE ~ Exists(task[Worker])
    BY <1>4, <1>7, <2>1, <2>3 DEF UpdateWrite
  <2> QED BY <2>2, <2>3
<1> QED BY <1>1, <1>2, <1>3, <1>5, <1>6, <1>7 DEF WorkerStep, Update

LEMMA OnlyRequestsSubmit ==
  ASSUME IInv, Next
  PROVE  Pending' \subseteq Pending \/ Submits
<1> USE DEF IInv
<1>1. CASE UNCHANGED status
  BY <1>1 DEF Pending
<1>2. ASSUME NEW r \in Requests, Remove(r)
      PROVE  Pending' \subseteq Pending
  BY <1>2 DEF Remove, Pending, TypeOK
<1>3. CASE UpdateWrite(Worker)
  <2>1. value[Worker] \in WorkerStatuses
    BY <1>3 DEF UpdateWrite, Calls, Callers
  <2> QED BY <1>3, <2>1 DEF UpdateWrite, Pending, TypeOK, WorkerStatuses
<1>4. \/ UNCHANGED status \/ Submits \/ UpdateWrite(Worker)
      \/ \E r \in Requests : Remove(r)
  BY DEF Next, WorkerStep, Poll, Attempt, Sleep, Update, UpdateFind, UpdateLog, Receive,
     Put, Delete, Check, SetActive, RequestStep, Dependents, Insert, StatementFails,
     Restart, db, Submits
<1> QED BY <1>1, <1>2, <1>3, <1>4

(* For any number of tasks and requests and any size of batch: what of      *)
(* PendingIsTaken needs no fairness.                                        *)
THEOREM WorkerComesNearer == Spec => WorkerAdvances
<1>1. IInv /\ [Next]_vars =>
        [/\ WorkerStep => Sooner
         /\ Pending' \subseteq Pending \/ Submits]_vars
  BY WorkerSooner, OnlyRequestsSubmit
<1> QED BY Invariance, <1>1, PTL DEF Spec, WorkerAdvances
=============================================================================
