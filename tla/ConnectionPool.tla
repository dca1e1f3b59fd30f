----------------------------- MODULE ConnectionPool -----------------------------
(* The requests of finance-api share one pool of database clients           *)
(* (config/database.js). A plain statement takes a client and gives it back *)
(* at once. Many handlers, though, hold a client for the length of a        *)
(* transaction and, while they hold it, run other statements through the    *)
(* pool, each of which takes a second client. When every client is held by  *)
(* such a handler only connectionTimeoutMillis gets any of them on.         *)
(*                                                                          *)
(* The pool itself is pg-pool's: a queue of those who wait, and clients     *)
(* that go to the head of the queue.                                        *)
EXTENDS Naturals, SequencesExt

CONSTANTS
  Clients,   \* max: 15
  Requests,  \* the requests being served
  Handlers,  \* which handlers they may run
  Nested     \* statements a billing runs through the pool

AllHandlers == {"read", "payment", "movement", "adjustment", "dueDate",
                "contract", "billing"}

ASSUME ClientsAssumption == IsFiniteSet(Clients) /\ IsFiniteSet(Requests)
ASSUME HandlersAssumption == Handlers \subseteq AllHandlers
ASSUME NestedAssumption == Nested \in Nat \ {0}

VARIABLES
  handler,  \* what a request runs
  pc,       \* where it stands
  left,     \* statements it has still to run through the pool
  own,      \* the client of its transaction, as a set of at most one
  extra,    \* the client of the statement it runs through the pool
  queue,    \* the requests that wait for a client, in order of arrival
  reply

vars == <<handler, pc, left, own, extra, queue, reply>>

PCs == {"idle", "connect", "own", "nested", "statement", "done"}

(* How many statements a handler runs through the pool, before it answers,  *)
(* while it holds a client. "contract" is PUT, and terminate, which does    *)
(* not update a contract that is inactive already.                          *)
NestedOf(h) ==
  CASE h \in {"read", "payment"} -> {1}
    [] h = "movement" -> {0, 1}
    [] h \in {"dueDate", "adjustment"} -> {2}
    [] h = "contract" -> {1, 2}
    [] OTHER -> 1 .. Nested

Transactional(h) == h # "read"
FreeClients == Clients \ UNION {own[r] \cup extra[r] : r \in Requests}
Waiting == ToSet(queue)

LeaveQueue(r) ==
  \E k \in DOMAIN queue : queue[k] = r /\ queue' = RemoveAt(queue, k)

----------------------------------------------------------------------------
Init ==
  /\ handler = [r \in Requests |-> "none"]
  /\ pc = [r \in Requests |-> "idle"]
  /\ left = [r \in Requests |-> 0]
  /\ own = [r \in Requests |-> {}]
  /\ extra = [r \in Requests |-> {}]
  /\ queue = <<>>
  /\ reply = [r \in Requests |-> "none"]

Goto(r, step) == pc' = [pc EXCEPT ![r] = step] /\ UNCHANGED reply

Reply(r, answer) ==
  /\ pc' = [pc EXCEPT ![r] = "done"]
  /\ reply' = [reply EXCEPT ![r] = answer]

(* A request arrives, and asks for the first client it needs.               *)
Receive(r, h) ==
  /\ pc[r] = "idle"
  /\ handler' = [handler EXCEPT ![r] = h]
  /\ \E n \in NestedOf(h) : left' = [left EXCEPT ![r] = n]
  /\ queue' = Append(queue, r)
  /\ Goto(r, IF Transactional(h) THEN "connect" ELSE "nested")
  /\ UNCHANGED <<own, extra>>

(* The pool gives a free client to the one who has waited longest.          *)
Grant(c) ==
  /\ queue # <<>> /\ c \in FreeClients
  /\ LET r == Head(queue)
     IN IF pc[r] = "connect"
          THEN /\ own' = [own EXCEPT ![r] = {c}]
               /\ Goto(r, "own")
               /\ UNCHANGED extra
          ELSE /\ extra' = [extra EXCEPT ![r] = {c}]
               /\ Goto(r, "statement")
               /\ UNCHANGED own
  /\ queue' = Tail(queue)
  /\ UNCHANGED <<handler, left>>

(* Mutant: one statement more than the handler has.                         *)
AskNestedAgain(r) ==
  /\ pc[r] = "own"
  /\ queue' = Append(queue, r)
  /\ Goto(r, "nested")
  /\ UNCHANGED <<handler, left, own, extra>>

(* Between its own statements a handler runs one through the pool.          *)
AskNested(r) ==
  /\ pc[r] = "own" /\ left[r] > 0
  /\ queue' = Append(queue, r)
  /\ Goto(r, "nested")
  /\ UNCHANGED <<handler, left, own, extra>>

(* A statement has ended, or failed after query_timeout, and its client     *)
(* goes back to the pool. What the failure of a handler's statement does is *)
(* left to Finish.                                                          *)
StatementEnds(r) ==
  /\ pc[r] = "statement"
  /\ left' = [left EXCEPT ![r] = @ - 1]
  /\ extra' = [extra EXCEPT ![r] = {}]
  /\ IF Transactional(handler[r])
       THEN Goto(r, "own")
       ELSE \E answer \in {"ok", "error"} : Reply(r, answer)
  /\ UNCHANGED <<handler, own, queue>>

(* Mutant: an error that is thrown goes past the release.                   *)
FinishLeaks(r) ==
  /\ pc[r] = "own"
  /\ \/ left[r] = 0 /\ Reply(r, "ok") /\ own' = [own EXCEPT ![r] = {}]
     \/ Reply(r, "error") /\ UNCHANGED own
  /\ UNCHANGED <<handler, left, extra, queue>>

(* COMMIT, or an error and ROLLBACK: the finally of every handler releases. *)
Finish(r) ==
  /\ pc[r] = "own"
  /\ \/ left[r] = 0 /\ Reply(r, "ok")
     \/ Reply(r, "error")
  /\ own' = [own EXCEPT ![r] = {}]
  /\ UNCHANGED <<handler, left, extra, queue>>

(* Mutant: only connect() times out, not the statements run by the pool.    *)
TimeoutOfConnect(r) ==
  /\ pc[r] = "connect" /\ LeaveQueue(r)
  /\ Reply(r, "error")
  /\ UNCHANGED <<handler, left, own, extra>>

(* Mutant: the client is not released when a second one is not to be had.   *)
TimeoutKeeps(r) ==
  /\ LeaveQueue(r)
  /\ Reply(r, "error")
  /\ UNCHANGED <<handler, left, own, extra>>

(* connectionTimeoutMillis: after 10 s in the queue connect() or query()    *)
(* rejects. A handler rolls back, releases and rethrows, except a billing,  *)
(* which goes on to its next stage or contract.                             *)
Timeout(r) ==
  /\ LeaveQueue(r)
  /\ IF handler[r] = "billing" /\ pc[r] = "nested"
       THEN /\ left' = [left EXCEPT ![r] = @ - 1]
            /\ Goto(r, "own")
            /\ UNCHANGED own
       ELSE /\ Reply(r, "error")
            /\ own' = [own EXCEPT ![r] = {}]
            /\ UNCHANGED left
  /\ UNCHANGED <<handler, extra>>

RequestStep(r) == AskNested(r) \/ StatementEnds(r) \/ Finish(r)

Next ==
  \/ \E r \in Requests, h \in Handlers : Receive(r, h)
  \/ \E c \in Clients : Grant(c)
  \/ \E r \in Requests : RequestStep(r) \/ Timeout(r)

Spec == Init /\ [][Next]_vars

(* The event loop goes on, every statement ends or times out, and so does   *)
(* every wait for a client. Nobody is sure to be granted one in time.       *)
Fairness == \A r \in Requests : WF_vars(RequestStep(r)) /\ WF_vars(Timeout(r))

FairSpec == Spec /\ Fairness

----------------------------------------------------------------------------
(* Every variable keeps its type.                                           *)
TypeOK ==
  /\ handler \in [Requests -> AllHandlers \cup {"none"}]
  /\ pc \in [Requests -> PCs]
  /\ left \in [Requests -> Nat]
  /\ own \in [Requests -> SUBSET Clients]
  /\ extra \in [Requests -> SUBSET Clients]
  /\ queue \in Seq(Requests)
  /\ reply \in [Requests -> {"none", "ok", "error"}]

(* No client is lost and none is used twice: two requests never have the    *)
(* same client, a handler never runs a statement on the client of its own   *)
(* transaction, and who is answered, or not yet served, has none left and   *)
(* stands in no queue; who waits stands there once                          *)
(* (config/database.js:26, and the finally of every handler).               *)
ClientsAccounted ==
  /\ IsInjective(queue)
  /\ \A r \in Requests :
       /\ own[r] \cap extra[r] = {}
       /\ pc[r] \in {"idle", "connect", "done"} => own[r] \cup extra[r] = {}
       /\ r \in Waiting <=> pc[r] \in {"connect", "nested"}
  /\ \A r, s \in Requests :
       r # s => (own[r] \cup extra[r]) \cap (own[s] \cup extra[s]) = {}

(* While fewer requests stand in a transaction than the pool has clients,   *)
(* nobody has to wait for a timeout of another: a client is free, or at a   *)
(* statement whose end frees it. Only as many transactions as there are     *)
(* clients can stall the pool (config/database.js:26-31).                   *)
InTransaction ==
  {r \in Requests : Transactional(handler[r]) /\ pc[r] \in {"own", "nested", "statement"}}

StallNeedsTransactions ==
  Cardinality(InTransaction) < Cardinality(Clients)
    => FreeClients # {} \/ \E r \in Requests : pc[r] = "statement"

(* However many handlers hold a client and wait for another, every request  *)
(* is answered (config/database.js:29).                                     *)
EveryRequestAnswered == \A r \in Requests : pc[r] # "idle" ~> pc[r] = "done"
=============================================================================
