---------------------------- MODULE ContractBilling ----------------------------
(* Recurring contracts: the requests that bill them, end them, move their   *)
(* billing date and adjust their value (contract-recurring.service.js).     *)
(*                                                                          *)
(* Every one of these requests opens a transaction on a client of its own,  *)
(* but most of what it writes goes through the pool, where each statement   *)
(* commits by itself: only payments, histories and value adjustments wait   *)
(* for the COMMIT. An action is one statement, or several of which at most  *)
(* one can be seen or disturbed by another request. The answer of a COMMIT  *)
(* is a step of its own, and a write or a COMMIT that raises may have taken *)
(* effect: the client gives up after 20 s, the server after 30 s            *)
(* (config/database.js:36-37), and a connection may be lost in between.     *)
(*                                                                          *)
(* A movement is billed for the date that next_billing_date named when the  *)
(* request read it; when it is due is in BillingCalendar.                   *)
EXTENDS Calendar, Sequences, FiniteSets

CONSTANTS
  Contracts,
  Requests,    \* the HTTP requests
  Ops,         \* the operations they may ask for
  Lists,       \* the bodies POST /billing may have: sequences of contracts
  ItemCount,   \* items of the template movement of a contract
  FirstDate,   \* the next_billing_date each contract has before it is billed
  Dates,       \* the dates an operator may set it to
  MaxBilled,   \* bound on the contracts that POST /billing is asked for
  MaxCrashes   \* how often the process may be restarted

AllOps == {"billing", "terminate", "adjustDate", "adjustment", "put"}

ASSUME OpsAssumption == Ops \subseteq AllOps
ASSUME ListsAssumption == Lists \subseteq Seq(Contracts)
ASSUME ItemAssumption == ItemCount \in Nat
ASSUME FirstDateAssumption == FirstDate \in [Contracts -> Date]
ASSUME DatesAssumption == Dates \subseteq Date
ASSUME BilledAssumption == MaxBilled \in Nat
ASSUME CrashesAssumption == MaxCrashes \in Nat

VARIABLES
  nextDate,     \* contracts_recurring.next_billing_date
  active,       \* contracts_recurring.status is not 'inactive'
  value,        \* contracts_recurring.contract_value, in adjustments
  lock,         \* the requests that hold a contract FOR UPDATE
  movements,    \* the movements billing has created, by movement_id
  payments,     \* committed payments: "full", or "bare" of installments
  terminations, \* committed history rows of type termination
  adjustments,  \* committed history rows of value adjustments
  operated,     \* contracts whose columns PUT or adjust-billing-date wrote
  notified,     \* movements whose notification is scheduled
  op, pc, list, \* of a request: operation, next step, contracts to go
  seen,         \* what it read of the contract it works on
  move,         \* the movement it created for that contract
  payment,      \* whether its payment was created without an error
  tx,           \* the payments its open transaction holds
  poisoned,     \* whether a statement of its transaction has failed
  results,      \* the outcomes it has collected
  reply, crashes

contractVars == <<nextDate, active, value, operated>>
historyVars == <<terminations, adjustments>>
billingVars == <<movements, payments, notified>>
requestVars == <<op, pc, list, seen, move, payment, tx, poisoned, results,
                 reply>>
vars == <<contractVars, lock, historyVars, billingVars, requestVars, crashes>>

BillingSteps == {"bill.find", "bill.movement", "bill.items", "bill.payment",
                 "bill.link", "bill.dates", "bill.commit", "bill.reply"}
PCs == BillingSteps \cup {"idle", "done", "dead", "unanswered", "term.update",
         "term.history", "term.reply", "date.history", "adj.lock", "adj.read",
         "adj.write"}
Seen == [date : Date, active : BOOLEAN, value : Nat]
Result == [status : {"success", "partial_error", "error"}, movement : Nat]
Movement == [contract : Contracts, date : Date, items : 0..ItemCount,
             linked : BOOLEAN, by : Requests]

Ended == {"idle", "done", "dead", "unanswered"}
Now(r) == Head(list[r])
NotRead == [date |-> [month |-> 0, day |-> 1], active |-> TRUE, value |-> 0]
ColumnsOf(c) == [date |-> nextDate[c], active |-> active[c],
                 value |-> value[c]]
Paid(m) == m \in DOMAIN payments /\ payments[m] = "full"

----------------------------------------------------------------------------
Init ==
  /\ nextDate = FirstDate
  /\ active = [c \in Contracts |-> TRUE]
  /\ value = [c \in Contracts |-> 0]
  /\ lock = [c \in Contracts |-> {}]
  /\ movements = <<>>
  /\ payments = <<>>
  /\ terminations = [c \in Contracts |-> 0]
  /\ adjustments = [c \in Contracts |-> 0]
  /\ operated = {}
  /\ notified = {}
  /\ op = [r \in Requests |-> "none"]
  /\ pc = [r \in Requests |-> "idle"]
  /\ list = [r \in Requests |-> <<>>]
  /\ seen = [r \in Requests |-> NotRead]
  /\ move = [r \in Requests |-> 0]
  /\ payment = [r \in Requests |-> FALSE]
  /\ tx = [r \in Requests |-> <<>>]
  /\ poisoned = [r \in Requests |-> FALSE]
  /\ results = [r \in Requests |-> <<>>]
  /\ reply = [r \in Requests |-> "none"]
  /\ crashes = 0

----------------------------------------------------------------------------
(* How the steps of a request begin and end                                 *)

Starts(r, o, cs) ==
  /\ pc[r] = "idle" /\ o \in Ops
  /\ op' = [op EXCEPT ![r] = o]
  /\ list' = [list EXCEPT ![r] = cs]

At(r, step) == pc[r] = step /\ UNCHANGED <<op, list>>

Goto(r, step) == pc' = [pc EXCEPT ![r] = step] /\ UNCHANGED reply

Reply(r, answer) ==
  /\ pc' = [pc EXCEPT ![r] = "done"]
  /\ reply' = [reply EXCEPT ![r] = answer]

(* A column is written through the pool: the row must not be locked.        *)
Unlocked(c) == lock[c] = {}

(* Left alone by every step of a request that is not a billing.             *)
OutsideBilling ==
  UNCHANGED <<billingVars, move, payment, tx, poisoned, results, crashes>>

(* Left alone by every step of a billing.                                   *)
InsideBilling ==
  UNCHANGED <<active, value, operated, lock, historyVars, crashes>>

----------------------------------------------------------------------------
(* POST /contracts-recurring/billing and /contracts-recurring/:id/billing   *)

(* One pair for each contract that a list has named so far.                 *)
AskedFor ==
  UNION {{q} \X (1 .. Len(list[q]) + Len(results[q])) :
         q \in {s \in Requests : op[s] = "billing"}}

BeginBilling(r, cs) ==
  /\ Starts(r, "billing", cs)
  /\ Cardinality(AskedFor) + Len(cs) <= MaxBilled
  /\ Goto(r, IF cs = <<>> THEN "bill.commit" ELSE "bill.find")
  /\ UNCHANGED <<nextDate, billingVars, seen, move, payment, tx, poisoned,
                 results>>
  /\ InsideBilling

(* The variables of the loop's body.                                        *)
Forget(r) ==
  /\ seen' = [seen EXCEPT ![r] = NotRead]
  /\ move' = [move EXCEPT ![r] = 0]
  /\ payment' = [payment EXCEPT ![r] = FALSE]

(* Mutant: the movement is noted as soon as it is created.                  *)
NextContractNamesMovement(r, status) ==
  /\ results' = [results EXCEPT ![r] =
       Append(@, [status |-> status, movement |-> move[r]])]
  /\ Forget(r)
  /\ list' = [list EXCEPT ![r] = Tail(@)]
  /\ Goto(r, IF Len(list[r]) = 1 THEN "bill.commit" ELSE "bill.find")
  /\ UNCHANGED op

(* The contract is dealt with: on to the next one, or to COMMIT.            *)
NextContract(r, status) ==
  /\ results' = [results EXCEPT ![r] = Append(@,
       [status |-> status,
        movement |-> IF status = "error" THEN 0 ELSE move[r]])]
  /\ Forget(r)
  /\ list' = [list EXCEPT ![r] = Tail(@)]
  /\ Goto(r, IF Len(list[r]) = 1 THEN "bill.commit" ELSE "bill.find")
  /\ UNCHANGED op

BillFind(r) ==
  /\ At(r, "bill.find")
  /\ seen' = [seen EXCEPT ![r] = ColumnsOf(Now(r))]
  /\ Goto(r, "bill.movement")
  /\ UNCHANGED <<nextDate, billingVars, move, payment, tx, poisoned, results>>
  /\ InsideBilling

(* movementRepository.create ignores the client it is given.                *)
InsertMovement(r) ==
  movements' = Append(movements,
    [contract |-> Now(r), date |-> seen[r].date, items |-> 0,
     linked |-> FALSE, by |-> r])

BillMovement(r) ==
  /\ At(r, "bill.movement")
  /\ InsertMovement(r)
  /\ move' = [move EXCEPT ![r] = Len(movements) + 1]
  /\ payment' = [payment EXCEPT ![r] = FALSE]
  /\ Goto(r, IF ItemCount = 0 THEN "bill.payment" ELSE "bill.items")
  /\ UNCHANGED <<nextDate, payments, notified, seen, tx, poisoned, results>>
  /\ InsideBilling

(* Mutant: <= in the place of < in the loop over the items.                 *)
BillItemOneTooMany(r) ==
  /\ At(r, "bill.items")
  /\ movements' = [movements EXCEPT ![move[r]].items = @ + 1]
  /\ Goto(r, IF movements[move[r]].items = ItemCount THEN "bill.payment"
                                                     ELSE "bill.items")
  /\ UNCHANGED <<nextDate, payments, notified, seen, move, payment, tx,
                 poisoned, results>>
  /\ InsideBilling

InsertItem(r) == movements' = [movements EXCEPT ![move[r]].items = @ + 1]

BillItem(r) ==
  /\ At(r, "bill.items")
  /\ InsertItem(r)
  /\ Goto(r, IF movements[move[r]].items + 1 = ItemCount THEN "bill.payment"
                                                         ELSE "bill.items")
  /\ UNCHANGED <<nextDate, payments, notified, seen, move, payment, tx,
                 poisoned, results>>
  /\ InsideBilling

(* Mutant: the payment ignores the client too.                              *)
BillPaymentThroughPool(r) ==
  /\ At(r, "bill.payment")
  /\ payments' = [m \in DOMAIN payments \cup {move[r]} |->
       IF m = move[r] THEN "full" ELSE payments[m]]
  /\ payment' = [payment EXCEPT ![r] = TRUE]
  /\ Goto(r, "bill.link")
  /\ UNCHANGED <<nextDate, movements, notified, seen, move, tx, poisoned,
                 results>>
  /\ InsideBilling

(* The one stage that uses the client, and whose error is swallowed. It may *)
(* succeed though the last boleto payload has failed the transaction; it    *)
(* may fail before, or after, the payment row is in the transaction.        *)
BillPayment(r) ==
  /\ At(r, "bill.payment")
  /\ \E made \in {"full", "bare", "none"}, broken \in BOOLEAN :
       /\ poisoned[r] => made = "none" /\ broken
       /\ tx' = [tx EXCEPT ![r] = IF made = "none" THEN @ ELSE
            [m \in DOMAIN @ \cup {move[r]} |->
               IF m = move[r] THEN made ELSE @[m]]]
       /\ payment' = [payment EXCEPT ![r] = made = "full"]
       /\ poisoned' = [poisoned EXCEPT ![r] = broken]
  /\ Goto(r, "bill.link")
  /\ UNCHANGED <<nextDate, billingVars, seen, move, results>>
  /\ InsideBilling

InsertLink(r) == movements' = [movements EXCEPT ![move[r]].linked = TRUE]

BillLink(r) ==
  /\ At(r, "bill.link")
  /\ InsertLink(r)
  /\ Goto(r, "bill.dates")
  /\ UNCHANGED <<nextDate, payments, notified, seen, move, payment, tx,
                 poisoned, results>>
  /\ InsideBilling

(* Mutant: one month after the date the row holds by now.                   *)
BillDatesFromRow(r) ==
  /\ pc[r] = "bill.dates" /\ Unlocked(Now(r))
  /\ nextDate' = [nextDate EXCEPT ![Now(r)] = MonthAfter(@)]
  /\ NextContract(r, IF payment[r] THEN "success" ELSE "partial_error")
  /\ UNCHANGED <<billingVars, tx, poisoned>>
  /\ InsideBilling

(* One month after the date this request has read.                          *)
MoveDate(r) ==
  /\ Unlocked(Now(r))
  /\ nextDate' = [nextDate EXCEPT ![Now(r)] = MonthAfter(seen[r].date)]

BillDates(r) ==
  /\ pc[r] = "bill.dates" /\ MoveDate(r)
  /\ NextContract(r, IF payment[r] THEN "success" ELSE "partial_error")
  /\ UNCHANGED <<billingVars, tx, poisoned>>
  /\ InsideBilling

(* Any other stage that raises ends the contract, never the request; what   *)
(* the earlier stages wrote through the pool stays.                         *)
BillStageFails(r) ==
  /\ pc[r] \in BillingSteps \ {"bill.payment", "bill.commit", "bill.reply"}
  /\ NextContract(r, "error")
  /\ UNCHANGED <<nextDate, billingVars, tx, poisoned>>
  /\ InsideBilling

(* So does one whose write took effect although it raised.                  *)
BillStageTimesOut(r) ==
  /\ \/ /\ \/ pc[r] = "bill.movement" /\ InsertMovement(r)
           \/ pc[r] = "bill.items" /\ InsertItem(r)
           \/ pc[r] = "bill.link" /\ InsertLink(r)
        /\ UNCHANGED nextDate
     \/ pc[r] = "bill.dates" /\ MoveDate(r) /\ UNCHANGED movements
  /\ NextContract(r, "error")
  /\ UNCHANGED <<payments, notified, tx, poisoned>>
  /\ InsideBilling

(* Of a failed transaction COMMIT is a ROLLBACK that raises nothing.        *)
CommitPayments(r) ==
  payments' = IF poisoned[r] THEN payments ELSE
    [m \in DOMAIN payments \cup DOMAIN tx[r] |->
       IF m \in DOMAIN tx[r] THEN tx[r][m] ELSE payments[m]]

BillCommit(r) ==
  /\ At(r, "bill.commit")
  /\ CommitPayments(r)
  /\ Goto(r, "bill.reply")
  /\ tx' = [tx EXCEPT ![r] = <<>>]
  /\ UNCHANGED <<nextDate, movements, notified, seen, move, payment, poisoned,
                 results>>
  /\ InsideBilling

(* COMMIT raises, done or not: the ROLLBACK after it goes down the same     *)
(* connection, so that it is one or the other before the error is answered. *)
BillCommitFails(r) ==
  /\ At(r, "bill.commit")
  /\ CommitPayments(r) \/ UNCHANGED payments
  /\ Reply(r, "error")
  /\ tx' = [tx EXCEPT ![r] = <<>>]
  /\ UNCHANGED <<nextDate, movements, notified, seen, move, payment, poisoned,
                 results>>
  /\ InsideBilling

(* The request is answered with its results, and the notification of every  *)
(* movement they name is scheduled.                                         *)
BillReply(r) ==
  /\ At(r, "bill.reply")
  /\ notified' = notified \cup
       ({results[r][k].movement : k \in DOMAIN results[r]} \ {0})
  /\ Reply(r, "ok")
  /\ UNCHANGED <<nextDate, movements, payments, seen, move, payment, tx,
                 poisoned, results>>
  /\ InsideBilling

----------------------------------------------------------------------------
(* POST /contracts-recurring/:id/terminate                                  *)

BeginTermination(r, c) ==
  /\ Starts(r, "terminate", <<c>>)
  /\ seen' = [seen EXCEPT ![r] = ColumnsOf(c)]
  /\ Goto(r, IF active[c] THEN "term.update" ELSE "term.history")
  /\ UNCHANGED <<contractVars, lock, historyVars>>
  /\ OutsideBilling

(* Mutant: the request is answered before its history is written.           *)
TerminationAnswersEarly(r) ==
  /\ At(r, "term.update") /\ Unlocked(Now(r))
  /\ active' = [active EXCEPT ![Now(r)] = FALSE]
  /\ Reply(r, "ok")
  /\ UNCHANGED <<nextDate, value, operated, lock, historyVars, seen>>
  /\ OutsideBilling

(* repository.update ignores the client it is given.                        *)
Inactivate(r) ==
  /\ pc[r] = "term.update" /\ Unlocked(Now(r))
  /\ active' = [active EXCEPT ![Now(r)] = FALSE]

TerminationUpdate(r) ==
  /\ At(r, "term.update")
  /\ Inactivate(r)
  /\ Goto(r, "term.history")
  /\ UNCHANGED <<nextDate, value, operated, lock, historyVars, seen>>
  /\ OutsideBilling

(* The history, through the client, and COMMIT.                             *)
RecordTermination(r) ==
  /\ pc[r] = "term.history"
  /\ terminations' = [terminations EXCEPT ![Now(r)] = @ + 1]

TerminationHistory(r) ==
  /\ At(r, "term.history")
  /\ RecordTermination(r)
  /\ Goto(r, "term.reply")
  /\ UNCHANGED <<contractVars, lock, adjustments, seen>>
  /\ OutsideBilling

TerminationReply(r) ==
  /\ At(r, "term.reply")
  /\ Reply(r, "ok")
  /\ UNCHANGED <<contractVars, lock, historyVars, seen>>
  /\ OutsideBilling

(* The update or the COMMIT that raises may have taken effect.              *)
TerminationFails(r) ==
  /\ pc[r] \in {"term.update", "term.history"}
  /\ \/ Inactivate(r) /\ UNCHANGED terminations
     \/ RecordTermination(r) /\ UNCHANGED active
     \/ UNCHANGED <<active, terminations>>
  /\ UNCHANGED <<op, list>>
  /\ Reply(r, "error")
  /\ UNCHANGED <<nextDate, value, operated, lock, adjustments, seen>>
  /\ OutsideBilling

----------------------------------------------------------------------------
(* POST /contracts-recurring/:id/adjust-billing-date                        *)

SetDate(c, d) ==
  /\ Unlocked(c)
  /\ nextDate' = [nextDate EXCEPT ![c] = d]
  /\ operated' = operated \cup {c}

AdjustDate(r, c, d) ==
  /\ Starts(r, "adjustDate", <<c>>)
  /\ SetDate(c, d)
  /\ Goto(r, "date.history")
  /\ UNCHANGED <<active, value, lock, historyVars, seen>>
  /\ OutsideBilling

AdjustDateHistory(r) ==
  /\ At(r, "date.history")
  /\ Reply(r, "ok")
  /\ UNCHANGED <<contractVars, lock, historyVars, seen>>
  /\ OutsideBilling

(* The controller hands the error to a next it does not have: the handler   *)
(* rejects, and nobody answers the request. The date may be set by then.    *)
AdjustDateFails(r) ==
  /\ \/ At(r, "date.history") /\ UNCHANGED <<nextDate, operated>>
     \/ \E c \in Contracts :
          /\ Starts(r, "adjustDate", <<c>>)
          /\ (\E d \in Dates : SetDate(c, d)) \/ UNCHANGED <<nextDate, operated>>
  /\ Goto(r, "unanswered")
  /\ UNCHANGED <<active, value, lock, historyVars, seen>>
  /\ OutsideBilling

----------------------------------------------------------------------------
(* POST /contracts-recurring/:id/adjustment: the only one that locks        *)

BeginAdjustment(r, c) ==
  /\ Starts(r, "adjustment", <<c>>)
  /\ Goto(r, "adj.lock")
  /\ UNCHANGED <<contractVars, lock, historyVars, seen>>
  /\ OutsideBilling

(* Mutant: the contract is selected without FOR UPDATE.                     *)
AdjustmentSelect(r) ==
  /\ At(r, "adj.lock")
  /\ Goto(r, "adj.read")
  /\ UNCHANGED <<contractVars, lock, historyVars, seen>>
  /\ OutsideBilling

AdjustmentLock(r) ==
  /\ At(r, "adj.lock") /\ Unlocked(Now(r))
  /\ lock' = [lock EXCEPT ![Now(r)] = {r}]
  /\ Goto(r, "adj.read")
  /\ UNCHANGED <<contractVars, historyVars, seen>>
  /\ OutsideBilling

(* The new value is computed from a second read, through the pool.          *)
AdjustmentRead(r) ==
  /\ At(r, "adj.read")
  /\ seen' = [seen EXCEPT ![r] = ColumnsOf(Now(r))]
  /\ Goto(r, "adj.write")
  /\ UNCHANGED <<contractVars, lock, historyVars>>
  /\ OutsideBilling

(* Value, items, total and history, all through the client, and COMMIT.     *)
CommitAdjustment(r) ==
  /\ pc[r] = "adj.write"
  /\ value' = [value EXCEPT ![Now(r)] = seen[r].value + 1]
  /\ adjustments' = [adjustments EXCEPT ![Now(r)] = @ + 1]

AdjustmentCommit(r) ==
  /\ At(r, "adj.write")
  /\ CommitAdjustment(r)
  /\ lock' = [lock EXCEPT ![Now(r)] = @ \ {r}]
  /\ Reply(r, "ok")
  /\ UNCHANGED <<nextDate, active, operated, terminations, seen>>
  /\ OutsideBilling

(* Mutant: after the ROLLBACK the adjustment is tried again.                *)
AdjustmentRetries(r) ==
  /\ pc[r] \in {"adj.lock", "adj.read", "adj.write"}
  /\ lock' = [lock EXCEPT ![Now(r)] = @ \ {r}]
  /\ Goto(r, "adj.lock")
  /\ UNCHANGED <<op, list, contractVars, historyVars, seen>>
  /\ OutsideBilling

(* A COMMIT that raises may have taken effect: with or without it the lock  *)
(* is released.                                                             *)
AdjustmentFails(r) ==
  /\ pc[r] \in {"adj.lock", "adj.read", "adj.write"}
  /\ CommitAdjustment(r) \/ UNCHANGED <<value, adjustments>>
  /\ lock' = [lock EXCEPT ![Now(r)] = @ \ {r}]
  /\ Reply(r, "error")
  /\ UNCHANGED <<op, list, nextDate, active, operated, terminations, seen>>
  /\ OutsideBilling

----------------------------------------------------------------------------
(* PUT /contracts-recurring/:id writes the columns of its body, and may     *)
(* answer an error all the same                                             *)

UpdateContract(r, c) ==
  /\ Starts(r, "put", <<c>>)
  /\ Reply(r, "ok") \/ Reply(r, "error")
  /\ \/ /\ Unlocked(c)
        /\ \/ \E d \in Dates : nextDate' = [nextDate EXCEPT ![c] = d]
           \/ UNCHANGED nextDate
        /\ \E s \in BOOLEAN : active' = [active EXCEPT ![c] = s]
        /\ \/ value' = [value EXCEPT ![c] = 0]
           \/ UNCHANGED value
        /\ operated' = operated \cup {c}
     \/ reply'[r] = "error" /\ UNCHANGED contractVars
  /\ UNCHANGED <<lock, historyVars, seen>>
  /\ OutsideBilling

----------------------------------------------------------------------------
(* pm2 restarts the process: its transactions are rolled back.              *)
Crash ==
  /\ crashes < MaxCrashes
  /\ crashes' = crashes + 1
  /\ pc' = [r \in Requests |-> IF pc[r] \in Ended THEN pc[r] ELSE "dead"]
  /\ lock' = [c \in Contracts |-> {}]
  /\ UNCHANGED <<contractVars, historyVars, billingVars, op, list, seen, move,
                 payment, tx, poisoned, results, reply>>

BillingStep(r) ==
  \/ \E cs \in Lists : BeginBilling(r, cs)
  \/ BillFind(r) \/ BillMovement(r) \/ BillItem(r) \/ BillPayment(r)
  \/ BillLink(r) \/ BillDates(r) \/ BillStageFails(r) \/ BillStageTimesOut(r)
  \/ BillCommit(r) \/ BillCommitFails(r) \/ BillReply(r)

TerminationStep(r) ==
  \/ \E c \in Contracts : BeginTermination(r, c)
  \/ TerminationUpdate(r) \/ TerminationHistory(r) \/ TerminationReply(r)
  \/ TerminationFails(r)

AdjustDateStep(r) ==
  \/ \E c \in Contracts, d \in Dates : AdjustDate(r, c, d)
  \/ AdjustDateHistory(r) \/ AdjustDateFails(r)

AdjustmentStep(r) ==
  \/ \E c \in Contracts : BeginAdjustment(r, c)
  \/ AdjustmentLock(r) \/ AdjustmentRead(r) \/ AdjustmentCommit(r)
  \/ AdjustmentFails(r)

RequestStep(r) ==
  \/ BillingStep(r) \/ TerminationStep(r) \/ AdjustDateStep(r)
  \/ AdjustmentStep(r)
  \/ \E c \in Contracts : UpdateContract(r, c)

Next == (\E r \in Requests : RequestStep(r)) \/ Crash

Spec == Init /\ [][Next]_vars

(* Every statement is answered, or fails after its 20 s query_timeout.      *)
Fairness == \A r \in Requests : WF_vars(RequestStep(r) /\ pc[r] # "idle")

FairSpec == Spec /\ Fairness

----------------------------------------------------------------------------
(* Every variable keeps its type.                                           *)
TypeOK ==
  /\ nextDate \in [Contracts -> Date]
  /\ active \in [Contracts -> BOOLEAN]
  /\ value \in [Contracts -> Nat]
  /\ lock \in [Contracts -> SUBSET Requests]
  /\ movements \in Seq(Movement)
  /\ DOMAIN payments \subseteq DOMAIN movements
  /\ payments \in [DOMAIN payments -> {"full", "bare"}]
  /\ terminations \in [Contracts -> Nat]
  /\ adjustments \in [Contracts -> Nat]
  /\ operated \subseteq Contracts
  /\ notified \subseteq DOMAIN movements
  /\ op \in [Requests -> AllOps \cup {"none"}]
  /\ pc \in [Requests -> PCs]
  /\ list \in [Requests -> Seq(Contracts)]
  /\ \A r \in Requests :
       pc[r] \notin Ended \cup {"bill.commit", "bill.reply"}
         => list[r] # <<>>
  /\ seen \in [Requests -> Seen]
  /\ move \in [Requests -> Nat]
  /\ payment \in [Requests -> BOOLEAN]
  /\ tx = [r \in Requests |-> tx[r]]
  /\ \A r \in Requests : tx[r] \in [DOMAIN tx[r] -> {"full", "bare"}]
  /\ poisoned \in [Requests -> BOOLEAN]
  /\ results \in [Requests -> Seq(Result)]
  /\ reply \in [Requests -> {"none", "ok", "error"}]
  /\ crashes \in 0..MaxCrashes

(* The movements a request has created, and those its results name.         *)
CreatedBy(r) == {m \in DOMAIN movements : movements[m].by = r}

(* Billing never skips a month: a contract first billed on a day that every *)
(* month has, and whose date no operator has set, has a movement for every  *)
(* month before its next billing date, however many requests bill it at     *)
(* once, from stale dates, or fail half way                                 *)
(* (contract-recurring.service.js:330-380).                                 *)
MonthsBilled(c) ==
  \A k \in FirstDate[c].month..(nextDate[c].month - 1) :
    \E m \in DOMAIN movements :
      movements[m].contract = c /\ movements[m].date.month = k

NoMonthSkipped ==
  \A c \in Contracts \ operated :
    FirstDate[c].day <= 28 => MonthsBilled(c)

(* What a result names is whole, and so is what a client is notified of:    *)
(* the movement has its items and its link to the contract, and, when the   *)
(* result is a success, the transaction is committed and no statement in it *)
(* has failed, its payment with every installment                           *)
(* (contract-recurring.service.js:53-196).                                  *)
Whole(m) == movements[m].items = ItemCount /\ movements[m].linked

ResultsAreWhole ==
  /\ \A m \in notified : Whole(m)
  /\ \A r \in Requests : \A k \in DOMAIN results[r] :
       LET m == results[r][k].movement
       IN m # 0 =>
            /\ m \in CreatedBy(r)
            /\ Whole(m)
            /\ results[r][k].status = "success" /\ reply[r] = "ok"
                 /\ ~poisoned[r] => Paid(m)

(* The payments of one billing become visible together, and only when it    *)
(* has dealt with its whole list: as soon as one of them is there, no       *)
(* statement of the transaction has failed and every contract the billing   *)
(* noted as a success has its own. So it is while the answer is still on    *)
(* its way, after a restart that leaves the client without one, and when    *)
(* the COMMIT raised but took effect (contract-recurring.service.js:153,    *)
(* 187): such a billing leaves all of its payments or none.                 *)
PaidTogether ==
  \A m \in DOMAIN payments :
    LET r == movements[m].by
    IN /\ list[r] = <<>> /\ ~poisoned[r]
       /\ \A k \in DOMAIN results[r] :
            results[r][k].status = "success" => Paid(results[r][k].movement)

(* No adjustment of a contract's value is lost, and none is without its     *)
(* history, although the value is read on another connection than the one   *)
(* that locks and writes it (contract-recurring.service.js:866-1010). A PUT *)
(* may have replaced the value of the contracts in operated.                *)
AdjustmentsNotLost ==
  \A c \in Contracts \ operated : value[c] = adjustments[c]

(* Though the status of a contract commits before the history that explains *)
(* it, terminations and their histories stay together: there is a row for   *)
(* each termination answered with success, and none but for those that came *)
(* to their COMMIT; a contract one of them ended stays inactive, whatever   *)
(* bills, moves or adjusts it; and one that is inactive has a termination   *)
(* to account for it, which completed, is about to write its row or to be   *)
(* answered, or has failed                                                  *)
(* (contract-recurring.service.js:1543-1644). A PUT may set the status of   *)
(* the contracts in operated.                                               *)
TerminationOf(r, c) == op[r] = "terminate" /\ list[r] = <<c>>
Successes(c) == {r \in Requests : TerminationOf(r, c) /\ reply[r] = "ok"}
CameToCommit(c) ==
  {r \in Requests : TerminationOf(r, c)
     /\ (pc[r] \in {"term.reply", "dead"} \/ reply[r] # "none")}

TerminationsOnRecord ==
  /\ \A c \in Contracts :
       /\ Cardinality(Successes(c)) <= terminations[c]
       /\ terminations[c] <= Cardinality(CameToCommit(c))
  /\ \A c \in Contracts \ operated :
       /\ Successes(c) # {} => ~active[c]
       /\ ~active[c] => \E r \in Requests :
            /\ TerminationOf(r, c)
            /\ \/ pc[r] \in {"term.history", "term.reply", "dead"}
               \/ reply[r] # "none"

(* While the process lives every request comes to its end: nobody waits     *)
(* forever for a contract an adjustment has locked (lines 866-1011), and no *)
(* failure makes a billing go round. The requests that AdjustDateFails      *)
(* abandons end too, without an answer.                                     *)
EveryRequestEnds == \A r \in Requests : pc[r] # "idle" ~> pc[r] \in Ended

----------------------------------------------------------------------------
(* What comments of the source say, and the code does not do                *)

(* contract-recurring.service.js:342: the date moves one month after "o     *)
(* atual", so that a month is billed once.                                  *)
OneBillingPerMonth ==
  \A m, n \in DOMAIN movements :
    /\ movements[m].contract = movements[n].contract
    /\ movements[m].date.month = movements[n].date.month
    /\ movements[m].linked /\ movements[n].linked
    /\ movements[m].contract \notin operated
    => m = n

=============================================================================
