# Verification of finance-api

finance-api is a Node.js/Express service over PostgreSQL that bills customers: it
creates *movements* (sales), splits their payment into *installments*, has a *boleto*
(bank slip) issued for each installment through the external workflow engine N8N, and
registers payments and cancellations. One process serves every request; everything
happens between two `await`s of its event loop, in `setTimeout` callbacks, or at N8N
and the bank.

Paths below are relative to the repository; line numbers are those of the modelled
commit.

## 1. Inventory

| Component | State | Operations | Talks to |
|---|---|---|---|
| movements (`src/modules/movements`) | table `movements` (status 2 open, 99 cancelled) | create (one transaction), cancel, update, create boletos, notify | payments, installments, boletos, N8N |
| movement payments (`movement-payments`) | `movement_payments` | create, inside or outside a transaction | installment generator |
| installments (`installments`) | `installments`, receipts | generate, register payment, generate/cancel boletos, edit due date | boletos, N8N, database functions |
| boletos (`boletos`) + `services/n8n.service.js` | `boletos` (rows inserted by N8N), timers in memory | create (5 s timer, then POST to N8N), cancel, overwrite status | N8N, bank |
| transactions (`repositories/base/BaseRepository.js`) | a client of the pool | BEGIN / callback / COMMIT or ROLLBACK | all repositories |
| movement items (`movement-items`) | `movement_items`, total of the movement | add, change, recompute the total (removal always fails) | movements, contracts |
| recurring contracts (`contracts-recurring`, `contract-movements`) | `contracts_recurring` with its billing dates | bill, adjust, terminate, edit a template item | movements, items, payments |
| tasks (`tasks`) | `tasks`, task logs, in-memory counters of the worker | create, poll, process, change, delete | logs, dependencies, boletos |
| task dependencies (`taskdependencies`) | edges between tasks | add (with a check for cycles), activate, remove | tasks |
| auth and tokens (`auth`, `tokens`) | refresh token, temporary tokens | login, refresh, validate, find-or-create | users |
| addresses, contacts, persons, documents, items, services, payment methods, users, licenses | one table each, some behind a cache | create, read, update, delete | – |
| chat and messages (`chat`, `messages`) | chats, messages, statuses | find-or-create, send, webhook status | providers |
| invoices and NFS-e (`invoices`, `nfse`) | invoices, their events, the PDF's address | emit, update the status from the issuer, store the PDF, delete | external issuer |
| cache, web socket, health, metrics; legacy controllers; `newArch` | – | infrastructure and older code | – |

What is hard in this code:

* **Interleaving.** Handlers read, `await`, then write, without locks: the check that a
  movement is not cancelled, the count of an installment's boletos and a contract's
  next billing date are all stale when they are used.
* **Effects that outlive a transaction.** `createBoleto` arms a timer inside the
  transaction of the movement; a rollback does not disarm it. The answer to an
  emission is `success` before anything is issued.
* **Swallowed errors.** A failed statement poisons a PostgreSQL transaction; code that
  catches the error and goes on later "commits" a rollback.
* **Partial failure of parallel calls.** `Promise.all` rejects at the first failure
  while the remaining calls continue after the request has been answered.
* **N8N and the bank.** They may refuse, answer with no body, answer late, or cancel
  after the 10 s timeout; `n8n.createBoleto` waits without a timeout.
* **Work in the background.** The worker of the tasks works through a batch it read once,
  beside the requests that change the same rows; a PDF job runs on after the request that
  started it has been answered.
* **Transactions that are none.** The emission of a note and the edit of a template item
  open one, and run their statements through the pool.
* **Restarts.** pm2 restarts the process (`ecosystem.config.js`): timers, open
  transactions and requests being served are lost, N8N's work is not.

The hazards, line by line, are in `PROJECT.json`.

## 2. The plan

Order of work: what moves money first, then what decides when it moves, then what the
requests share, then the background work.

| Step | Module | Composes | Status |
|---|---|---|---|
| 1 | `Boletos`: what the boleto component promises | – | done, proved |
| 2 | `MovementBilling`: the handlers of one movement | `Boletos`, which it implements | done, proved but for liveness |
| 3 | `Calendar`, `BillingCalendar`: the dates of a contract | `Calendar` | done, proved |
| 4 | `ContractBilling`: requests that bill and change contracts | `Calendar` | done, proved |
| 5 | `ConnectionPool`: the clients all requests share | – | done, proved |
| 6 | `TaskQueue`: what the queue of tasks promises | – | done |
| 7 | `Tasks`: the worker, the requests, the dependencies with their check for a cycle | `TaskQueue`, which it implements | done, proved |
| 8 | `Nfse`: emission, status updates and PDF jobs of service invoices | – | done, proved but for liveness |
| 9 | `MovementItems`: items, the total of their movement, the value of the contract | – | done, proved |

Not followed up, with the reasons in section 8: the rotation of refresh tokens, the main
address, find-or-create of chats, the split of an amount into installments.

Abstract specifications worth stating: `BoletoSpec` (done); an idempotent emission, one
boleto per installment, which the code does *not* implement (`billing_oneboleto`); for
contracts "one bill per contract and month", which it does not implement either
(`contracts_twice`); for the tasks, the queue `TaskQueue` (done), which says that only pending
tasks are claimed, only claimed ones are settled, and a removed one stays removed.

Every invariant and every action property that a run checks is proved, and some theorems say
what no run can, since they speak of every instance (section 6). What would come next: a
payment added to an existing movement; the discounts and the scaling of items in `MovementItems`.

## 3. The modules and the code

**Conventions.** An action is what a handler does between two `await`s, or a statement of
PostgreSQL together with what the handler does next, when no other request can see the
difference. `pc[r]` is the await a request stands at; the constant `Requests` is the set of
requests, each of which performs one operation, once. `Starts`, `At`, `Goto` and `Reply`
say how a request begins, goes on and is answered. A statement that raises is an action,
or a disjunct, of its own. Restarts come from pm2. Definitions whose comment begins with
"Mutant" are not part of any specification: they are plausible bugs, with which the
properties were shown to be able to fail.

**`Boletos`** (boleto.service.js, boleto.repository.js, n8n.service.js). `timers` are the
armed `setTimeout`s of `createBoleto`, apart for those armed while the movement is being
created; `posting` the requests N8N has not answered; `boletos` the table, whose rows N8N
inserts; `bank` of a row is what the bank knows, which the program cannot read. It is the
abstract specification of the component: it does not say who calls it. `FireTimer` is
the callback, `N8nIssues` and `N8nRefuses` are N8N's part, `MarkCancelled` is the write of
`cancelBoleto` with the promise that the bank has cancelled before, `PutBoleto` is the PUT
that takes any status, `LoseTimers` a restart.

**`MovementBilling`** (movement.service.js, installment.service.js,
installment.generator.js) adds one movement, the transaction that creates it with its N
installments, the notification of 13 s, and seven operations that requests perform on it:
cancel the movement, create its missing boletos, generate one boleto, register a payment
(and cancel the boleto afterwards), cancel the boletos of an installment, PUT the movement,
PUT a boleto. A failed statement of the creation sets `poisoned`, as PostgreSQL fails a
transaction: the generator swallows the error of `buscarPayloadBoleto`, so the next insert
raises, or COMMIT is a rollback that raises nothing. `cancelMovement` is modelled down to
the single N8N call: `call[r][b]` is where the cancellation of a boleto stands and
`outcome[r][i]` what `Promise.all` knows of an installment; calls go on after the request
has been answered. N8N may cancel and answer, cancel and answer nothing, cancel and have
its answer lost or late, or refuse. COMMIT, and the write that confirms a cancellation, may
raise and have taken effect all the same.

**`Calendar`** is the `Date` of JavaScript over months numbered from January 2000: `DateOf`
overflows into the next month as `new Date(y, m, d)` and `setMonth` do.
**`BillingCalendar`** bills one contract again and again on days that only move forward:
`DueDate` is `calculateBillingDueDate`, `Reference` is `formatBillingReference`, `Bill` is
`billingPrepareData` with `UpdateBillingDates`. Its first date is one that an operator set: the
contract's creation sets none.

**`ContractBilling`** (contract-recurring.service.js and its repositories). Each request has
a client of its own, but most of its statements run through the pool and commit at once; the
model keeps apart what is committed (`movements`, `nextDate`, `active`, `value`), what waits
for a COMMIT (`tx`) and what the request has read (`seen`). `BillFind` to `BillDates` are the
stages of one contract, `BillStageFails` the `catch` of one contract, `NextContract` the turn
of the loop. COMMIT and answer are two steps (`BillCommit`, `BillReply`; `TerminationHistory`,
`TerminationReply`), with room for a restart between them, and whatever raises, the COMMIT
included, may have taken effect (`BillStageTimesOut`, `BillCommitFails`, `TerminationFails`).
`lock` is the one `SELECT ... FOR UPDATE` of the code. PUT and
adjust-billing-date set dates to anything: `operated` remembers where, and the properties
about dates and values speak of the other contracts.

**`ConnectionPool`** (config/database.js, BaseRepository.transaction and the handlers that
hold a client). `own` is the client of a transaction, `extra` the one of a statement run
through the pool meanwhile, `queue` the waiters of pg-pool. `Timeout` is
`connectionTimeoutMillis`; a billing survives it and goes on with its client held. `NestedOf`
says how many statements each handler runs through the pool meanwhile.

**`TaskQueue`** is the queue seen from outside, with two variables: the status of each task
and the tasks the worker has claimed. **`Tasks`** (task.worker.js, task.service.js,
task.repository.js, taskdependencies.service.js and repository) is what the code does: `Poll`,
`Attempt` and `Sleep` are the loop; `UpdateFind`, `UpdateLog` and `UpdateWrite` the three
statements of `TaskService.update`, which worker and PUT share; `Delete`, `Dependents` and
`Remove` those of a deletion; `Check` and `Insert` the two of a new dependency. `failures` is
the one counter of the worker, `StatementFails` and `Restart` what ends a round. The processor
always throws (it updates `task.id`, a field no row has), so every attempt is a failure.
`Reaches` says what the recursive query of the check computes by the closed sets of tasks,
since a recursive definition could not be used in a proof. Three history variables say what a
property excuses: `raced` that a dependency became active after the last check, `fresh` that
none has, `owed` which tasks have been submitted and not attempted. The dependencies have the
columns that the code names (`depends_on_task_id`, `active`); the script
add_task_columns.sql creates the table with other ones.

**`Nfse`** (nfse.service.js, nfse.repository.js, nuvem-fiscal.service.js). `remote` is the
status at the issuer, which moves on by itself; `emission` the insert at which an emission
stands, `rows` what it has inserted. Nothing is in a transaction: an insert that fails leaves
those before it. An update is seven awaits, from `UpdateRead` and `UpdateAsk` to `UpdateEvent`
and `UpdateReread`, each a statement that commits by itself and may fail; `job` is the PDF job
an authorisation starts, or that a request for the PDF runs. Every emission ends in an error:
after its rows (`FirstRows`) have been stored the service inserts an invoice and a note a second time
(`criarNfse`, `SecondRows`), without the issuer's id, and reads an id that the answer does not have.

**`MovementItems`** (movement-item.service.js and repository, contract-recurring.service.js
from 1197). A price is kept as the pair of its factors and a sum as the function of the prices
it adds up, so that two amounts are equal only when they were computed from the same. `Find`
and `Write` are the PUT of an item, `Sum` and `SetTotal` the statement that brings the total of
the movement up to date: under READ COMMITTED its subqueries see the items as of its start,
though the row of the movement may be written much later. An update runs it twice, a POST once.
`Add` and `SetValue` are what the edit through the contract does next. `Ends` answers a request
whose last statement has taken effect: with success, or with the error of a client that no longer
waited for it. `overlapped`, `zeroed`,
`crossed` and `left` remember the events after which the sums may differ.

**What a raised error leaves behind.** The client gives a statement up after `query_timeout`
(20 s), the server only after `statement_timeout` (30 s, config/database.js:36-37), and a
connection may break before the answer: a statement that raises may have taken effect. In
`ContractBilling`, `MovementBilling`, `MovementItems` and `Nfse` it may, by a disjunct of its own or
as the step followed by the failure of the next one; the effect is there by the time the error is
seen. In `Tasks` a failure after `UpdateLog` or `UpdateWrite` says the same; that a request was
answered with an error after its `Insert`, `Remove` or `Create` is not told apart from success, as
no property reads that answer, and neither is it for the PUTs of `MovementBilling`.

**What is assumed of the outside.** What N8N and the issuer answer is not in the repository.

* An answer of N8N with a status 2xx and a body that is not empty means that the bank has
  cancelled: boleto.service.js:372 and installment.service.js:407 look no further, and write CANCELADO
  or report success. `CancelledMeansCancelledAtBank`, `CleanCancelReachesBank` and what
  `Boletos_proofs` and `MovementBilling_proofs` say of cancellations rest on it. An answer without
  a body promises nothing and is modelled as such.
* The first status of a note is `processando`, as in the answer the repository keeps as an example
  (nuvem-fiscal-nfse-response-example.json:4) and as nfse.service.js:754 expects. The code stores
  whatever status comes; of a note authorised at once it would never fetch the PDF, since only a
  change of status starts the job.

## 4. The runs

TLC checks for deadlock nowhere: requests are one-shot and a system in which all have been
answered has really stopped. Whether anyone waits forever is a liveness property instead.
Requests are symmetric and `SYMMETRY` is used only in runs without liveness.

| Run | Bounds | What it shows |
|---|---|---|
| `billing_all` | 1 installment, 3 requests, all operations, 1 restart | types; each accepted emission issues at most one boleto; CANCELADO means cancelled at the bank; a clean cancellation reached the bank; a boleto is cancelled there on demand only, by payments never more often than they are recorded; recorded payments; the module implements `BoletoSpec` |
| `billing_live` | 2 installments, 1 request, all operations, 1 restart | a movement is visible with all its installments or not at all; requests emit only for committed rows; while the process lives every request is answered although N8N may be silent, timers run and the notification is sent |
| `billing_oneboleto` | 1 request | violation, section 7 |
| `billing_cancelall` | 1 installment, 3 requests that generate a boleto or cancel those there are | violation, section 7 |
| `contracts_all` | 1 contract, 2 requests, all operations, 1 item, 1 restart, lists that name it twice in all (`MaxBilled`) | types; adjustments are not lost; no month is skipped; what is reported or notified is whole; the payments of a billing become visible together, when it has dealt with its list; terminations and their histories agree; every request ends |
| `contracts_twice` | 1 contract, 2 requests | violation, section 7 |
| `calendar_due` | 6 due days, first dates in January, 4 bills on days from December to March | due dates lie ahead, come in order, and the reference is the month before |
| `pool_live` | 2 clients, 3 requests, up to 3 nested statements | no client is lost or shared; the wait of handlers for one another always ends; a stall takes as many transactions as the pool has clients |
| `tasks` | 3 tasks and room for a fourth, 3 dependencies and room for 2 more, 2 requests, batches of 2, counter up to 2, 1 fault or restart | types; a status is in the log before it is in the task; a cycle needs a race; each submission is attempted once; every pending task is taken; the module implements `TaskQueue` |
| `tasks_retry` | 3 tasks, 2 requests, no fault | violation, section 7 |
| `nfse` | 1 note, 2 requests, 1 restart, any insert or statement failing | types; a status shown has its event; it never falls back; an answer is recorded; the PDF follows an authorisation |
| `items` | 2 items, 2 requests, quantities and prices 0 and 1, any items to begin with, any statement failing | types; a price is the product of its columns; the total and the contract's value follow the items |

Why these bounds are enough. Every conflict the code allows is between two requests on one
row; the third request of `billing_all` lets an emission be issued while two cancellations
of the movement overlap; two installments, in `billing_live`, let a rollback fall between rows and
`Promise.all` wait for two. A contract interferes with no other but through the one transaction
of a billing, so that a list that names one contract twice shows what a list of two would.
`MaxBilled` bounds what all lists together name: two billings of one contract overlap, or one
billing of a list meets any other operation; the theorems hold for any lists, any bound and any
number of requests. Two
clients and three requests are the smallest pool on which two handlers can each hold one and
wait while a third stands in the queue. January to March covers a month of 28 or 29 days, of
31 and the turn of a year. One restart is enough for each kind of loss, since a restart
forgets everything in memory. Three tasks make
the shortest cycle that the first level of the check does not show, a batch of 2 leaves one task
outside, and the fourth task and the two dependencies are what two requests can add. Notes are
independent of each other, and two requests are what it takes for a stale status, an event or a
job to meet another. An item interferes with a second one only in the sums; 0 is the value
that the code treats as missing, and 1 one that it does not. For the properties with a theorem
the bounds do not matter.

## 5. Fairness

* `MovementBilling`: weak fairness for the steps of a request and of a creation that has
  begun, the timers, the notification and the answers to cancellations. The event loop runs what
  is ready; a statement is answered or fails after `query_timeout` (20 s,
  config/database.js:37); `cancelBoleto` of n8n.service.js has a timeout of 10 s, so that silence
  is an answer too. Nothing is assumed of `n8n.createBoleto`, which has no timeout: it may stay
  in `posting` forever. Nor must a client send a request.
* `ContractBilling`: weak fairness for the steps of a request that has started, for the same
  reason; a wait for a row lock ends when its holder commits or fails.
* `ConnectionPool`: weak fairness for the steps of a request and for `Timeout`. None for
  `Grant`: nobody is sure to get a client before its time is up, so the properties hold
  through the timeout alone.
* `Tasks`: weak fairness for the worker as one process and for the started steps of each
  request. The loop `while (this.isRunning)` sleeps 5 to 10 s and goes on after any error; a
  statement ends or times out. A fault is never forced, and there are finitely many. Nothing is
  assumed of the requests that are to be sent: `PendingIsTaken` holds because the worker comes
  round.
* `Nfse`: weak fairness for the inserts of an emission and for the awaits of an update and of a
  PDF job, each of which ends or fails. None for the issuer or the arrival of a request.
* The liveness properties of requests say "while the process lives": a restart ends what it
  finds, unanswered. The runs of the movement, the contracts, the tasks and the notes have one.

## 6. What is proved

The theorems hold for every number of installments, requests, clients, contracts and restarts and for
every set of operations; the assumptions are the named ones of the modules, which TLC
evaluates in each run.

* **`Boletos_proofs`.** `BoletoTypeCorrect`; `EmissionOnce` by induction on
  `EmissionAtMostOnce` itself, each action moving one emission from accepted to armed to asked
  for to issued; `CancelledIsCancelled`, inductive with the type invariant since the bank never
  takes a cancellation back. The lemmas on the table say what an update of a row leaves alone.
* **`MovementBilling_proofs`.** The central invariant is `TypeOK /\ CallsReachBank`: a call in
  phase accepted or confirmed is about a boleto that the bank has cancelled. Without it the step
  `CancelConfirm` would be a `WriteCancelled` that the abstract module does not allow. With it
  each step is a step of `Boletos` or leaves `boletoVars` alone (`StepImplements`), which gives
  `BillingImplementsBoletos`, and with it `BillingEmitsOnce` and `BillingCancelledIsCancelled`
  from the theorems of the abstract module. `CreationIsAllOrNothing` needs `CreationStands`: the
  rows stay absent until the commit. `CleanCancelIsClean` needs `OkIsSettled`: an installment
  reported without error has only calls that are confirmed or were answered with nothing, and
  they stay so. The last three rest on `OnCourse`, which says which steps belong to which
  operation and that a request that has not started has called nobody: with it
  `BoletosCancelledOnDemand` counts the payments that have sent a boleto against those recorded (only
a request past its COMMIT sends one, `CallsLast` and `PaymentsInvariant`), and needs that what the
bank has cancelled was sent by a call that is still on record (`BankInvariant`); `RequestsEmitCommitted` needs `ListsCommitted`, that
  what a request has still to look at or to emit is committed; and `PaymentsAreRecorded` counts:
  between the requests that stand by a payment (`GoingOn`) and those that asked for one lie the
  receipts, and one step moves at most one request into either set. The same counting gives
  `EmissionsAreAskedFor`, which says how far `billing_oneboleto` (section 7) can go: emissions are
  counted against the requests that are done with the installment (`EmissionsCounted`), and one that
  is in a list of a request is in no other list of it (`ListsApart`), so that a second boleto takes a
  second asker (`BoletosAreAskedFor`). `RequestsComeNearer` is what of `EveryRequestAnswered` needs
  no fairness: each step of a request, and each answer of N8N to it, lowers a measure of the awaits
  to come, the installments of its loop and its open calls; no step of another raises it; and a
  loop or a wait always has a step that ends it (`LoopsHaveWork`, `SomethingToDo`).
* **`BillingCalendar_proofs`.** `Dated`: each bill moves the next date at least one month on, so
  that two bills k apart are k months apart, while a due date lies in the month billed or in the
  one after it when the due day is one every month has. `DueDatesLieAhead` and `TypeCorrect` hold for
  every due day. `OneMonthSkippedAtMost`: a date that overflows falls on the first days of a month,
  which every month has, so that no contract loses more than one month in its life.
* **`ConnectionPool_proofs`.** `ClientsAccounted` with `ClientsPlaced`, which says at which step a
  request can hold which client; the lemmas `Joining`, `Leading` and `Leaving` say what the three
  operations on the queue do to the set of those who wait. `StallTakesTransactions` is the
  pigeonhole principle: with no client free and no statement under way each client belongs to a
  transaction, and no transaction has two (`OneClientEach`). `RequestsStayOnTheWay` gives the
  measure behind `EveryRequestAnswered`: a request that has come can go on itself or stands in the
  queue, where its time runs out, and each of its steps brings it nearer to its answer
  (`StepsToAnswer`: three per statement at most and two), while those of others leave it where it is.
* **`ContractBilling_proofs`.** `ContractTypeCorrect` with `MovesPlaced`: the movement a request
  works on is in the table and is its own. `AdjustmentsStay` needs `LocksHeld`: an adjustment
  past its `SELECT ... FOR UPDATE` is alone in the lock, so that the value it read through the
  pool is still the value of the row when it writes. `BillingSkipsNoMonth` needs `DatesReached`,
  which speaks of the stale dates too: every date in a row, *and every date a request has read*,
  has all months before it billed, and a request past `BillMovement` has billed the month it read.
  `BillingResultsWhole` and `BillingPaysTogether` share the
  invariant `BillingsSound`: the movement at hand is never whole before its last stage, so no
  stage disturbs one that a result names; until the COMMIT each success has its payment in the
  transaction of the request unless a statement has failed it, and no payment of that request is
  visible; and a transaction holds payments of its own movements only, so that no commit
  replaces the payment of another request. `TerminationsAreOnRecord` needs `TermsSound`, which
  says of a termination where it stands between the status and the history.
  `OnceWhenOneAtATime` gives the cause of `contracts_twice` (section 7): a contract is billed once a
  month if its billings do not overlap (`OneAtATime`) and the date is written after each link
  (`DatesFollow`). The theorem has both as hypotheses because the code sees to neither, and TLC
  refutes it without either of them; the invariant is `MonthsApart`. `LocksAreInUse` and
  `EveryStepAdvances` are what of `EveryRequestEnds` needs no fairness: the holder of a lock is never
  itself waiting for one, and each step of a request lowers a measure of contracts and stages that no
  step of another raises.
* **`Tasks_proofs`.** `TypeCorrect` with `Places`, `Calls` and `Hands`: which caller can stand
  where, and that a worker in the midst of an update holds the task in its batch.
  `LogComplete` needs that a caller about to write has the status in the log already, or found
  it there (`Logged`). `NoCycleWithoutRace` needs `Checked`: while nothing has become active
  since the check of a request, the task it needs does not reach the task that is to need it;
  the lemmas on `Reaches` show that an edge put into an acyclic graph under that condition
  closes no cycle. `OnceForEachSubmission` needs `Owed`: what is in the batch and not at hand is
  owed an attempt. `ImplementsQueue` maps each statement to an action of `TaskQueue` or to a stutter.
  `RetriesAreAskedFor` gives the cause of `tasks_retry` (section 7): the batch has no task that was
  put aside (`PutAside`), so that only requests move such a task. `FewTasksRetry` says how many there
  can be: the counter of failures is one for all tasks and nothing resets it (`RetriesCounted`).
  `WorkerComesNearer` is what of `PendingIsTaken` needs no fairness: each step of the worker lowers
  the pending tasks, then the tasks of its batch that a request has changed, then what is left of
  its round, whichever tasks the limit lets it read; only requests add to the pending ones.
* **`Nfse_proofs`.** `ShownStatusHasEvent` is inductive with `TypeOK` and `Places`, which
  says where an emission and a request can stand and what rows there are by then. `StatusMovesOn` and
  `AnswersAreRecorded` share `Ages` and `Tracks`: what a request has seen is no further than the
  issuer is, and as long as it is alone with its note (`Alone`) what it read here is what stands
  here. `WhatIsShownWasIssued` needs `Carried`, which says the same of a status on its way here and
  of what a PDF job has checked. `RowsAreInOrder` and `OrphansStayAsTheyAre` say what a failed insert
  or a deletion leaves: the rows up to the insert, and an invoice that nothing touches any more.
  `AuthorisationsAreInHand` is `PdfFollows` without the fairness: an authorisation that is shown has
  its PDF, a job at work on it or an update about to start one, but for the excuses `PdfFollows`
  names. It is inductive for a note as soon as an update is *about to write* the authorisation
  (`NotedInHand`), and needs that no note is inserted a second time (`NotePlaced`) and, for a job that
  finds the note no longer authorised, that what is shown was issued.
* **`MovementItems_proofs`.** `Products`: with `Fresh`, which says that what a lone update found
  is what stands in the row, the product it writes is that of the columns. `Sums`: a sum that a
  request holds is that of the items as they are unless a row was written since, in which case
  `crossed` says so.

The theorems on the emissions asked for, on the month skipped, on what a note shows and leaves and who
makes its PDF, on billing one at a time, on the locks, on retries and on the steps that bring an
answer or the end of the queue nearer have no run of their own; TLC checked what they state on the
instances of section 4 before they were proved.

Only model-checked: the liveness properties, which are out of the prover's reach
(`EveryRequestAnswered` and `TimersRun` of the movement, `EveryRequestEnds` of the contracts,
`EveryRequestAnswered` of the pool, `PendingIsTaken`, `PdfFollows`). Of all but `TimersRun` the part
that needs no fairness is proved, as said above: a measure that each step lowers and that no other
process raises (for the tasks, only the requests do), or, for the PDF, who has it in hand. What
remains is that the steps are taken.

## 7. Where the code does not do what its texts say

1. `billing_oneboleto`: "Criar boletos para parcelas sem boleto" (movement.service.js:673). The
   check counts rows while an emission is still in its timer or at N8N; a second one follows.
2. `contracts_twice`: two billings read the same date, both bill that month and both write the
   same next date, though the new date is to be "1 mês após o atual"
   (contract-recurring.service.js:342). `OnceWhenOneAtATime` shows that nothing else than an overlap
   or a date that is not written does it.
3. `tasks_retry`: "Retry automático em caso de falha" (src/docs/task-system.md:61). The worker
   puts a task that failed in `retrying`, and its poll selects `pending` only; nothing but a request
   ever moves the task again (`RetriesAreAskedFor`).
4. `billing_cancelall`: "Cancela todos os boletos associados a uma parcela específica"
   (src/docs/swagger.js:1523). The query behind it takes the newest receivable boleto of the
   installment (installment.repository.js:698-707), and its cancellation writes no row: a second
   request sends the same boleto, and an older one stays alive at the bank.

Seen while modelling, without a run:

* A creation of a movement swallows the error of a boleto's payload (installment.generator.js:114)
  although PostgreSQL has failed the transaction: it may be answered with success and have
  committed nothing.
* `registerInstallmentPayment` builds its answer after COMMIT inside the same `try`: a payment
  reported as failed may be recorded (installment.service.js:308).
* One month after 31 January is 2 or 3 March (contract-recurring.service.js:345): no bill for
  February. `NoMonthSkipped` speaks of contracts first billed by the 28th.
* The notification is sent after 13 s whether or not a boleto exists; two cancellations of one
  movement may both be answered with success; an N8N answer without a body counts as a
  cancellation and leaves the row as it was.
* A termination may take effect without its history; two bills may come due on one day; the
  `billing_reference` "next current" is read under another name and never counts; an
  `adjust-billing-date` that fails is never answered.
* POST /tasks commits its row and answers with an error, rescheduling always fails, and so does the
  deletion of a dependency. Deleting task *t* deletes the dependency whose own id is *t*, too
  (task.repository.js:296). An error while a failure is recorded drops the rest of the batch.
* Every emission of a note ends in an error after the note has been issued, and leaves a second
  invoice that stays `processando`. A PDF is fetched for `AUTORIZADA` only, while an update takes
  `AUTORIZADO` as well. An event of a status that was missed is never written later. PATCH of a
  note's status and its cancellation always fail.
* DELETE of a movement item always fails, as BaseRepository has no `delete`.

## 8. What is left out

* Amounts (but for which products and sums they come from), addresses, documents, wording of
  messages. The payload of a boleto is a
  snapshot of its installment; its contents are not in the state.
* `last_billing_date`, which no handler reads to decide anything, and the delivery of
  notifications.
* The due-date and amount edits of an installment and a payment added to an existing movement:
  single updates. The split of an amount into installments is arithmetic on cents that the
  generator does in one step.
* In the tasks: priority and schedule, which only choose among the pending tasks and order them;
  the types of tasks. In the notes: the payload, POST /criar-nfse, and POST, PUT and DELETE of
  /invoice-events, by which a client writes the events of any invoice by hand. In the items: a PUT that moves
  an item to another movement (whose total nobody then brings up to date), a total_price given by
  the client, discounts and additions, the scaling of all items by an adjustment, and an edit
  through a contract whose template the item is not part of.
* Refresh tokens: no refresh succeeds, since `findById` of user.service.js:48 refers to a variable
  that is not declared. The main address: the data objects in front of the service drop the
  flag. Chats: the webhook that is mounted ends in an error before a message is stored, and what
  remains is find-or-create of single rows.
* In the pool: the order of statements on one client (the ROLLBACK after a query that timed out
  waits for it up to `statement_timeout`), the error event of the pool, idle clients being
  closed, and the handlers outside the billing core.
* Everything listed with `not_modelled` in `PROJECT.json`: single-row CRUD with caches, the
  construction of documents for external issuers, infrastructure, the legacy controllers and
  the unfinished `newArch`.
