-------------------------- MODULE MovementBilling --------------------------
(* One movement of the finance API from its creation to its cancellation:   *)
(* the transaction that creates it with its installments, the timers that   *)
(* creation leaves behind, and the HTTP requests that work on it at the     *)
(* same time (movement.service.js, installment.service.js,                  *)
(* installment.generator.js, boleto.service.js).                            *)
(*                                                                          *)
(* An action is the code a handler runs between two awaits. A request is a  *)
(* member of Requests that performs one operation, once. N8N, the bank and  *)
(* the database function that records a payment are the environment. A      *)
(* write or a COMMIT that raises may have taken effect: the client gives up *)
(* after 20 s, the server after 30 s (config/database.js:36-37).            *)
EXTENDS Boletos

CONSTANTS
  Requests,    \* the HTTP requests received after the POST /movements
  Ops,         \* the operations these requests may ask for
  MaxCrashes   \* how often the process may be restarted

AllOps == {"cancel", "boletos", "generate", "pay", "cancelBoletos",
           "putMovement", "putBoleto"}

ASSUME RequestsAssumption == IsFiniteSet(Requests)
ASSUME OpsAssumption == Ops \subseteq AllOps
ASSUME CrashesAssumption == MaxCrashes \in Nat

VARIABLES
  movement,      \* movement_status_id of the committed row: 2, 99 or another
  installments,  \* the committed rows of table installments
  creation,      \* where POST /movements stands
  inserted,      \* installments its transaction has written
  poisoned,      \* a statement of the transaction has failed
  notification,  \* the 13 s timer of delayNotification
  op,            \* the operation of a request
  pc,            \* its next step
  inst,          \* the installment it was asked about
  pending,       \* installments it has still to look at
  lacking,       \* installments it found without a boleto
  outcome,       \* what cancelMovement knows of each installment
  call,          \* its n8n.cancelBoleto calls, by boleto_id
  reply,         \* what it answered
  paid,          \* receipts recorded by fn_installment_receive_payment
  crashes        \* restarts so far

creationVars == <<creation, inserted, poisoned, notification>>
requestVars == <<op, pc, inst, pending, lacking, outcome, call, reply>>
vars == <<boletoVars, movement, installments, creationVars, requestVars,
          paid, crashes>>

MovementStatus == {"absent", "open", "cancelled", "other"}
PCs == {"idle", "done", "dead", "cancel.update", "cancel.list",
        "cancel.boletos", "boletos.check", "boletos.emit", "pay.details",
        "lookup", "wait"}
Outcomes == {"none", "scan", "calling", "ok", "error"}
Phases == {"posted", "accepted", "empty", "failed", "confirmed"}
Replies == {"none", "ok", "error"}

First(S) == {i \in S : \A j \in S : i <= j}
CallsOf(r, i) == {b \in DOMAIN call[r] : boletos[b].inst = i}
Active == {r \in Requests : pc[r] \notin {"idle", "done", "dead"}}

----------------------------------------------------------------------------
Init ==
  /\ BoletoInit
  /\ movement = "absent"
  /\ installments = {}
  /\ creation = "idle"
  /\ inserted = 0
  /\ poisoned = FALSE
  /\ notification = "none"
  /\ op = [r \in Requests |-> "none"]
  /\ pc = [r \in Requests |-> "idle"]
  /\ inst = [r \in Requests |-> 0]
  /\ pending = [r \in Requests |-> {}]
  /\ lacking = [r \in Requests |-> {}]
  /\ outcome = [r \in Requests |-> [i \in Installments |-> "none"]]
  /\ call = [r \in Requests |-> <<>>]
  /\ reply = [r \in Requests |-> "none"]
  /\ paid = [i \in Installments |-> 0]
  /\ crashes = 0

----------------------------------------------------------------------------
(* POST /movements: BaseRepository.transaction around _createWithTransaction *)

(* BEGIN, then the movement, its items and its payment.                     *)
BeginCreation ==
  /\ creation = "idle"
  /\ creation' = "open"
  /\ UNCHANGED <<boletoVars, movement, installments, inserted, poisoned,
                 notification, requestVars, paid, crashes>>

(* Mutant: the row is inserted through the pool, not through the client.    *)
InsertThroughPool ==
  /\ creation = "open" /\ inserted < N /\ ~poisoned
  /\ inserted' = inserted + 1
  /\ installments' = installments \cup {inserted + 1}
  /\ CreateBoleto(inserted + 1, "creation")
  /\ UNCHANGED <<movement, creation, poisoned, notification,
                 requestVars, paid, crashes>>

(* One turn of the generator's loop: the row, then its boleto. The payload  *)
(* may be falsy, or its query may raise: both are swallowed, but a query    *)
(* that raises leaves the transaction failed.                               *)
InsertInstallment ==
  /\ creation = "open" /\ inserted < N /\ ~poisoned
  /\ inserted' = inserted + 1
  /\ \/ CreateBoleto(inserted + 1, "creation") /\ UNCHANGED poisoned
     \/ poisoned' \in BOOLEAN /\ UNCHANGED boletoVars
  /\ UNCHANGED <<movement, installments, creation, notification,
                 requestVars, paid, crashes>>

(* A statement raises, of itself or because the transaction has failed:     *)
(* ROLLBACK and an error.                                                   *)
CreationFails ==
  /\ creation = "open"
  /\ creation' = "rolledback"
  /\ UNCHANGED <<boletoVars, movement, installments, inserted, poisoned,
                 notification, requestVars, paid, crashes>>

(* The callback returns, with the notification already armed.               *)
EndCreation ==
  /\ creation = "open" /\ inserted = N
  /\ creation' = "committing"
  /\ notification' = "armed"
  /\ UNCHANGED <<boletoVars, movement, installments, inserted, poisoned,
                 requestVars, paid, crashes>>

(* COMMIT. Of a failed transaction it is a ROLLBACK that raises nothing;    *)
(* one that raises may have taken effect. Either way the timers are armed.  *)
BecomesVisible ==
  /\ ~poisoned
  /\ creation' = "committed"
  /\ movement' = "open"
  /\ installments' = Installments

RollsBack ==
  /\ creation' = "rolledback"
  /\ UNCHANGED <<movement, installments>>

Commit ==
  /\ creation = "committing"
  /\ BecomesVisible \/ RollsBack
  /\ UNCHANGED <<boletoVars, inserted, poisoned, notification, requestVars,
                 paid, crashes>>

(* 13 s after it was armed. The 5 s timers of the same creation were armed  *)
(* earlier, so the event loop has run them.                                 *)
Notify ==
  /\ notification = "armed"
  /\ \A i \in Installments : timers["creation"][i] = 0
  /\ notification' = "sent"
  /\ UNCHANGED <<boletoVars, movement, installments, creation, inserted,
                 poisoned, requestVars, paid, crashes>>

----------------------------------------------------------------------------
(* The event loop and the environment                                       *)

TimerFires(i, o) ==
  /\ FireTimer(i, o)
  /\ UNCHANGED <<movement, installments, creationVars, requestVars, paid,
                 crashes>>

IssueAnswered(i) ==
  /\ N8nIssues(i) \/ N8nRefuses(i)
  /\ UNCHANGED <<movement, installments, creationVars, requestVars, paid,
                 crashes>>

Answer(r, b, phase) ==
  /\ r \in Requests /\ b \in DOMAIN call[r]
  /\ call[r][b] = "posted"
  /\ call' = [call EXCEPT ![r][b] = phase]
  /\ UNCHANGED <<movement, installments, creationVars, op, pc, inst, pending,
                 lacking, outcome, reply, paid, crashes>>

(* The bank cancels; N8N's answer has a body, has none, or is lost or late. *)
N8nCancels(r, b) ==
  /\ BankCancels(b)
  /\ \E phase \in {"accepted", "empty", "failed"} : Answer(r, b, phase)

(* The bank does not: an empty answer, an error status, or 10 s of silence. *)
(* A 2xx answer whose body has anything in it is taken to say that the bank *)
(* has cancelled, for this is how the code reads it (boleto.service.js:372, *)
(* installment.service.js:407): what the workflow of N8N answers is not in  *)
(* the repository.                                                          *)
N8nRejects(r, b) ==
  /\ \E phase \in {"empty", "failed"} : Answer(r, b, phase)
  /\ UNCHANGED boletoVars

(* pm2 restarts the process: timers, transaction and requests are gone. If  *)
(* its COMMIT has reached the server, this is Commit and then Crash.        *)
Crash ==
  /\ crashes < MaxCrashes
  /\ crashes' = crashes + 1
  /\ LoseTimers
  /\ creation' = IF creation \in {"open", "committing"} THEN "rolledback"
                                                        ELSE creation
  /\ notification' = IF notification = "armed" THEN "lost" ELSE notification
  /\ pc' = [r \in Requests |-> IF r \in Active THEN "dead" ELSE pc[r]]
  /\ UNCHANGED <<movement, installments, inserted, poisoned, op,
                 inst, pending, lacking, outcome, call, reply, paid>>

----------------------------------------------------------------------------
(* Steps of a request: what all of them leave alone, and how they end       *)

RequestFrame == UNCHANGED <<installments, creationVars, crashes>>

(* r, not started yet, starts operation o on installment i (0: on none).    *)
Starts(r, o, i) ==
  /\ pc[r] = "idle" /\ o \in Ops
  /\ op' = [op EXCEPT ![r] = o]
  /\ inst' = [inst EXCEPT ![r] = i]

At(r, step) ==
  /\ pc[r] = step
  /\ UNCHANGED <<op, inst>>

Goto(r, step) ==
  /\ pc' = [pc EXCEPT ![r] = step]
  /\ UNCHANGED reply

Reply(r, answer) ==
  /\ pc' = [pc EXCEPT ![r] = "done"]
  /\ reply' = [reply EXCEPT ![r] = answer]

(* An await of the database raises and the handler rethrows. Of these only  *)
(* the update of cancelMovement writes.                                     *)
QueryFails(r) ==
  /\ pc[r] \in {"cancel.update", "cancel.list", "boletos.check",
                "boletos.emit", "pay.details", "lookup"}
  /\ Reply(r, IF op[r] = "pay" /\ pc[r] = "lookup" THEN reply[r] ELSE "error")
  /\ \/ pc[r] = "cancel.update" /\ movement' = "cancelled"
     \/ UNCHANGED movement
  /\ UNCHANGED <<boletoVars, op, inst, pending, lacking, outcome, call, paid>>
  /\ RequestFrame

----------------------------------------------------------------------------
(* POST /movements/:id/cancel                                               *)

CancelRead(r) ==
  /\ Starts(r, "cancel", 0)
  /\ IF movement \in {"absent", "cancelled"} THEN Reply(r, "error")
                                             ELSE Goto(r, "cancel.update")
  /\ UNCHANGED <<boletoVars, movement, pending, lacking, outcome, call, paid>>
  /\ RequestFrame

CancelUpdate(r) ==
  /\ At(r, "cancel.update")
  /\ movement' = "cancelled"
  /\ Goto(r, "cancel.list")
  /\ UNCHANGED <<boletoVars, pending, lacking, outcome, call, paid>>
  /\ RequestFrame

CancelList(r) ==
  /\ At(r, "cancel.list")
  /\ outcome' = [outcome EXCEPT ![r] =
       [i \in Installments |-> IF i \in installments THEN "scan" ELSE "none"]]
  /\ Goto(r, "cancel.boletos")
  /\ UNCHANGED <<boletoVars, movement, pending, lacking, call, paid>>
  /\ RequestFrame

(* Every boleto of the installment, whatever its status, is sent to N8N.    *)
CancelScan(r, i) ==
  /\ pc[r] = "cancel.boletos" /\ outcome[r][i] = "scan"
  /\ \/ /\ outcome' = [outcome EXCEPT ![r][i] = "calling"]
        /\ call' = [call EXCEPT ![r] =
             [b \in DOMAIN call[r] \cup BoletosOf(i) |->
                IF b \in BoletosOf(i) THEN "posted" ELSE call[r][b]]]
     \/ /\ outcome' = [outcome EXCEPT ![r][i] = "error"]
        /\ UNCHANGED call
  /\ UNCHANGED <<boletoVars, movement, op, pc, inst, pending, lacking, reply,
                 paid>>
  /\ RequestFrame

(* Mutant: the status is written whatever N8N's answer holds.               *)
CancelConfirmEmpty(r, b) ==
  /\ op[r] = "cancel" /\ pc[r] # "dead"
  /\ b \in DOMAIN call[r] /\ call[r][b] \in {"accepted", "empty"}
  /\ WriteCancelled(b)
  /\ call' = [call EXCEPT ![r][b] = "confirmed"]
  /\ UNCHANGED <<movement, op, pc, inst, pending, lacking, outcome, reply,
                 paid>>
  /\ RequestFrame

(* Mutant: n8n.cancelBoleto is not awaited.                                 *)
CancelConfirmNoAwait(r, b) ==
  /\ op[r] = "cancel" /\ pc[r] # "dead"
  /\ b \in DOMAIN call[r] /\ call[r][b] = "posted"
  /\ WriteCancelled(b)
  /\ UNCHANGED <<movement, op, pc, inst, pending, lacking, outcome, call,
                 reply, paid>>
  /\ RequestFrame

(* cancelBoleto goes on after a non-empty answer, even when cancelMovement  *)
(* has already answered because another boleto failed.                      *)
CancelConfirm(r, b) ==
  /\ op[r] = "cancel" /\ pc[r] # "dead"
  /\ b \in DOMAIN call[r] /\ call[r][b] = "accepted"
  /\ \/ WriteCancelled(b) /\ call' = [call EXCEPT ![r][b] = "confirmed"]
     \/ /\ WriteCancelled(b) \/ UNCHANGED boletoVars
        /\ call' = [call EXCEPT ![r][b] = "failed"]
  /\ UNCHANGED <<movement, op, pc, inst, pending, lacking, outcome, reply,
                 paid>>
  /\ RequestFrame

(* Mutant: Promise.allSettled, its rejections not looked at.                *)
CancelSettleAll(r, i) ==
  /\ pc[r] = "cancel.boletos" /\ outcome[r][i] = "calling"
  /\ \A b \in CallsOf(r, i) : call[r][b] \notin {"posted", "accepted"}
  /\ outcome' = [outcome EXCEPT ![r][i] = "ok"]
  /\ UNCHANGED <<boletoVars, movement, op, pc, inst, pending, lacking, call,
                 reply, paid>>
  /\ RequestFrame

(* Mutant: a cancellation that fails neither resolves nor rejects.          *)
CancelSettleNeverRejects(r, i) ==
  /\ pc[r] = "cancel.boletos" /\ outcome[r][i] = "calling"
  /\ \A b \in CallsOf(r, i) : call[r][b] \in {"confirmed", "empty"}
  /\ outcome' = [outcome EXCEPT ![r][i] = "ok"]
  /\ UNCHANGED <<boletoVars, movement, op, pc, inst, pending, lacking, call,
                 reply, paid>>
  /\ RequestFrame

(* Promise.all: the first failure settles the installment, success needs    *)
(* every call. An empty answer counts as a success.                         *)
CancelSettle(r, i) ==
  /\ pc[r] = "cancel.boletos" /\ outcome[r][i] = "calling"
  /\ \/ /\ \E b \in CallsOf(r, i) : call[r][b] = "failed"
        /\ outcome' = [outcome EXCEPT ![r][i] = "error"]
     \/ /\ \A b \in CallsOf(r, i) : call[r][b] \in {"confirmed", "empty"}
        /\ outcome' = [outcome EXCEPT ![r][i] = "ok"]
  /\ UNCHANGED <<boletoVars, movement, op, pc, inst, pending, lacking, call,
                 reply, paid>>
  /\ RequestFrame

CancelReply(r) ==
  /\ At(r, "cancel.boletos")
  /\ \A i \in Installments : outcome[r][i] \in {"none", "ok", "error"}
  /\ Reply(r, "ok")
  /\ UNCHANGED <<boletoVars, movement, pending, lacking, outcome, call, paid>>
  /\ RequestFrame

----------------------------------------------------------------------------
(* POST /movements/:id/boletos and POST /installments/:id/boletos           *)

(* Mutant: the list includes what the open transaction has written.         *)
BoletosListDirty(r) ==
  /\ Starts(r, "boletos", 0)
  /\ pending' = [pending EXCEPT ![r] = 1..inserted]
  /\ IF inserted = 0 THEN Reply(r, "ok") ELSE Goto(r, "boletos.check")
  /\ UNCHANGED <<boletoVars, movement, lacking, outcome, call, paid>>
  /\ RequestFrame

BoletosList(r) ==
  /\ Starts(r, "boletos", 0)
  /\ pending' = [pending EXCEPT ![r] = installments]
  /\ IF installments = {} THEN Reply(r, "ok") ELSE Goto(r, "boletos.check")
  /\ UNCHANGED <<boletoVars, movement, lacking, outcome, call, paid>>
  /\ RequestFrame

(* SELECT COUNT of the next installment's boletos, in the listed order.     *)
BoletosCheck(r) ==
  /\ At(r, "boletos.check")
  /\ \E i \in First(pending[r]) :
       LET rest == pending[r] \ {i}
           without == IF BoletosOf(i) = {} THEN lacking[r] \cup {i}
                                           ELSE lacking[r]
       IN /\ pending' = [pending EXCEPT ![r] = rest]
          /\ lacking' = [lacking EXCEPT ![r] = without]
          /\ IF rest # {} THEN Goto(r, "boletos.check")
             ELSE IF without # {} THEN Goto(r, "boletos.emit")
             ELSE Reply(r, "ok")
  /\ UNCHANGED <<boletoVars, movement, outcome, call, paid>>
  /\ RequestFrame

BoletosEmit(r) ==
  /\ At(r, "boletos.emit")
  /\ \E i \in First(lacking[r]) :
       LET rest == lacking[r] \ {i}
       IN /\ CreateBoleto(i, "request")
          /\ lacking' = [lacking EXCEPT ![r] = rest]
          /\ IF rest # {} THEN Goto(r, "boletos.emit") ELSE Reply(r, "ok")
  /\ UNCHANGED <<movement, pending, outcome, call, paid>>
  /\ RequestFrame

(* The payload of an installment that is not committed is falsy.            *)
GenerateBoleto(r, i) ==
  /\ Starts(r, "generate", i)
  /\ \/ i \in installments /\ CreateBoleto(i, "request") /\ Reply(r, "ok")
     \/ UNCHANGED boletoVars /\ Reply(r, "error")
  /\ UNCHANGED <<movement, pending, lacking, outcome, call, paid>>
  /\ RequestFrame

----------------------------------------------------------------------------
(* PUT /installments/:id/payment and POST /installments/:id/boleto/cancelar *)

ReceivesPayment(i) == i \in installments /\ paid' = [paid EXCEPT ![i] = @ + 1]

(* Mutant: the error of the database function is answered as a success.     *)
RegisterPaymentSwallows(r, i) ==
  /\ Starts(r, "pay", i)
  /\ \/ ReceivesPayment(i) /\ Goto(r, "pay.details")
     \/ UNCHANGED paid /\ Reply(r, "ok")
  /\ UNCHANGED <<boletoVars, movement, pending, lacking, outcome, call>>
  /\ RequestFrame

(* Mutant: the boleto is cancelled in the finally, payment or none.         *)
RegisterPaymentCancelsAnyway(r, i) ==
  /\ Starts(r, "pay", i)
  /\ ReceivesPayment(i) \/ UNCHANGED paid
  /\ Goto(r, "pay.details")
  /\ UNCHANGED <<boletoVars, movement, pending, lacking, outcome, call>>
  /\ RequestFrame

(* BEGIN, the function that records the receipt, COMMIT; or an error, and   *)
(* what raised may have been the COMMIT.                                    *)
RegisterPayment(r, i) ==
  /\ Starts(r, "pay", i)
  /\ \/ ReceivesPayment(i) /\ Goto(r, "pay.details")
     \/ (ReceivesPayment(i) \/ UNCHANGED paid) /\ Reply(r, "error")
  /\ UNCHANGED <<boletoVars, movement, pending, lacking, outcome, call>>
  /\ RequestFrame

(* findInstallmentWithDetails finds nothing unless the movement is open;    *)
(* the cancellation is launched first and the DTO of null throws after it.  *)
PaymentDetails(r) ==
  /\ At(r, "pay.details")
  /\ pc' = [pc EXCEPT ![r] = "lookup"]
  /\ reply' = [reply EXCEPT ![r] = IF movement = "open" THEN "ok" ELSE "error"]
  /\ UNCHANGED <<boletoVars, movement, pending, lacking, outcome, call, paid>>
  /\ RequestFrame

CancelInstallmentBoletos(r, i) ==
  /\ Starts(r, "cancelBoletos", i)
  /\ Goto(r, "lookup")
  /\ UNCHANGED <<boletoVars, movement, pending, lacking, outcome, call, paid>>
  /\ RequestFrame

(* Of the installment's boletos only the newest receivable one is sent.     *)
LookupBoleto(r) ==
  /\ At(r, "lookup")
  /\ IF movement = "open" /\ inst[r] \in installments
        /\ Receivable(inst[r]) # {}
       THEN /\ \E b \in DOMAIN boletos :
                 /\ NewestReceivable(b, inst[r])
                 /\ call' = [call EXCEPT ![r] = [c \in {b} |-> "posted"]]
            /\ Goto(r, "wait")
       ELSE /\ Reply(r, IF op[r] = "pay" THEN reply[r] ELSE "error")
            /\ UNCHANGED call
  /\ UNCHANGED <<boletoVars, movement, pending, lacking, outcome, paid>>
  /\ RequestFrame

(* The row keeps its status: only the answer of the request depends on it,  *)
(* an error unless N8N's answer has a body.                                 *)
LookupAnswered(r) ==
  /\ At(r, "wait")
  /\ \A b \in DOMAIN call[r] : call[r][b] # "posted"
  /\ Reply(r, IF op[r] = "pay" THEN reply[r]
              ELSE IF \A b \in DOMAIN call[r] : call[r][b] = "accepted"
                     THEN "ok" ELSE "error")
  /\ UNCHANGED <<boletoVars, movement, pending, lacking, outcome, call, paid>>
  /\ RequestFrame

----------------------------------------------------------------------------
(* PUT /movements/:id and PUT /boletos/:id take any status they are given.  *)
(* One that raises after its write is not told apart by its answer.         *)

UpdateMovement(r, status) ==
  /\ Starts(r, "putMovement", 0)
  /\ IF movement = "absent"
       THEN Reply(r, "error") /\ UNCHANGED movement
       ELSE Reply(r, "ok") /\ movement' = status
  /\ UNCHANGED <<boletoVars, pending, lacking, outcome, call, paid>>
  /\ RequestFrame

UpdateBoleto(r, b, status) ==
  /\ Starts(r, "putBoleto", 0)
  /\ PutBoleto(b, status)
  /\ Reply(r, "ok")
  /\ UNCHANGED <<movement, pending, lacking, outcome, call, paid>>
  /\ RequestFrame

----------------------------------------------------------------------------
CreationStep ==
  \/ BeginCreation \/ InsertInstallment \/ CreationFails
  \/ EndCreation \/ Commit

CancelStep(r) ==
  \/ CancelRead(r) \/ CancelUpdate(r) \/ CancelList(r) \/ CancelReply(r)
  \/ \E i \in Installments : CancelScan(r, i) \/ CancelSettle(r, i)
  \/ \E b \in DOMAIN boletos : CancelConfirm(r, b)

EmitStep(r) ==
  \/ BoletosList(r) \/ BoletosCheck(r) \/ BoletosEmit(r)
  \/ \E i \in Installments : GenerateBoleto(r, i)

PaymentStep(r) ==
  \/ \E i \in Installments : RegisterPayment(r, i)
  \/ \E i \in Installments : CancelInstallmentBoletos(r, i)
  \/ PaymentDetails(r) \/ LookupBoleto(r) \/ LookupAnswered(r)

PutStep(r) ==
  \/ \E s \in MovementStatus \ {"absent"} : UpdateMovement(r, s)
  \/ \E b \in DOMAIN boletos, s \in RowStatus : UpdateBoleto(r, b, s)

N8nAnswers(r) ==
  \E b \in DOMAIN boletos : N8nCancels(r, b) \/ N8nRejects(r, b)

RequestStep(r) ==
  \/ CancelStep(r) \/ EmitStep(r) \/ PaymentStep(r) \/ PutStep(r)
  \/ QueryFails(r)

Next ==
  \/ CreationStep
  \/ Notify
  \/ \E i \in Installments, o \in Origins : TimerFires(i, o)
  \/ \E i \in Installments : IssueAnswered(i)
  \/ \E r \in Requests : N8nAnswers(r)
  \/ \E r \in Requests : RequestStep(r)
  \/ Crash

Spec == Init /\ [][Next]_vars

(* The event loop runs every timer and every continuation it is given, and  *)
(* n8n.cancelBoleto answers, or gives up, after 10 s. Nothing is assumed of *)
(* clients, nor of n8n.createBoleto, which waits without a timeout.         *)
Fairness ==
  /\ WF_vars(CreationStep /\ creation # "idle")
  /\ WF_vars(Notify)
  /\ \A i \in Installments, o \in Origins : WF_vars(TimerFires(i, o))
  /\ \A r \in Requests : WF_vars(N8nAnswers(r))
  /\ \A r \in Requests : WF_vars(RequestStep(r) /\ pc[r] # "idle")

FairSpec == Spec /\ Fairness

----------------------------------------------------------------------------
(* Every variable keeps its type.                                           *)
TypeOK ==
  /\ BoletoTypeOK
  /\ movement \in MovementStatus
  /\ installments \subseteq Installments
  /\ creation \in {"idle", "open", "committing", "committed", "rolledback"}
  /\ inserted \in 0..N
  /\ poisoned \in BOOLEAN
  /\ notification \in {"none", "armed", "sent", "lost"}
  /\ op \in [Requests -> AllOps \cup {"none"}]
  /\ pc \in [Requests -> PCs]
  /\ inst \in [Requests -> Installments \cup {0}]
  /\ pending \in [Requests -> SUBSET Installments]
  /\ lacking \in [Requests -> SUBSET Installments]
  /\ outcome \in [Requests -> [Installments -> Outcomes]]
  /\ call = [r \in Requests |-> call[r]]
  /\ \A r \in Requests : call[r] \in [DOMAIN call[r] -> Phases]
  /\ \A r \in Requests : DOMAIN call[r] \subseteq DOMAIN boletos
  /\ reply \in [Requests -> Replies]
  /\ paid \in [Installments -> Nat]
  /\ crashes \in 0..MaxCrashes

(* A movement is visible with all the installments of its payment or not at *)
(* all, whatever fails or restarts in between: every insert goes through    *)
(* the client of the one transaction (movement.service.js:321-339).         *)
CreationAllOrNothing ==
  installments = (IF movement = "absent" THEN {} ELSE Installments)

(* When cancelMovement reports an installment without an error, each boleto *)
(* it found there is cancelled at the bank, except those N8N answered with  *)
(* an empty body (movement.service.js:728-761), however the answers, a      *)
(* second cancellation and its own continuations interleave.                *)
CleanCancelReachesBank ==
  \A r \in Requests : \A b \in DOMAIN call[r] :
    outcome[r][boletos[b].inst] = "ok" =>
      \/ call[r][b] = "empty"
      \/ boletos[b].bank = "cancelled"

PaymentsOn(i) == {r \in Requests : op[r] = "pay" /\ inst[r] = i}
CancelsFor(i) == {r \in PaymentsOn(i) : DOMAIN call[r] # {}}

(* A boleto is cancelled at the bank only on somebody's word: a request to  *)
(* cancel the movement, or one about the boleto's own installment, has sent *)
(* it to N8N; and the payments that have sent one never outnumber those     *)
(* recorded, so that a customer whose payment failed can still pay          *)
(* (installment.service.js:259-431). The cancellation runs after the        *)
(* payment's COMMIT, un-awaited, next to other requests and to restarts,    *)
(* and it chooses the boleto by a query of its own.                         *)
BoletoCancelledOnDemand ==
  /\ \A b \in DOMAIN boletos :
       boletos[b].bank = "cancelled" =>
         \E r \in Requests :
           /\ b \in DOMAIN call[r]
           /\ op[r] = "cancel" \/ inst[r] = boletos[b].inst
  /\ \A i \in Installments : Cardinality(CancelsFor(i)) <= paid[i]

(* A request arms an emission only for an installment that is committed:    *)
(* the lists createBoletosMovimento works on (movement.service.js:639-699)  *)
(* never hold a row that a rollback could still take back.                  *)
RequestsEmitOnlyCommitted ==
  \A i \in Installments : timers["request"][i] > 0 => i \in installments

(* A payment answered with success is recorded, and no request records a    *)
(* payment twice (installment.service.js:259-318).                          *)
PaymentRecorded ==
  \A i \in Installments :
    /\ Cardinality({r \in PaymentsOn(i) : reply[r] = "ok"}) <= paid[i]
    /\ paid[i] <= Cardinality(PaymentsOn(i))

(* While the process lives every request is answered: cancelMovement waits  *)
(* for N8N, whose silence its 10 s timeout turns into an error.             *)
EveryRequestAnswered ==
  \A r \in Requests :
    pc[r] # "idle" ~> reply[r] # "none" \/ pc[r] = "dead"

(* While the process lives every accepted emission is put to N8N, and every *)
(* notification armed is sent.                                              *)
TimersRun ==
  /\ \A i \in Installments, o \in Origins :
       timers[o][i] > 0 ~> timers[o][i] = 0
  /\ notification = "armed" ~> notification # "armed"

----------------------------------------------------------------------------
(* What comments and messages of the source say, and the code does not do   *)

(* movement.service.js:673: "Criar boletos para parcelas sem boleto".       *)
OneBoletoPerInstallment ==
  \A i \in Installments : Cardinality(BoletosOf(i)) <= 1

(* docs/swagger.js:1523: POST /installments/:id/boleto/cancelar "cancela    *)
(* todos os boletos associados a uma parcela". Of the receivable boletos    *)
(* the installment had when the request that answers success sent one,      *)
(* none is left alive at the bank.                                          *)
CancelsEveryBoleto ==
  \A r \in Requests : op[r] = "cancelBoletos" /\ reply[r] = "ok" =>
    \A sent \in DOMAIN call[r] : \A b \in Receivable(inst[r]) :
      b <= sent => boletos[b].bank = "cancelled"

=============================================================================
