------------------------------ MODULE Boletos ------------------------------
(* The life of the boletos of one movement, as boleto.service.js,           *)
(* boleto.repository.js and n8n.service.js drive it: an accepted            *)
(* createBoleto call only arms a 5 s timer in the memory of the process;    *)
(* when it fires, N8N is asked to issue, and it is N8N that inserts the row *)
(* of table boletos and registers it at the bank.                           *)
(*                                                                          *)
(* The module is the abstract specification of the component: who may call  *)
(* it, and when, is left open here and fixed by MovementBilling, which is   *)
(* shown to implement BoletoSpec.                                           *)
EXTENDS Naturals, Sequences, FiniteSets

CONSTANT N  \* installment_count of the payment method

ASSUME NAssumption == N \in Nat

Installments == 1..N

(* A timer armed while a movement is being created, or by a later request.  *)
Origins == {"creation", "request"}

(* Values of boletos.status the code tells apart: the rest is "other".      *)
RowStatus == {"A_RECEBER", "CANCELADO", "other"}

VARIABLES
  timers,    \* timers[o][i]: armed, not yet fired setTimeout callbacks
  posting,   \* posting[i]: n8n.createBoleto requests without an answer
  accepted,  \* accepted[i]: createBoleto calls answered { success: true }
  boletos,   \* table boletos; the boleto_id of a row is its position
  edited     \* ids whose status PUT /boletos/:id has overwritten

boletoVars == <<timers, posting, accepted, boletos, edited>>

Row == [inst : Installments, status : RowStatus, bank : {"open", "cancelled"}]

BoletosOf(i) == {b \in DOMAIN boletos : boletos[b].inst = i}

(* findInstallmentWithDetails joins the newest row that is still receivable *)
Receivable(i) == {b \in BoletosOf(i) : boletos[b].status = "A_RECEBER"}

NewestReceivable(b, i) ==
  b \in Receivable(i) /\ \A c \in Receivable(i) : c <= b

----------------------------------------------------------------------------
BoletoInit ==
  /\ timers = [o \in Origins |-> [i \in Installments |-> 0]]
  /\ posting = [i \in Installments |-> 0]
  /\ accepted = [i \in Installments |-> 0]
  /\ boletos = <<>>
  /\ edited = {}

(* createBoleto with a payload: arm the timer and answer at once.           *)
CreateBoleto(i, o) ==
  /\ timers' = [timers EXCEPT ![o][i] = @ + 1]
  /\ accepted' = [accepted EXCEPT ![i] = @ + 1]
  /\ UNCHANGED <<posting, boletos, edited>>

(* Mutant: setInterval in the place of setTimeout.                          *)
FireTimerAgainAndAgain(i, o) ==
  /\ timers[o][i] > 0
  /\ posting' = [posting EXCEPT ![i] = @ + 1]
  /\ UNCHANGED <<timers, accepted, boletos, edited>>

(* Mutant: one emission of an installment waits for the answer of another.  *)
FireTimerSerialised(i, o) ==
  /\ timers[o][i] > 0 /\ posting[i] = 0
  /\ timers' = [timers EXCEPT ![o][i] = @ - 1]
  /\ posting' = [posting EXCEPT ![i] = @ + 1]
  /\ UNCHANGED <<accepted, boletos, edited>>

(* Mutant: the emission runs, timer or not.                                 *)
FireTimerUnarmed(i, o) ==
  /\ timers' = [timers EXCEPT ![o][i] = @ - 1]
  /\ posting' = [posting EXCEPT ![i] = @ + 1]
  /\ UNCHANGED <<accepted, boletos, edited>>

(* The callback of the timer: one POST to N8N, without a timeout.           *)
FireTimer(i, o) ==
  /\ timers[o][i] > 0
  /\ timers' = [timers EXCEPT ![o][i] = @ - 1]
  /\ posting' = [posting EXCEPT ![i] = @ + 1]
  /\ UNCHANGED <<accepted, boletos, edited>>

(* N8N issues the boleto and inserts its row.                               *)
N8nIssues(i) ==
  /\ posting[i] > 0
  /\ posting' = [posting EXCEPT ![i] = @ - 1]
  /\ boletos' = Append(boletos,
                       [inst |-> i, status |-> "A_RECEBER", bank |-> "open"])
  /\ UNCHANGED <<timers, accepted, edited>>

(* N8N answers an error or without a boleto_id: only logged, never retried. *)
N8nRefuses(i) ==
  /\ posting[i] > 0
  /\ posting' = [posting EXCEPT ![i] = @ - 1]
  /\ UNCHANGED <<timers, accepted, boletos, edited>>

(* The bank, through N8N, honours a request to cancel a boleto.             *)
BankCancels(b) ==
  /\ b \in DOMAIN boletos
  /\ boletos' = [boletos EXCEPT ![b].bank = "cancelled"]
  /\ UNCHANGED <<timers, posting, accepted, edited>>

(* updateBoleto from cancelBoleto.                                          *)
WriteCancelled(b) ==
  /\ b \in DOMAIN boletos
  /\ boletos' = [boletos EXCEPT ![b].status = "CANCELADO"]
  /\ UNCHANGED <<timers, posting, accepted, edited>>

(* What the component promises of it: the bank has cancelled by then.       *)
MarkCancelled(b) == boletos[b].bank = "cancelled" /\ WriteCancelled(b)

(* PUT /boletos/:id writes status, and NULL when the body has none.         *)
PutBoleto(b, s) ==
  /\ b \in DOMAIN boletos
  /\ boletos' = [boletos EXCEPT ![b].status = s]
  /\ edited' = edited \cup {b}
  /\ UNCHANGED <<timers, posting, accepted>>

(* The process dies: the timers die with it, what N8N has received does not *)
LoseTimers ==
  /\ timers' = [o \in Origins |-> [i \in Installments |-> 0]]
  /\ UNCHANGED <<posting, accepted, boletos, edited>>

BoletoNext ==
  \/ \E i \in Installments, o \in Origins : CreateBoleto(i, o)
  \/ \E i \in Installments, o \in Origins : FireTimer(i, o)
  \/ \E i \in Installments : N8nIssues(i)
  \/ \E i \in Installments : N8nRefuses(i)
  \/ \E b \in DOMAIN boletos : BankCancels(b)
  \/ \E b \in DOMAIN boletos : MarkCancelled(b)
  \/ \E b \in DOMAIN boletos, s \in RowStatus : PutBoleto(b, s)
  \/ LoseTimers

BoletoSpec == BoletoInit /\ [][BoletoNext]_boletoVars

----------------------------------------------------------------------------
(* Every variable keeps its type.                                           *)
BoletoTypeOK ==
  /\ timers \in [Origins -> [Installments -> Nat]]
  /\ posting \in [Installments -> Nat]
  /\ accepted \in [Installments -> Nat]
  /\ boletos \in Seq(Row)
  /\ edited \subseteq DOMAIN boletos

(* No accepted createBoleto call (boleto.service.js:110-175) ever issues    *)
(* more than one boleto: what is issued, asked for and still to be asked    *)
(* never exceeds what was accepted, across refusals, crashes and            *)
(* cancellations.                                                           *)
EmissionAtMostOnce ==
  \A i \in Installments :
    Cardinality(BoletosOf(i)) + posting[i]
      + timers["creation"][i] + timers["request"][i] <= accepted[i]

(* A row reads CANCELADO only when the bank has cancelled the boleto: the   *)
(* status follows N8N's answer (boleto.service.js:371-376). Only rows an    *)
(* operator overwrote with PUT /boletos/:id may say otherwise.              *)
CancelledMeansCancelledAtBank ==
  \A b \in DOMAIN boletos :
    boletos[b].status = "CANCELADO" /\ b \notin edited
      => boletos[b].bank = "cancelled"
=============================================================================
