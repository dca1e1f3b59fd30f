------------------------ MODULE MovementBilling_proofs ------------------------
(* Theorems about MovementBilling, for every number of installments, every  *)
(* finite set of requests, every set of operations and every number of      *)
(* restarts: its types, that it implements the component Boletos (whose     *)
(* theorems it therefore inherits), that a creation is all or nothing, what *)
(* a cancellation reported without error has done, what requests may        *)
(* cancel, emit and record, how many boletos an installment may get, and    *)
(* that a request only comes nearer to its answer.                          *)
EXTENDS MovementBilling, Boletos_proofs

(* A non-empty answer of N8N means that the bank has cancelled the boleto.  *)
CallsReachBank ==
  \A r \in Requests : \A b \in DOMAIN call[r] :
    call[r][b] \in {"accepted", "confirmed"} => boletos[b].bank = "cancelled"

----------------------------------------------------------------------------
(* Every step of a movement is a step of its boletos, or leaves them alone. *)
LEMMA StepImplements ==
  TypeOK /\ CallsReachBank /\ [Next]_vars => [BoletoNext]_boletoVars
<1> SUFFICES ASSUME TypeOK, CallsReachBank, [Next]_vars
             PROVE  BoletoNext \/ UNCHANGED boletoVars
  OBVIOUS
<1>1. CASE CreationStep
  <2>1. CASE InsertInstallment
    <3>1. inserted + 1 \in Installments /\ "creation" \in Origins
      BY <2>1, NAssumption
      DEF InsertInstallment, TypeOK, Installments, Origins
    <3>. QED  BY <2>1, <3>1 DEF InsertInstallment, BoletoNext
  <2>. QED
    BY <1>1, <2>1
    DEF CreationStep, BeginCreation, CreationFails, EndCreation, Commit
<1>2. CASE Notify
  BY <1>2 DEF Notify
<1>3. CASE \E i \in Installments, o \in Origins : TimerFires(i, o)
  BY <1>3 DEF TimerFires, BoletoNext
<1>4. CASE \E i \in Installments : IssueAnswered(i)
  BY <1>4 DEF IssueAnswered, BoletoNext
<1>5. CASE \E r \in Requests : N8nAnswers(r)
  BY <1>5 DEF N8nAnswers, N8nCancels, N8nRejects, BoletoNext
<1>6. ASSUME NEW r \in Requests, RequestStep(r)
      PROVE  BoletoNext \/ UNCHANGED boletoVars
  <2>1. CASE CancelStep(r)
    <3>1. CASE \E b \in DOMAIN boletos : CancelConfirm(r, b)
      <4>1. PICK b \in DOMAIN boletos : CancelConfirm(r, b)
        BY <3>1
      <4>2. b \in DOMAIN call[r] /\ call[r][b] = "accepted"
        BY <4>1 DEF CancelConfirm
      <4>3. boletos[b].bank = "cancelled"
        BY <4>2 DEF CallsReachBank
      <4>. QED  BY <4>1, <4>3 DEF CancelConfirm, MarkCancelled, BoletoNext
    <3>. QED
      BY <2>1, <3>1
      DEF CancelStep, CancelRead, CancelUpdate, CancelList, CancelReply,
          CancelScan, CancelSettle
  <2>2. CASE EmitStep(r)
    <3>1. CASE BoletosEmit(r)
      <4>1. PICK i \in First(lacking[r]) : CreateBoleto(i, "request")
        BY <3>1 DEF BoletosEmit
      <4>2. i \in Installments /\ "request" \in Origins
        BY <4>1 DEF First, TypeOK, Origins
      <4>. QED  BY <4>1, <4>2 DEF BoletoNext
    <3>2. CASE \E i \in Installments : GenerateBoleto(r, i)
      BY <3>2 DEF GenerateBoleto, BoletoNext, Origins
    <3>. QED
      BY <2>2, <3>1, <3>2 DEF EmitStep, BoletosList, BoletosCheck
  <2>3. CASE PaymentStep(r)
    BY <2>3
    DEF PaymentStep, RegisterPayment, CancelInstallmentBoletos,
        PaymentDetails, LookupBoleto, LookupAnswered
  <2>4. CASE PutStep(r)
    BY <2>4 DEF PutStep, UpdateMovement, UpdateBoleto, BoletoNext
  <2>5. CASE QueryFails(r)
    BY <2>5 DEF QueryFails
  <2>. QED  BY <1>6, <2>1, <2>2, <2>3, <2>4, <2>5 DEF RequestStep
<1>7. CASE Crash
  BY <1>7 DEF Crash, BoletoNext
<1>8. CASE UNCHANGED vars
  BY <1>8 DEF vars
<1>. QED
  BY <1>1, <1>2, <1>3, <1>4, <1>5, <1>6, <1>7, <1>8 DEF Next

----------------------------------------------------------------------------
(* Type correctness, in the parts that the actions change together.         *)
MovementTypeOK ==
  /\ movement \in MovementStatus
  /\ installments \subseteq Installments
  /\ creation \in {"idle", "open", "committing", "committed", "rolledback"}
  /\ inserted \in 0..N
  /\ poisoned \in BOOLEAN
  /\ notification \in {"none", "armed", "sent", "lost"}
  /\ paid \in [Installments -> Nat]
  /\ crashes \in 0..MaxCrashes

RequestTypeOK ==
  /\ op \in [Requests -> AllOps \cup {"none"}]
  /\ pc \in [Requests -> PCs]
  /\ inst \in [Requests -> Installments \cup {0}]
  /\ pending \in [Requests -> SUBSET Installments]
  /\ lacking \in [Requests -> SUBSET Installments]
  /\ outcome \in [Requests -> [Installments -> Outcomes]]
  /\ reply \in [Requests -> Replies]

CallTypeOK ==
  /\ call = [r \in Requests |-> call[r]]
  /\ \A r \in Requests : call[r] \in [DOMAIN call[r] -> Phases]
  /\ \A r \in Requests : DOMAIN call[r] \subseteq DOMAIN boletos

LEMMA TypeParts ==
  TypeOK <=> BoletoTypeOK /\ MovementTypeOK /\ RequestTypeOK /\ CallTypeOK
  BY DEF TypeOK, MovementTypeOK, RequestTypeOK, CallTypeOK

LEMMA TypeInit == Init => TypeOK
<1> SUFFICES ASSUME Init PROVE TypeOK
  OBVIOUS
<1>1. BoletoTypeOK
  BY BoletoTypeInit DEF Init
<1>2. MovementTypeOK
  <2>1. 0 \in 0..N /\ 0 \in 0..MaxCrashes
    BY NAssumption, CrashesAssumption
  <2>2. paid \in [Installments -> Nat]
    BY DEF Init
  <2>. QED  BY <2>1, <2>2 DEF Init, MovementTypeOK, MovementStatus, Replies
<1>3. RequestTypeOK
  BY DEF Init, RequestTypeOK, PCs, Outcomes, Replies
<1>4. CallTypeOK
  BY DEF Init, BoletoInit, CallTypeOK
<1>. QED  BY <1>1, <1>2, <1>3, <1>4, TypeParts

LEMMA CallsKept ==
  ASSUME CallTypeOK, RowsKept, UNCHANGED call
  PROVE  CallTypeOK'
  BY DEF CallTypeOK, RowsKept

(* A set of calls extended, or one call that changes its phase.             *)
LEMMA CallUpdate ==
  ASSUME CallTypeOK, RowsKept, NEW r \in Requests, NEW S, NEW f \in [S -> Phases],
         S \subseteq DOMAIN boletos, call' = [call EXCEPT ![r] = f]
  PROVE  CallTypeOK'
<1>1. /\ call = [q \in Requests |-> call[q]]
      /\ \A q \in Requests : call[q] \in [DOMAIN call[q] -> Phases]
      /\ \A q \in Requests : DOMAIN call[q] \subseteq DOMAIN boletos
      /\ DOMAIN boletos \subseteq DOMAIN boletos'
  BY DEF CallTypeOK, RowsKept
<1>2. /\ call' = [q \in Requests |-> IF q = r THEN f ELSE call[q]]
  BY <1>1
<1>3. call'[r] = f /\ \A q \in Requests \ {r} : call'[q] = call[q]
  BY <1>2
<1>4. call' = [q \in Requests |-> call'[q]]
  BY <1>2
<1>5. DOMAIN f = S /\ f \in [DOMAIN f -> Phases]
  OBVIOUS
<1>6. ASSUME NEW q \in Requests
      PROVE  call'[q] \in [DOMAIN call'[q] -> Phases]
             /\ DOMAIN call'[q] \subseteq DOMAIN boletos'
  BY <1>1, <1>3, <1>5
<1>. QED  BY <1>4, <1>6 DEF CallTypeOK

LEMMA PhaseUpdate ==
  ASSUME CallTypeOK, RowsKept, NEW r \in Requests, NEW b \in DOMAIN call[r],
         NEW p \in Phases, call' = [call EXCEPT ![r][b] = p]
  PROVE  CallTypeOK'
<1> DEFINE f == [call[r] EXCEPT ![b] = p]
<1>1. f \in [DOMAIN call[r] -> Phases]
  BY DEF CallTypeOK
<1>2. DOMAIN call[r] \subseteq DOMAIN boletos
  BY DEF CallTypeOK
<1>3. call' = [call EXCEPT ![r] = f]
  OBVIOUS
<1> HIDE DEF f
<1>. QED  BY <1>1, <1>2, <1>3, CallUpdate

(* Steps of the creation, of timers and N8N's answers, and a restart.       *)
LEMMA MovementTypeStep ==
  ASSUME TypeOK, CreationStep \/ Notify \/ Crash
  PROVE  MovementTypeOK'
<1> USE DEF MovementTypeOK, Replies
<1>t. MovementTypeOK
  BY TypeParts
<1>1. CASE BeginCreation
  BY <1>t, <1>1 DEF BeginCreation
<1>2. CASE InsertInstallment
  <2>1. inserted' \in 0..N
    BY <1>t, <1>2, NAssumption DEF InsertInstallment
  <2>2. poisoned' \in BOOLEAN
    BY <1>t, <1>2 DEF InsertInstallment
  <2>. QED  BY <1>t, <1>2, <2>1, <2>2 DEF InsertInstallment
<1>3. CASE CreationFails
  BY <1>t, <1>3 DEF CreationFails
<1>4. CASE EndCreation
  BY <1>t, <1>4 DEF EndCreation
<1>5. CASE Commit
  <2>1. \/ movement' = movement /\ installments' = installments
        \/ movement' = "open" /\ installments' = Installments
    BY <1>5 DEF Commit, BecomesVisible, RollsBack
  <2>2. creation' \in {"committed", "rolledback"}
    BY <1>5 DEF Commit, BecomesVisible, RollsBack
  <2>. QED  BY <1>t, <1>5, <2>1, <2>2 DEF Commit, MovementStatus
<1>6. CASE Notify
  BY <1>t, <1>6 DEF Notify
<1>7. CASE Crash
  <2>1. crashes' \in 0..MaxCrashes
    BY <1>t, <1>7, CrashesAssumption DEF Crash
  <2>2. /\ creation' \in {"idle", "open", "committing", "committed", "rolledback"}
        /\ notification' \in {"none", "armed", "sent", "lost"}
    BY <1>t, <1>7 DEF Crash
  <2>. QED  BY <1>t, <1>7, <2>1, <2>2 DEF Crash
<1>. QED
  BY <1>1, <1>2, <1>3, <1>4, <1>5, <1>6, <1>7 DEF CreationStep

(* The operations on one movement leave the creation alone.                 *)
LEMMA RequestMovementTypeStep ==
  ASSUME TypeOK, NEW r \in Requests, RequestStep(r)
  PROVE  MovementTypeOK'
<1>t. MovementTypeOK
  BY TypeParts
<1>f. RequestFrame
  BY DEF RequestStep, CancelStep, EmitStep, PaymentStep, PutStep, QueryFails,
         CancelRead, CancelUpdate, CancelList, CancelScan, CancelConfirm,
         CancelSettle, CancelReply, BoletosList, BoletosCheck, BoletosEmit,
         GenerateBoleto, RegisterPayment, PaymentDetails,
         CancelInstallmentBoletos, LookupBoleto, LookupAnswered,
         UpdateMovement, UpdateBoleto
<1>m. movement' \in MovementStatus
  BY <1>t
  DEF MovementTypeOK, MovementStatus,
      RequestStep, CancelStep, EmitStep, PaymentStep, PutStep, QueryFails,
      CancelRead, CancelUpdate, CancelList, CancelScan, CancelConfirm,
      CancelSettle, CancelReply, BoletosList, BoletosCheck, BoletosEmit,
      GenerateBoleto, RegisterPayment, PaymentDetails,
      CancelInstallmentBoletos, LookupBoleto, LookupAnswered,
      UpdateMovement, UpdateBoleto
<1>p. paid' \in [Installments -> Nat]
  <2>1. CASE \E i \in Installments : RegisterPayment(r, i)
    BY <1>t, <2>1 DEF MovementTypeOK, RegisterPayment, ReceivesPayment
  <2>2. CASE UNCHANGED paid
    BY <1>t, <2>2 DEF MovementTypeOK
  <2>3. UNCHANGED paid \/ \E i \in Installments : RegisterPayment(r, i)
    BY DEF RequestStep, CancelStep, EmitStep, PaymentStep, PutStep, QueryFails,
         CancelRead, CancelUpdate, CancelList, CancelScan, CancelConfirm,
         CancelSettle, CancelReply, BoletosList, BoletosCheck, BoletosEmit,
         GenerateBoleto, PaymentDetails,
         CancelInstallmentBoletos, LookupBoleto, LookupAnswered,
         UpdateMovement, UpdateBoleto
  <2>. QED  BY <2>1, <2>2, <2>3
<1>. QED
  BY <1>t, <1>f, <1>m, <1>p DEF MovementTypeOK, RequestFrame, creationVars

(* One step of a request keeps the types of what it remembers.              *)
LEMMA RequestTypeStep ==
  ASSUME TypeOK, NEW r \in Requests, RequestStep(r)
  PROVE  RequestTypeOK'
<1> USE DEF RequestTypeOK, Starts, At, Goto, Reply, AllOps, PCs, Replies
<1>t. RequestTypeOK /\ installments \subseteq Installments
  BY TypeParts DEF MovementTypeOK
<1>1. CASE CancelRead(r)
  BY <1>t, <1>1 DEF CancelRead
<1>2. CASE CancelUpdate(r)
  BY <1>t, <1>2 DEF CancelUpdate
<1>3. CASE CancelList(r)
  BY <1>t, <1>3 DEF CancelList, Outcomes
<1>4. CASE CancelReply(r)
  BY <1>t, <1>4 DEF CancelReply
<1>5. ASSUME NEW i \in Installments, CancelScan(r, i) \/ CancelSettle(r, i)
      PROVE  RequestTypeOK'
  <2>1. /\ UNCHANGED <<op, pc, inst, pending, lacking, reply>>
        /\ \E o \in Outcomes : outcome' = [outcome EXCEPT ![r][i] = o]
    BY <1>5 DEF CancelScan, CancelSettle, Outcomes
  <2>2. outcome' \in [Requests -> [Installments -> Outcomes]]
    BY <1>t, <2>1
  <2>. QED  BY <1>t, <2>1, <2>2
<1>6. CASE \E b \in DOMAIN boletos : CancelConfirm(r, b)
  BY <1>t, <1>6 DEF CancelConfirm
<1>7. CASE BoletosList(r)
  BY <1>t, <1>7 DEF BoletosList
<1>8. CASE BoletosCheck(r)
  <2>1. PICK i \in First(pending[r]) :
          /\ pending' = [pending EXCEPT ![r] = pending[r] \ {i}]
          /\ \/ lacking' = [lacking EXCEPT ![r] = lacking[r] \cup {i}]
             \/ lacking' = [lacking EXCEPT ![r] = lacking[r]]
          /\ Goto(r, "boletos.check") \/ Goto(r, "boletos.emit") \/ Reply(r, "ok")
    BY <1>8 DEF BoletosCheck
  <2>2. i \in Installments
    BY <1>t, <2>1 DEF First
  <2>3. /\ pending' \in [Requests -> SUBSET Installments]
        /\ lacking' \in [Requests -> SUBSET Installments]
    BY <1>t, <2>1, <2>2
  <2>. QED  BY <1>t, <1>8, <2>1, <2>3 DEF BoletosCheck
<1>9. CASE BoletosEmit(r)
  <2>1. PICK i \in First(lacking[r]) :
          /\ lacking' = [lacking EXCEPT ![r] = lacking[r] \ {i}]
          /\ Goto(r, "boletos.emit") \/ Reply(r, "ok")
    BY <1>9 DEF BoletosEmit
  <2>. QED  BY <1>t, <1>9, <2>1 DEF BoletosEmit
<1>10. ASSUME NEW i \in Installments, GenerateBoleto(r, i)
       PROVE  RequestTypeOK'
  BY <1>t, <1>10 DEF GenerateBoleto
<1>11. ASSUME NEW i \in Installments, RegisterPayment(r, i)
       PROVE  RequestTypeOK'
  BY <1>t, <1>11 DEF RegisterPayment
<1>12. ASSUME NEW i \in Installments, CancelInstallmentBoletos(r, i)
       PROVE  RequestTypeOK'
  BY <1>t, <1>12 DEF CancelInstallmentBoletos
<1>13. CASE PaymentDetails(r)
  BY <1>t, <1>13 DEF PaymentDetails
<1>14. CASE LookupBoleto(r)
  BY <1>t, <1>14 DEF LookupBoleto
<1>15. CASE LookupAnswered(r)
  BY <1>t, <1>15 DEF LookupAnswered
<1>16. CASE PutStep(r)
  <2>1. ASSUME NEW s, UpdateMovement(r, s)
        PROVE  RequestTypeOK'
    <3>1. /\ Starts(r, "putMovement", 0)
          /\ Reply(r, "ok") \/ Reply(r, "error")
          /\ UNCHANGED <<pending, lacking, outcome>>
      BY <2>1 DEF UpdateMovement
    <3>. QED  BY <1>t, <3>1
  <2>2. ASSUME NEW b, NEW s, UpdateBoleto(r, b, s)
        PROVE  RequestTypeOK'
    <3>1. /\ Starts(r, "putBoleto", 0)
          /\ Reply(r, "ok")
          /\ UNCHANGED <<pending, lacking, outcome>>
      BY <2>2 DEF UpdateBoleto
    <3>. QED  BY <1>t, <3>1
  <2>. QED  BY <1>16, <2>1, <2>2 DEF PutStep
<1>17. CASE QueryFails(r)
  BY <1>t, <1>17 DEF QueryFails
<1>. QED
  BY <1>1, <1>2, <1>3, <1>4, <1>5, <1>6, <1>7, <1>8, <1>9, <1>10, <1>11,
     <1>12, <1>13, <1>14, <1>15, <1>16, <1>17
  DEF RequestStep, CancelStep, EmitStep, PaymentStep

(* One step of a request changes the calls it has made in one of two ways.  *)
LEMMA RequestCallTypeStep ==
  ASSUME TypeOK, RowsKept, NEW r \in Requests, RequestStep(r)
  PROVE  CallTypeOK'
<1>t. CallTypeOK
  BY TypeParts
<1>1. ASSUME NEW i \in Installments, CancelScan(r, i), ~ UNCHANGED call
      PROVE  CallTypeOK'
  <2> DEFINE S == DOMAIN call[r] \cup BoletosOf(i)
             f == [b \in S |-> IF b \in BoletosOf(i) THEN "posted" ELSE call[r][b]]
  <2>1. call' = [call EXCEPT ![r] = f]
    BY <1>1 DEF CancelScan
  <2>2. S \subseteq DOMAIN boletos
    BY <1>t DEF CallTypeOK, BoletosOf
  <2>3. f \in [S -> Phases]
    BY <1>t DEF CallTypeOK, Phases
  <2> HIDE DEF S, f
  <2>. QED  BY <1>t, <2>1, <2>2, <2>3, CallUpdate
<1>2. ASSUME NEW b \in DOMAIN boletos, CancelConfirm(r, b)
      PROVE  CallTypeOK'
  <2>1. /\ b \in DOMAIN call[r]
        /\ \E p \in Phases : call' = [call EXCEPT ![r][b] = p]
    BY <1>2 DEF CancelConfirm, Phases
  <2>. QED  BY <1>t, <2>1, PhaseUpdate
<1>3. ASSUME LookupBoleto(r), ~ UNCHANGED call
      PROVE  CallTypeOK'
  <2>1. PICK b \in DOMAIN boletos :
          call' = [call EXCEPT ![r] = [c \in {b} |-> "posted"]]
    BY <1>3 DEF LookupBoleto
  <2> DEFINE f == [c \in {b} |-> "posted"]
  <2>2. f \in [{b} -> Phases] /\ {b} \subseteq DOMAIN boletos
    BY DEF Phases
  <2>3. call' = [call EXCEPT ![r] = f]
    BY <2>1
  <2> HIDE DEF f
  <2>. QED  BY <1>t, <2>2, <2>3, CallUpdate
<1>4. CASE UNCHANGED call
  BY <1>t, <1>4, CallsKept
<1>5. \/ UNCHANGED call
      \/ \E i \in Installments : CancelScan(r, i)
      \/ \E b \in DOMAIN boletos : CancelConfirm(r, b)
      \/ LookupBoleto(r)
  BY DEF RequestStep, CancelStep, EmitStep, PaymentStep, PutStep, QueryFails,
         CancelRead, CancelUpdate, CancelList, CancelSettle, CancelReply,
         BoletosList, BoletosCheck, BoletosEmit, GenerateBoleto,
         RegisterPayment, PaymentDetails, CancelInstallmentBoletos,
         LookupAnswered, UpdateMovement, UpdateBoleto
<1>. QED  BY <1>1, <1>2, <1>3, <1>4, <1>5

(* What the environment and the creation leave alone.                       *)
LEMMA OtherRequestFrame ==
  ASSUME \/ CreationStep \/ Notify
         \/ \E i \in Installments, o \in Origins : TimerFires(i, o)
         \/ \E i \in Installments : IssueAnswered(i)
         \/ UNCHANGED vars
  PROVE  UNCHANGED requestVars
  BY DEF CreationStep, BeginCreation, InsertInstallment, CreationFails,
         EndCreation, Commit, Notify, TimerFires, IssueAnswered,
         vars

LEMMA AnswerFrame ==
  ASSUME NEW r \in Requests, N8nAnswers(r)
  PROVE  /\ UNCHANGED <<movement, installments, creationVars, op, pc, inst,
                        pending, lacking, outcome, reply, paid, crashes>>
         /\ \E b \in DOMAIN call[r] : \E p \in Phases :
              /\ call[r][b] = "posted"
              /\ call' = [call EXCEPT ![r][b] = p]
              /\ p # "confirmed"
              /\ p = "accepted" => BankCancels(b)
  BY DEF N8nAnswers, N8nCancels, N8nRejects, Answer, Phases

LEMMA TypeStep == TypeOK /\ CallsReachBank /\ [Next]_vars => TypeOK'
<1> SUFFICES ASSUME TypeOK, CallsReachBank, [Next]_vars
             PROVE  TypeOK'
  OBVIOUS
<1>t. BoletoTypeOK /\ MovementTypeOK /\ RequestTypeOK /\ CallTypeOK
  BY TypeParts
<1>g. ASSUME BoletoTypeOK', MovementTypeOK', RequestTypeOK', CallTypeOK'
      PROVE  TypeOK'
  BY <1>g DEF TypeOK, MovementTypeOK, RequestTypeOK, CallTypeOK
<1>1. BoletoTypeOK'
  BY <1>t, StepImplements, BoletoTypeStep
<1>2. RowsKept
  BY <1>t, StepImplements, RowsKeptStep
<1>3. CASE \E r \in Requests : RequestStep(r)
  BY <1>1, <1>2, <1>3, <1>g, RequestMovementTypeStep, RequestTypeStep,
     RequestCallTypeStep
<1>4. CASE \E r \in Requests : N8nAnswers(r)
  <2>1. MovementTypeOK' /\ RequestTypeOK'
    BY <1>t, <1>4, AnswerFrame DEF MovementTypeOK, RequestTypeOK, creationVars
  <2>2. CallTypeOK'
    BY <1>t, <1>2, <1>4, AnswerFrame, PhaseUpdate
  <2>. QED  BY <1>1, <2>1, <2>2, <1>g
<1>5. CASE Crash
  <2>1. MovementTypeOK'
    BY <1>5, MovementTypeStep
  <2>2. pc' \in [Requests -> PCs]
    BY <1>t, <1>5 DEF Crash, RequestTypeOK, PCs
  <2>3. RequestTypeOK'
    BY <1>t, <1>5, <2>2 DEF Crash, RequestTypeOK
  <2>4. CallTypeOK'
    BY <1>t, <1>2, <1>5, CallsKept DEF Crash
  <2>. QED  BY <1>1, <2>1, <2>3, <2>4, <1>g
<1>6. CASE \/ CreationStep \/ Notify
           \/ \E i \in Installments, o \in Origins : TimerFires(i, o)
           \/ \E i \in Installments : IssueAnswered(i)
           \/ UNCHANGED vars
  <2>1. UNCHANGED requestVars
    BY <1>6, OtherRequestFrame
  <2>2. RequestTypeOK'
    BY <1>t, <2>1 DEF RequestTypeOK, requestVars
  <2>3. CallTypeOK'
    BY <1>t, <1>2, <2>1, CallsKept DEF requestVars
  <2>4. MovementTypeOK'
    <3>1. CASE CreationStep \/ Notify
      BY <3>1, MovementTypeStep
    <3>2. CASE UNCHANGED <<movement, installments, creationVars, paid, crashes>>
      BY <1>t, <3>2 DEF MovementTypeOK, creationVars
    <3>. QED  BY <1>6, <3>1, <3>2 DEF TimerFires, IssueAnswered, vars
  <2>. QED  BY <1>1, <2>2, <2>3, <2>4, <1>g
<1>. QED  BY <1>3, <1>4, <1>5, <1>6 DEF Next

(* The only answer that counts as accepted is given when the bank cancels,  *)
(* the only way to "confirmed" is from "accepted", and the bank never       *)
(* reopens a boleto.                                                        *)
LEMMA CallsStep == TypeOK /\ CallsReachBank /\ [Next]_vars => CallsReachBank'
<1> SUFFICES ASSUME TypeOK, CallsReachBank, [Next]_vars
             PROVE  CallsReachBank'
  OBVIOUS
<1>t. BoletoTypeOK /\ CallTypeOK
  BY TypeParts
<1>2. RowsKept
  BY <1>t, StepImplements, RowsKeptStep
<1>c. /\ call = [q \in Requests |-> call[q]]
      /\ \A q \in Requests : call[q] \in [DOMAIN call[q] -> Phases]
      /\ \A q \in Requests : DOMAIN call[q] \subseteq DOMAIN boletos
  BY <1>t DEF CallTypeOK
<1>k. ASSUME NEW q \in Requests, NEW c \in DOMAIN call[q],
             call'[q][c] = call[q][c]
      PROVE  call'[q][c] \in {"accepted", "confirmed"}
               => boletos'[c].bank = "cancelled"
  BY <1>2, <1>c, <1>k DEF CallsReachBank, RowsKept
<1>p. ASSUME NEW r \in Requests, NEW b \in DOMAIN call[r], NEW p \in Phases,
             call' = [call EXCEPT ![r][b] = p],
             p \in {"accepted", "confirmed"} => boletos'[b].bank = "cancelled"
      PROVE  CallsReachBank'
  <2> DEFINE f == [call[r] EXCEPT ![b] = p]
  <2>1. call' = [call EXCEPT ![r] = f]
    BY <1>p
  <2>2. /\ DOMAIN f = DOMAIN call[r] /\ f[b] = p
        /\ \A c \in DOMAIN call[r] \ {b} : f[c] = call[r][c]
    BY <1>c
  <2> HIDE DEF f
  <2>3. call'[r] = f /\ \A q \in Requests \ {r} : call'[q] = call[q]
    BY <1>c, <2>1
  <2>4. ASSUME NEW q \in Requests, NEW c \in DOMAIN call'[q]
        PROVE  call'[q][c] \in {"accepted", "confirmed"}
                 => boletos'[c].bank = "cancelled"
    <3>1. CASE q = r /\ c = b
      BY <1>p, <2>2, <2>3, <3>1
    <3>2. CASE q # r \/ c # b
      <4>1. c \in DOMAIN call[q] /\ call'[q][c] = call[q][c]
        BY <2>2, <2>3, <2>4, <3>2
      <4>. QED  BY <1>k, <4>1
    <3>. QED  BY <3>1, <3>2
  <2>. QED  BY <2>4 DEF CallsReachBank
<1>f. ASSUME NEW r \in Requests, NEW f, call' = [call EXCEPT ![r] = f],
             \A c \in DOMAIN f : f[c] = "posted"
                                 \/ (c \in DOMAIN call[r] /\ f[c] = call[r][c])
      PROVE  CallsReachBank'
  <2>1. call'[r] = f /\ \A q \in Requests \ {r} : call'[q] = call[q]
    BY <1>c, <1>f
  <2>2. ASSUME NEW q \in Requests, NEW c \in DOMAIN call'[q]
        PROVE  call'[q][c] \in {"accepted", "confirmed"}
                 => boletos'[c].bank = "cancelled"
    BY <1>f, <1>k, <2>1, <2>2
  <2>. QED  BY <2>2 DEF CallsReachBank
<1>u. CASE UNCHANGED call
  BY <1>k, <1>u DEF CallsReachBank
<1>3. ASSUME NEW r \in Requests, RequestStep(r)
      PROVE  CallsReachBank'
  <2>1. ASSUME NEW i \in Installments, CancelScan(r, i)
        PROVE  CallsReachBank'
    <3> DEFINE f == [b \in DOMAIN call[r] \cup BoletosOf(i) |->
                       IF b \in BoletosOf(i) THEN "posted" ELSE call[r][b]]
    <3>1. UNCHANGED call \/ call' = [call EXCEPT ![r] = f]
      BY <2>1 DEF CancelScan
    <3>2. \A c \in DOMAIN f : f[c] = "posted"
                              \/ (c \in DOMAIN call[r] /\ f[c] = call[r][c])
      OBVIOUS
    <3> HIDE DEF f
    <3>. QED  BY <1>f, <1>u, <3>1, <3>2
  <2>2. ASSUME NEW b \in DOMAIN boletos, CancelConfirm(r, b)
        PROVE  CallsReachBank'
    <3>1. b \in DOMAIN call[r] /\ call[r][b] = "accepted"
      BY <2>2 DEF CancelConfirm
    <3>2. boletos'[b].bank = "cancelled"
      BY <1>2, <3>1 DEF CallsReachBank, RowsKept
    <3>3. \E p \in Phases : call' = [call EXCEPT ![r][b] = p]
      BY <2>2 DEF CancelConfirm, Phases
    <3>. QED  BY <1>p, <3>1, <3>2, <3>3
  <2>3. ASSUME LookupBoleto(r)
        PROVE  CallsReachBank'
    <3>1. UNCHANGED call \/ \E b \in DOMAIN boletos :
            call' = [call EXCEPT ![r] = [c \in {b} |-> "posted"]]
      BY <2>3 DEF LookupBoleto
    <3>2. ASSUME NEW b \in DOMAIN boletos,
                 call' = [call EXCEPT ![r] = [c \in {b} |-> "posted"]]
          PROVE  CallsReachBank'
      <4> DEFINE f == [c \in {b} |-> "posted"]
      <4>1. \A c \in DOMAIN f : f[c] = "posted"
        OBVIOUS
      <4>2. call' = [call EXCEPT ![r] = f]
        BY <3>2
      <4> HIDE DEF f
      <4>. QED  BY <1>f, <4>1, <4>2
    <3>. QED  BY <1>u, <3>1, <3>2
  <2>4. \/ UNCHANGED call
        \/ \E i \in Installments : CancelScan(r, i)
        \/ \E b \in DOMAIN boletos : CancelConfirm(r, b)
        \/ LookupBoleto(r)
    BY <1>3 DEF RequestStep, CancelStep, EmitStep, PaymentStep, PutStep,
         QueryFails, CancelRead, CancelUpdate, CancelList, CancelSettle,
         CancelReply, BoletosList, BoletosCheck, BoletosEmit, GenerateBoleto,
         RegisterPayment, PaymentDetails, CancelInstallmentBoletos,
         LookupAnswered, UpdateMovement, UpdateBoleto
  <2>. QED  BY <1>u, <2>1, <2>2, <2>3, <2>4
<1>4. ASSUME NEW r \in Requests, N8nAnswers(r)
      PROVE  CallsReachBank'
  <2>1. PICK b \in DOMAIN call[r], p \in Phases :
          /\ call' = [call EXCEPT ![r][b] = p]
          /\ p # "confirmed"
          /\ p = "accepted" => BankCancels(b)
    BY <1>4, AnswerFrame
  <2>2. p = "accepted" => boletos'[b].bank = "cancelled"
    BY <1>t, <2>1, BankUpdate DEF BankCancels, BoletoTypeOK
  <2>. QED  BY <1>p, <2>1, <2>2
<1>5. CASE Crash
  BY <1>u, <1>5 DEF Crash
<1>6. CASE \/ CreationStep \/ Notify
           \/ \E i \in Installments, o \in Origins : TimerFires(i, o)
           \/ \E i \in Installments : IssueAnswered(i)
           \/ UNCHANGED vars
  BY <1>u, <1>6, OtherRequestFrame DEF requestVars
<1>. QED  BY <1>3, <1>4, <1>5, <1>6 DEF Next

LEMMA CallsInit == Init => CallsReachBank
  BY DEF Init, CallsReachBank

LEMMA BillingInvariant == Spec => [](TypeOK /\ CallsReachBank)
  BY TypeInit, CallsInit, TypeStep, CallsStep, PTL DEF Spec

----------------------------------------------------------------------------
(* Every variable of the movement keeps its type.                           *)
THEOREM TypeCorrect == Spec => []TypeOK
  BY BillingInvariant, PTL

(* What requests, timers, N8N and restarts do to the boletos of a movement  *)
(* is what the component Boletos allows: in particular a row is marked      *)
(* CANCELADO only after the bank has cancelled it.                          *)
THEOREM BillingImplementsBoletos == Spec => BoletoSpec
<1>1. Init => BoletoInit
  BY DEF Init
<1>. QED
  BY <1>1, BillingInvariant, StepImplements, PTL DEF Spec, BoletoSpec

(* So no accepted call issues two boletos.                                  *)
THEOREM BillingEmitsOnce == Spec => []EmissionAtMostOnce
  BY BillingImplementsBoletos, EmissionOnce, PTL

(* And CANCELADO means cancelled at the bank.                               *)
THEOREM BillingCancelledIsCancelled == Spec => []CancelledMeansCancelledAtBank
  BY BillingImplementsBoletos, CancelledIsCancelled, PTL

----------------------------------------------------------------------------
(* A creation is all or nothing.                                            *)

(* The invariant ties what is committed to where the creation stands: only  *)
(* COMMIT makes the movement and its rows visible, and a cancellation that  *)
(* is about to write has seen the movement.                                 *)
CreationStands ==
  /\ installments = (IF creation = "committed" THEN Installments ELSE {})
  /\ movement = "absent" <=> creation # "committed"
  /\ \A r \in Requests : pc[r] = "cancel.update" => creation = "committed"

LEMMA CreationStandsStep ==
  TypeOK /\ CreationStands /\ [Next]_vars => CreationStands'
<1> SUFFICES ASSUME TypeOK, CreationStands, [Next]_vars
             PROVE  CreationStands'
  OBVIOUS
<1>t. RequestTypeOK
  BY TypeParts
<1>u. CASE UNCHANGED <<movement, installments, creation, pc>>
  BY <1>u DEF CreationStands
<1>1. CASE CreationStep
  BY <1>1
  DEF CreationStands, CreationStep, BeginCreation, InsertInstallment,
      CreationFails, EndCreation, Commit, BecomesVisible, RollsBack,
      requestVars
<1>2. CASE Crash
  <2>1. \A r \in Requests : pc'[r] = "cancel.update" => pc[r] = "cancel.update"
    BY <1>2 DEF Crash
  <2>. QED  BY <1>2, <2>1 DEF CreationStands, Crash
<1>3. ASSUME NEW r \in Requests, RequestStep(r)
      PROVE  CreationStands'
  <2>f. UNCHANGED <<installments, creation>>
    BY <1>3
    DEF RequestStep, CancelStep, EmitStep, PaymentStep, PutStep, QueryFails,
        CancelRead, CancelUpdate, CancelList, CancelScan, CancelConfirm,
        CancelSettle, CancelReply, BoletosList, BoletosCheck, BoletosEmit,
        GenerateBoleto, RegisterPayment, PaymentDetails,
        CancelInstallmentBoletos, LookupBoleto, LookupAnswered,
        UpdateMovement, UpdateBoleto, RequestFrame, creationVars
  <2>1. CASE CancelRead(r)
    BY <1>t, <2>1, <2>f
    DEF CancelRead, CreationStands, Starts, Goto, Reply, RequestTypeOK
  <2>2. CASE CancelUpdate(r)
    BY <1>t, <2>2, <2>f
    DEF CancelUpdate, CreationStands, At, Goto, RequestTypeOK
  <2>3. CASE PutStep(r)
    BY <1>t, <2>3, <2>f
    DEF PutStep, UpdateMovement, UpdateBoleto, CreationStands, Reply,
        RequestTypeOK
  <2>4. ASSUME UNCHANGED movement,
               pc' = pc \/ \E p \in PCs \ {"cancel.update"} :
                             pc' = [pc EXCEPT ![r] = p]
        PROVE  CreationStands'
    BY <1>t, <2>4, <2>f DEF CreationStands, RequestTypeOK
  <2>5. CASE BoletosCheck(r)
    BY <2>4, <2>5 DEF BoletosCheck, Goto, Reply, PCs
  <2>6. CASE BoletosEmit(r)
    BY <2>4, <2>6 DEF BoletosEmit, Goto, Reply, PCs
  <2>7. CASE PaymentStep(r)
    BY <2>4, <2>7
    DEF PaymentStep, RegisterPayment, PaymentDetails, LookupBoleto,
        CancelInstallmentBoletos, LookupAnswered, Goto, Reply, PCs
  <2>8. CASE BoletosList(r) \/ \E i \in Installments : GenerateBoleto(r, i)
    BY <2>4, <2>8 DEF BoletosList, GenerateBoleto, Goto, Reply, PCs
  <2>9. CASE \/ CancelList(r) \/ CancelReply(r)
             \/ \E i \in Installments : CancelScan(r, i) \/ CancelSettle(r, i)
             \/ \E b \in DOMAIN boletos : CancelConfirm(r, b)
    BY <2>4, <2>9
    DEF CancelList, CancelReply, CancelScan, CancelSettle, CancelConfirm,
        Goto, Reply, PCs
  <2>10. CASE QueryFails(r)
    <3>1. /\ pc' = [pc EXCEPT ![r] = "done"]
          /\ \/ UNCHANGED movement
             \/ pc[r] = "cancel.update" /\ movement' = "cancelled"
      BY <2>10 DEF QueryFails, Reply
    <3>. QED  BY <1>t, <2>f, <3>1 DEF CreationStands, RequestTypeOK
  <2>. QED
    BY <1>3, <2>1, <2>2, <2>3, <2>5, <2>6, <2>7, <2>8, <2>9, <2>10
    DEF RequestStep, CancelStep, EmitStep
<1>4. CASE \E r \in Requests : N8nAnswers(r)
  BY <1>4, <1>u, AnswerFrame DEF creationVars
<1>5. CASE \/ Notify
           \/ \E i \in Installments, o \in Origins : TimerFires(i, o)
           \/ \E i \in Installments : IssueAnswered(i)
           \/ UNCHANGED vars
  BY <1>5, <1>u
  DEF Notify, TimerFires, IssueAnswered, vars, creationVars, requestVars
<1>. QED  BY <1>1, <1>2, <1>3, <1>4, <1>5 DEF Next

(* Whatever fails or restarts, the movement is visible with all of its      *)
(* installments or not at all.                                              *)
THEOREM CreationIsAllOrNothing == Spec => []CreationAllOrNothing
<1>1. Init => CreationStands
  BY DEF Init, CreationStands
<1>2. CreationStands => CreationAllOrNothing
  BY DEF CreationStands, CreationAllOrNothing
<1>. QED
  BY <1>1, <1>2, BillingInvariant, CreationStandsStep, PTL DEF Spec

----------------------------------------------------------------------------
(* What a cancellation reported without an error has done.                  *)

(* Once an installment is settled as "ok" all its calls have come to their  *)
(* end, and a request that may still replace its calls has settled none.    *)
OkIsSettled ==
  \A r \in Requests :
    /\ \A b \in DOMAIN call[r] :
         outcome[r][boletos[b].inst] = "ok" => call[r][b] \in {"confirmed", "empty"}
    /\ pc[r] \in {"idle", "pay.details", "lookup"} =>
         \A i \in Installments : outcome[r][i] # "ok"

LEMMA OkIsSettledStep ==
  TypeOK /\ CallsReachBank /\ OkIsSettled /\ [Next]_vars => OkIsSettled'
<1> SUFFICES ASSUME TypeOK, CallsReachBank, OkIsSettled, [Next]_vars
             PROVE  OkIsSettled'
  OBVIOUS
<1>t. BoletoTypeOK /\ RequestTypeOK /\ CallTypeOK
  BY TypeParts
<1>2. RowsKept
  BY <1>t, StepImplements, RowsKeptStep
<1>c. /\ call = [q \in Requests |-> call[q]]
      /\ \A q \in Requests : DOMAIN call[q] \subseteq DOMAIN boletos
      /\ \A q \in Requests : call[q] \in [DOMAIN call[q] -> Phases]
      /\ \A b \in DOMAIN boletos : boletos'[b].inst = boletos[b].inst
      /\ \A b \in DOMAIN boletos : boletos[b].inst \in Installments
  <2>1. \A b \in DOMAIN boletos : boletos[b] \in Row
    BY <1>t DEF BoletoTypeOK
  <2>. QED  BY <1>t, <1>2, <2>1 DEF CallTypeOK, RowsKept, Row
<1>d. /\ outcome \in [Requests -> [Installments -> Outcomes]]
      /\ pc \in [Requests -> PCs]
  BY <1>t DEF RequestTypeOK
(* Requests are independent of one another: one of them at a time.          *)
<1>s. ASSUME \A q \in Requests :
               /\ \A b \in DOMAIN call'[q] :
                    outcome'[q][boletos'[b].inst] = "ok"
                      => call'[q][b] \in {"confirmed", "empty"}
               /\ pc'[q] \in {"idle", "pay.details", "lookup"} =>
                    \A i \in Installments : outcome'[q][i] # "ok"
      PROVE  OkIsSettled'
  BY <1>s DEF OkIsSettled
<1>k. ASSUME NEW q \in Requests, call'[q] = call[q], outcome'[q] = outcome[q],
             pc'[q] = pc[q] \/ pc'[q] \notin {"idle", "pay.details", "lookup"}
      PROVE  /\ \A b \in DOMAIN call'[q] :
                  outcome'[q][boletos'[b].inst] = "ok"
                    => call'[q][b] \in {"confirmed", "empty"}
             /\ pc'[q] \in {"idle", "pay.details", "lookup"} =>
                  \A i \in Installments : outcome'[q][i] # "ok"
  BY <1>c, <1>k DEF OkIsSettled
<1>a. ASSUME NEW r \in Requests, NEW b \in DOMAIN call[r], NEW p \in Phases,
             call[r][b] \notin {"confirmed", "empty"},
             call' = [call EXCEPT ![r][b] = p], UNCHANGED <<outcome, pc>>
      PROVE  OkIsSettled'
  <2> DEFINE f == [call[r] EXCEPT ![b] = p]
  <2>1. call' = [call EXCEPT ![r] = f]
    BY <1>a
  <2>2. /\ DOMAIN f = DOMAIN call[r]
        /\ \A c \in DOMAIN call[r] \ {b} : f[c] = call[r][c]
    BY <1>c
  <2> HIDE DEF f
  <2>3. call'[r] = f /\ \A q \in Requests \ {r} : call'[q] = call[q]
    BY <1>c, <2>1
  <2>4. \A c \in DOMAIN f : outcome[r][boletos'[c].inst] = "ok"
                              => f[c] \in {"confirmed", "empty"}
    BY <1>a, <1>c, <2>2 DEF OkIsSettled
  <2>5. ASSUME NEW q \in Requests
        PROVE  /\ \A c \in DOMAIN call'[q] :
                    outcome'[q][boletos'[c].inst] = "ok"
                      => call'[q][c] \in {"confirmed", "empty"}
               /\ pc'[q] \in {"idle", "pay.details", "lookup"} =>
                    \A i \in Installments : outcome'[q][i] # "ok"
    <3>1. CASE q = r
      BY <1>a, <2>3, <2>4, <3>1 DEF OkIsSettled
    <3>2. CASE q # r
      BY <1>a, <1>k, <2>3, <3>2
    <3>. QED  BY <3>1, <3>2
  <2>. QED  BY <1>s, <2>5
<1>3. ASSUME NEW r \in Requests, RequestStep(r)
      PROVE  OkIsSettled'
  <2>1. ASSUME NEW i \in Installments, CancelScan(r, i)
        PROVE  OkIsSettled'
    <3> DEFINE f == [b \in DOMAIN call[r] \cup BoletosOf(i) |->
                       IF b \in BoletosOf(i) THEN "posted" ELSE call[r][b]]
    <3>1. /\ UNCHANGED call \/ call' = [call EXCEPT ![r] = f]
          /\ \E o \in {"calling", "error"} : outcome' = [outcome EXCEPT ![r][i] = o]
          /\ pc[r] = "cancel.boletos" /\ UNCHANGED pc
      BY <2>1 DEF CancelScan
    <3>2. /\ DOMAIN f = DOMAIN call[r] \cup BoletosOf(i)
          /\ \A c \in DOMAIN f : boletos[c].inst = i
                                 \/ (c \in DOMAIN call[r] /\ f[c] = call[r][c])
      BY DEF BoletosOf
    <3> HIDE DEF f
    <3>3. /\ outcome'[r][i] # "ok"
          /\ \A j \in Installments \ {i} : outcome'[r][j] = outcome[r][j]
          /\ \A q \in Requests \ {r} : outcome'[q] = outcome[q]
      BY <1>d, <3>1
    <3>4. /\ call'[r] = f \/ call'[r] = call[r]
          /\ \A q \in Requests \ {r} : call'[q] = call[q]
      BY <1>c, <3>1
    <3>5. BoletosOf(i) \subseteq DOMAIN boletos
      BY DEF BoletosOf
    <3>6. ASSUME NEW c \in DOMAIN call'[r], outcome'[r][boletos'[c].inst] = "ok"
          PROVE  call'[r][c] \in {"confirmed", "empty"}
      <4>1. c \in DOMAIN boletos /\ boletos'[c].inst = boletos[c].inst
        BY <1>c, <3>2, <3>4, <3>5, <3>6
      <4>2. boletos[c].inst # i /\ outcome[r][boletos[c].inst] = "ok"
        BY <1>c, <3>3, <3>6, <4>1
      <4>3. c \in DOMAIN call[r] /\ call'[r][c] = call[r][c]
        BY <3>2, <3>4, <3>6, <4>2
      <4>. QED  BY <4>2, <4>3 DEF OkIsSettled
    <3>7. pc'[r] \notin {"idle", "pay.details", "lookup"}
      BY <3>1
    <3>8. \A q \in Requests \ {r} : pc'[q] = pc[q]
      BY <3>1
    <3>. QED  BY <1>k, <1>s, <3>3, <3>4, <3>6, <3>7, <3>8
  <2>2. ASSUME NEW b \in DOMAIN boletos, CancelConfirm(r, b)
        PROVE  OkIsSettled'
    BY <1>a, <2>2 DEF CancelConfirm, Phases
  <2>3. ASSUME NEW i \in Installments, CancelSettle(r, i)
        PROVE  OkIsSettled'
    <3>1. PICK o \in {"error", "ok"} :
            /\ outcome' = [outcome EXCEPT ![r][i] = o]
            /\ o = "ok" => \A b \in CallsOf(r, i) :
                             call[r][b] \in {"confirmed", "empty"}
      BY <2>3 DEF CancelSettle
    <3>2. UNCHANGED <<call, pc>> /\ pc[r] = "cancel.boletos"
      BY <2>3 DEF CancelSettle
    <3>3. /\ outcome'[r][i] = o
          /\ \A j \in Installments \ {i} : outcome'[r][j] = outcome[r][j]
          /\ \A q \in Requests \ {r} : outcome'[q] = outcome[q]
      BY <1>d, <3>1
    <3>4. ASSUME NEW c \in DOMAIN call[r], outcome'[r][boletos[c].inst] = "ok"
          PROVE  call[r][c] \in {"confirmed", "empty"}
      <4>1. CASE boletos[c].inst = i
        BY <3>1, <3>3, <3>4, <4>1 DEF CallsOf
      <4>2. CASE boletos[c].inst # i
        BY <1>c, <3>3, <3>4, <4>2 DEF OkIsSettled
      <4>. QED  BY <4>1, <4>2
    <3>5. \A c \in DOMAIN call[r] : boletos'[c].inst = boletos[c].inst
      BY <1>c
    <3>. QED  BY <1>k, <1>s, <3>2, <3>3, <3>4, <3>5
  <2>4. ASSUME LookupBoleto(r)
        PROVE  OkIsSettled'
    <3>1. /\ \A q \in Requests \ {r} : call'[q] = call[q] /\ pc'[q] = pc[q]
          /\ pc'[r] \notin {"idle", "pay.details", "lookup"}
          /\ UNCHANGED outcome /\ pc[r] = "lookup"
      BY <1>c, <1>d, <2>4 DEF LookupBoleto, At, Goto, Reply
    <3>2. \A i \in Installments : outcome[r][i] # "ok"
      BY <3>1 DEF OkIsSettled
    <3>3. \A c \in DOMAIN call'[r] : c \in DOMAIN boletos
      BY <1>2, <1>3, <2>4, RequestCallTypeStep
      DEF LookupBoleto, CallTypeOK, boletoVars
    <3>4. \A c \in DOMAIN call'[r] : outcome'[r][boletos'[c].inst] # "ok"
      BY <1>c, <3>1, <3>2, <3>3
    <3>. QED  BY <1>k, <1>s, <3>1, <3>4
  <2>5. ASSUME CancelList(r)
        PROVE  OkIsSettled'
    <3>1. /\ UNCHANGED call
          /\ \A q \in Requests \ {r} : outcome'[q] = outcome[q] /\ pc'[q] = pc[q]
          /\ pc'[r] = "cancel.boletos"
          /\ \A i \in Installments : outcome'[r][i] # "ok"
      BY <1>d, <2>5 DEF CancelList, At, Goto
    <3>2. \A c \in DOMAIN call[r] : boletos'[c].inst \in Installments
      BY <1>c
    <3>. QED  BY <1>k, <1>s, <3>1, <3>2
  <2>6. ASSUME UNCHANGED <<call, outcome>>,
               \E p \in PCs : /\ pc' = [pc EXCEPT ![r] = p]
                              /\ p \in {"pay.details", "lookup"} =>
                                   pc[r] \in {"idle", "pay.details", "lookup"}
                              /\ p # "idle"
        PROVE  OkIsSettled'
    <3>1. PICK p \in PCs : /\ pc' = [pc EXCEPT ![r] = p]
                           /\ p \in {"pay.details", "lookup"} =>
                                pc[r] \in {"idle", "pay.details", "lookup"}
                           /\ p # "idle"
      BY <2>6
    <3>2. pc'[r] = p /\ \A q \in Requests \ {r} : pc'[q] = pc[q]
      BY <1>d, <3>1
    <3>3. pc'[r] \in {"idle", "pay.details", "lookup"} =>
             \A i \in Installments : outcome'[r][i] # "ok"
      BY <2>6, <3>1, <3>2 DEF OkIsSettled
    <3>4. \A b \in DOMAIN call'[r] : outcome'[r][boletos'[b].inst] = "ok"
                                   => call'[r][b] \in {"confirmed", "empty"}
      BY <1>c, <2>6 DEF OkIsSettled
    <3>. QED  BY <1>k, <1>s, <2>6, <3>2, <3>3, <3>4
  <2>7. CASE CancelRead(r) \/ CancelUpdate(r) \/ CancelReply(r) \/ QueryFails(r)
    BY <2>6, <2>7
    DEF CancelRead, CancelUpdate, CancelReply, QueryFails, Starts, At, Goto,
        Reply, PCs
  <2>8. CASE BoletosList(r)
    BY <2>6, <2>8 DEF BoletosList, Starts, Goto, Reply, PCs
  <2>9. CASE BoletosCheck(r)
    BY <2>6, <2>9 DEF BoletosCheck, At, Goto, Reply, PCs
  <2>10. CASE BoletosEmit(r)
    BY <2>6, <2>10 DEF BoletosEmit, At, Goto, Reply, PCs
  <2>11. CASE \E i \in Installments : GenerateBoleto(r, i)
    BY <2>6, <2>11 DEF GenerateBoleto, Starts, Reply, PCs
  <2>12. CASE \E i \in Installments : RegisterPayment(r, i)
    BY <2>6, <2>12 DEF RegisterPayment, Starts, Goto, Reply, PCs
  <2>13. CASE \E i \in Installments : CancelInstallmentBoletos(r, i)
    BY <2>6, <2>13 DEF CancelInstallmentBoletos, Starts, Goto, PCs
  <2>14. CASE PaymentDetails(r) \/ LookupAnswered(r)
    BY <2>6, <2>14 DEF PaymentDetails, LookupAnswered, At, Reply, PCs
  <2>15. CASE PutStep(r)
    BY <2>6, <2>15 DEF PutStep, UpdateMovement, UpdateBoleto, Reply, PCs
  <2>. QED
    BY <1>3, <2>1, <2>2, <2>3, <2>4, <2>5, <2>7, <2>8, <2>9, <2>10, <2>11,
       <2>12, <2>13, <2>14, <2>15
    DEF RequestStep, CancelStep, EmitStep, PaymentStep
<1>4. ASSUME NEW r \in Requests, N8nAnswers(r)
      PROVE  OkIsSettled'
  BY <1>4, <1>a, AnswerFrame
<1>5. CASE Crash
  <2>1. UNCHANGED <<call, outcome>>
        /\ \A q \in Requests : pc'[q] = pc[q] \/ pc'[q] = "dead"
    BY <1>5 DEF Crash
  <2>. QED  BY <1>k, <1>s, <2>1
<1>6. CASE \/ CreationStep \/ Notify
           \/ \E i \in Installments, o \in Origins : TimerFires(i, o)
           \/ \E i \in Installments : IssueAnswered(i)
           \/ UNCHANGED vars
  BY <1>6, <1>k, <1>s, OtherRequestFrame DEF requestVars
<1>. QED  BY <1>3, <1>4, <1>5, <1>6 DEF Next

(* An installment that cancelMovement reports without an error has all the  *)
(* boletos found there cancelled at the bank, but for empty answers.        *)
THEOREM CleanCancelIsClean == Spec => []CleanCancelReachesBank
<1>1. Init => OkIsSettled
  BY DEF Init, OkIsSettled
<1>2. TypeOK /\ CallsReachBank /\ OkIsSettled => CleanCancelReachesBank
  BY DEF CallsReachBank, OkIsSettled, CleanCancelReachesBank
<1>. QED
  BY <1>1, <1>2, BillingInvariant, OkIsSettledStep, PTL DEF Spec

----------------------------------------------------------------------------
(* The course of a request, and what it may emit, cancel and record.        *)

(* A request that has not started has done nothing, each keeps to the steps *)
(* of its operation, and one about a payment or about the boletos of one    *)
(* installment has sent nothing to N8N before its lookup.                   *)
Course(r) ==
  /\ pc[r] = "idle" => op[r] = "none" /\ reply[r] = "none"
  /\ op[r] = "pay" =>
       pc[r] \in {"pay.details", "lookup", "wait", "done", "dead"}
  /\ op[r] = "cancelBoletos" => pc[r] \in {"lookup", "wait", "done", "dead"}
  /\ pc[r] \in {"cancel.update", "cancel.list", "cancel.boletos"} =>
       op[r] = "cancel"
  /\ pc[r] \in {"pay.details", "lookup"} => op[r] \in {"pay", "cancelBoletos"}
  /\ pc[r] \in {"idle", "pay.details", "lookup"} => DOMAIN call[r] = {}

OnCourse == \A r \in Requests : Course(r)

(* A request works on its own variables only.                               *)
LEMMA RequestAlone ==
  ASSUME TypeOK, NEW r \in Requests, RequestStep(r), NEW q \in Requests, q # r
  PROVE  /\ op'[q] = op[q] /\ pc'[q] = pc[q] /\ inst'[q] = inst[q]
         /\ reply'[q] = reply[q] /\ call'[q] = call[q]
         /\ pending'[q] = pending[q] /\ lacking'[q] = lacking[q]
<1> USE DEF Starts, At, Goto, Reply
<1>t. RequestTypeOK /\ call = [p \in Requests |-> call[p]]
  BY TypeParts DEF CallTypeOK
<1>1. CASE CancelStep(r)
  <2>1. CASE CancelRead(r) \/ CancelUpdate(r) \/ CancelList(r) \/ CancelReply(r)
    BY <1>t, <2>1
    DEF CancelRead, CancelUpdate, CancelList, CancelReply, RequestTypeOK
  <2>2. ASSUME NEW i \in Installments, CancelScan(r, i) \/ CancelSettle(r, i)
        PROVE  /\ UNCHANGED <<op, pc, inst, reply, pending, lacking>>
               /\ call'[q] = call[q]
    BY <1>t, <2>2 DEF CancelScan, CancelSettle
  <2>3. ASSUME NEW b \in DOMAIN boletos, CancelConfirm(r, b)
        PROVE  /\ UNCHANGED <<op, pc, inst, reply, pending, lacking>>
               /\ call'[q] = call[q]
    BY <1>t, <2>3 DEF CancelConfirm
  <2>. QED  BY <1>1, <2>1, <2>2, <2>3 DEF CancelStep
<1>2. CASE EmitStep(r)
  <2>1. CASE BoletosList(r)
    BY <1>t, <2>1 DEF BoletosList, RequestTypeOK
  <2>2. CASE BoletosCheck(r)
    BY <1>t, <2>2 DEF BoletosCheck, RequestTypeOK
  <2>3. CASE BoletosEmit(r)
    BY <1>t, <2>3 DEF BoletosEmit, RequestTypeOK
  <2>4. ASSUME NEW i \in Installments, GenerateBoleto(r, i)
        PROVE  /\ op'[q] = op[q] /\ pc'[q] = pc[q] /\ inst'[q] = inst[q]
               /\ reply'[q] = reply[q]
               /\ UNCHANGED <<call, pending, lacking>>
    BY <1>t, <2>4 DEF GenerateBoleto, RequestTypeOK
  <2>. QED  BY <1>2, <2>1, <2>2, <2>3, <2>4 DEF EmitStep
<1>3. CASE PaymentStep(r)
  <2>1. ASSUME NEW i \in Installments,
               RegisterPayment(r, i) \/ CancelInstallmentBoletos(r, i)
        PROVE  /\ op'[q] = op[q] /\ pc'[q] = pc[q] /\ inst'[q] = inst[q]
               /\ reply'[q] = reply[q]
               /\ UNCHANGED <<call, pending, lacking>>
    BY <1>t, <2>1 DEF RegisterPayment, CancelInstallmentBoletos, RequestTypeOK
  <2>2. CASE PaymentDetails(r) \/ LookupAnswered(r)
    BY <1>t, <2>2 DEF PaymentDetails, LookupAnswered, RequestTypeOK
  <2>3. CASE LookupBoleto(r)
    <3>1. /\ UNCHANGED <<op, inst, pending, lacking>>
          /\ pc'[q] = pc[q] /\ reply'[q] = reply[q]
      BY <1>t, <2>3 DEF LookupBoleto, RequestTypeOK
    <3>2. call'[q] = call[q]
      BY <1>t, <2>3 DEF LookupBoleto
    <3>. QED  BY <3>1, <3>2
  <2>. QED  BY <1>3, <2>1, <2>2, <2>3 DEF PaymentStep
<1>4. CASE PutStep(r)
  <2>1. ASSUME NEW s, UpdateMovement(r, s)
        PROVE  /\ op'[q] = op[q] /\ pc'[q] = pc[q] /\ inst'[q] = inst[q]
               /\ reply'[q] = reply[q]
               /\ UNCHANGED <<call, pending, lacking>>
    BY <1>t, <2>1 DEF UpdateMovement, RequestTypeOK
  <2>2. ASSUME NEW b, NEW s, UpdateBoleto(r, b, s)
        PROVE  /\ op'[q] = op[q] /\ pc'[q] = pc[q] /\ inst'[q] = inst[q]
               /\ reply'[q] = reply[q]
               /\ UNCHANGED <<call, pending, lacking>>
    BY <1>t, <2>2 DEF UpdateBoleto, RequestTypeOK
  <2>. QED  BY <1>4, <2>1, <2>2 DEF PutStep
<1>5. CASE QueryFails(r)
  BY <1>t, <1>5 DEF QueryFails, RequestTypeOK
<1>. QED  BY <1>1, <1>2, <1>3, <1>4, <1>5 DEF RequestStep

(* A request starts once, keeps its operation and its installment from then *)
(* on, and stays on its course.                                             *)
LEMMA RequestCourse ==
  ASSUME TypeOK, NEW r \in Requests, Course(r), RequestStep(r)
  PROVE  /\ Course(r)'
         /\ pc[r] # "idle" => op'[r] = op[r] /\ inst'[r] = inst[r]
         /\ pc'[r] # "idle"
<1> USE DEF Starts, At, Goto, Reply, Course
<1>t. RequestTypeOK
  BY TypeParts
<1>1. CASE CancelStep(r)
  <2>1. CASE CancelRead(r) \/ CancelUpdate(r) \/ CancelList(r) \/ CancelReply(r)
    BY <1>t, <2>1
    DEF CancelRead, CancelUpdate, CancelList, CancelReply, RequestTypeOK
  <2>2. ASSUME NEW i \in Installments, CancelScan(r, i) \/ CancelSettle(r, i)
        PROVE  UNCHANGED <<op, pc, inst, reply>> /\ pc[r] = "cancel.boletos"
    BY <2>2 DEF CancelScan, CancelSettle
  <2>3. ASSUME NEW b \in DOMAIN boletos, CancelConfirm(r, b)
        PROVE  /\ UNCHANGED <<op, pc, inst, reply>>
               /\ pc[r] \notin {"idle", "pay.details", "lookup"}
    BY <2>3 DEF CancelConfirm
  <2>. QED  BY <1>1, <2>1, <2>2, <2>3 DEF CancelStep
<1>2. CASE EmitStep(r)
  <2>1. CASE BoletosList(r)
    BY <1>t, <2>1 DEF BoletosList, RequestTypeOK
  <2>2. CASE BoletosCheck(r)
    BY <1>t, <2>2 DEF BoletosCheck, RequestTypeOK
  <2>3. CASE BoletosEmit(r)
    BY <1>t, <2>3 DEF BoletosEmit, RequestTypeOK
  <2>4. CASE \E i \in Installments : GenerateBoleto(r, i)
    BY <1>t, <2>4 DEF GenerateBoleto, RequestTypeOK
  <2>. QED  BY <1>2, <2>1, <2>2, <2>3, <2>4 DEF EmitStep
<1>3. CASE PaymentStep(r)
  <2>1. ASSUME NEW i \in Installments, RegisterPayment(r, i)
        PROVE  /\ op'[r] = "pay" /\ pc[r] = "idle"
               /\ pc'[r] \in {"pay.details", "done"}
               /\ UNCHANGED call
    BY <1>t, <2>1 DEF RegisterPayment, RequestTypeOK
  <2>2. ASSUME NEW i \in Installments, CancelInstallmentBoletos(r, i)
        PROVE  /\ op'[r] = "cancelBoletos" /\ pc[r] = "idle"
               /\ pc'[r] = "lookup" /\ UNCHANGED call
    BY <1>t, <2>2 DEF CancelInstallmentBoletos, RequestTypeOK
  <2>3. CASE PaymentDetails(r) \/ LookupAnswered(r)
    BY <1>t, <2>3 DEF PaymentDetails, LookupAnswered, RequestTypeOK
  <2>4. CASE LookupBoleto(r)
    <3>1. /\ UNCHANGED <<op, inst>> /\ pc[r] = "lookup"
          /\ pc'[r] \in {"wait", "done"}
      BY <1>t, <2>4 DEF LookupBoleto, RequestTypeOK
    <3>. QED  BY <3>1
  <2>. QED  BY <1>3, <2>1, <2>2, <2>3, <2>4 DEF PaymentStep
<1>4. CASE PutStep(r)
  <2>1. ASSUME NEW s, UpdateMovement(r, s)
        PROVE  op'[r] = "putMovement" /\ pc[r] = "idle" /\ pc'[r] = "done"
    BY <1>t, <2>1 DEF UpdateMovement, RequestTypeOK
  <2>2. ASSUME NEW b, NEW s, UpdateBoleto(r, b, s)
        PROVE  op'[r] = "putBoleto" /\ pc[r] = "idle" /\ pc'[r] = "done"
    BY <1>t, <2>2 DEF UpdateBoleto, RequestTypeOK
  <2>. QED  BY <1>4, <2>1, <2>2 DEF PutStep
<1>5. CASE QueryFails(r)
  BY <1>t, <1>5 DEF QueryFails, RequestTypeOK
<1>. QED  BY <1>1, <1>2, <1>3, <1>4, <1>5 DEF RequestStep

(* Nothing but its own steps and a restart moves a request on.              *)
LEMMA OnCourseStep ==
  TypeOK /\ OnCourse /\ [Next]_vars => OnCourse'
<1> SUFFICES ASSUME TypeOK, OnCourse, [Next]_vars, NEW q \in Requests
             PROVE  Course(q)'
  BY DEF OnCourse
<1>q. Course(q)
  BY DEF OnCourse
<1>1. ASSUME NEW r \in Requests, RequestStep(r)
      PROVE  Course(q)'
  BY <1>1, <1>q, RequestAlone, RequestCourse DEF Course
<1>2. ASSUME NEW r \in Requests, N8nAnswers(r)
      PROVE  Course(q)'
  <2>1. /\ UNCHANGED <<op, pc, reply>>
        /\ \E b \in DOMAIN call[r] : \E p \in Phases :
             call' = [call EXCEPT ![r][b] = p]
    BY <1>2, AnswerFrame
  <2>2. DOMAIN call'[q] = DOMAIN call[q]
    BY <2>1, TypeParts DEF CallTypeOK
  <2>. QED  BY <1>q, <2>1, <2>2 DEF Course
<1>3. CASE Crash
  <2>1. /\ UNCHANGED <<op, reply, call>>
        /\ pc'[q] = pc[q] \/ pc'[q] = "dead"
    BY <1>3 DEF Crash
  <2>. QED  BY <1>q, <2>1 DEF Course
<1>4. CASE \/ CreationStep \/ Notify
           \/ \E i \in Installments, o \in Origins : TimerFires(i, o)
           \/ \E i \in Installments : IssueAnswered(i)
           \/ UNCHANGED vars
  BY <1>4, <1>q, OtherRequestFrame DEF Course, requestVars
<1>. QED  BY <1>1, <1>2, <1>3, <1>4 DEF Next

LEMMA CourseInvariant == Spec => []OnCourse
<1>1. Init => OnCourse
  BY DEF Init, OnCourse, Course
<1>. QED  BY <1>1, BillingInvariant, OnCourseStep, PTL DEF Spec

----------------------------------------------------------------------------
(* On whose word the bank cancels a boleto.                                 *)

(* Only three operations send boletos to N8N, and the two that are about    *)
(* one installment send its own.                                            *)
OwnCalls(r) ==
  /\ DOMAIN call[r] # {} => op[r] \in {"cancel", "pay", "cancelBoletos"}
  /\ op[r] \in {"pay", "cancelBoletos"} =>
       \A b \in DOMAIN call[r] : boletos[b].inst = inst[r]

CallsOwn == \A r \in Requests : OwnCalls(r)

LEMMA OwnCallsRequest ==
  ASSUME TypeOK, CallsReachBank, NEW r \in Requests, Course(r), OwnCalls(r),
         RequestStep(r)
  PROVE  OwnCalls(r)'
<1>t. BoletoTypeOK /\ RequestTypeOK /\ CallTypeOK
  BY TypeParts
<1>k. RowsKept
  BY <1>t, StepImplements, RowsKeptStep DEF Next
<1>c. Course(r)' /\ (pc[r] # "idle" => op'[r] = op[r] /\ inst'[r] = inst[r])
  BY RequestCourse
<1>d. /\ DOMAIN call[r] \subseteq DOMAIN boletos
      /\ \A b \in DOMAIN boletos : boletos'[b].inst = boletos[b].inst
  BY <1>t, <1>k DEF CallTypeOK, RowsKept
<1>1. CASE DOMAIN call'[r] = DOMAIN call[r]
  <2>1. CASE pc[r] = "idle"
    BY <1>1, <2>1 DEF Course, OwnCalls
  <2>2. CASE pc[r] # "idle"
    BY <1>1, <1>c, <1>d, <2>2 DEF OwnCalls
  <2>. QED  BY <2>1, <2>2
<1>2. CASE LookupBoleto(r)
  <2>1. /\ op' = op /\ inst' = inst /\ boletos' = boletos
        /\ \/ call' = call
           \/ \E b \in DOMAIN boletos :
                /\ NewestReceivable(b, inst[r])
                /\ call' = [call EXCEPT ![r] = [c \in {b} |-> "posted"]]
    BY <1>2 DEF LookupBoleto, At, boletoVars
  <2>2. CASE call' = call
    BY <1>1, <2>2
  <2>3. ASSUME NEW b \in DOMAIN boletos, NewestReceivable(b, inst[r]),
               call' = [call EXCEPT ![r] = [c \in {b} |-> "posted"]]
        PROVE  OwnCalls(r)'
    <3>1. DOMAIN call'[r] = {b}
      BY <1>t, <2>3 DEF CallTypeOK
    <3>2. boletos[b].inst = inst[r]
      BY <2>3 DEF NewestReceivable, Receivable, BoletosOf
    <3>3. op[r] \in {"pay", "cancelBoletos"}
      BY <1>2 DEF LookupBoleto, At, Course
    <3>. QED  BY <2>1, <3>1, <3>2, <3>3 DEF OwnCalls
  <2>. QED  BY <2>1, <2>2, <2>3
<1>3. CASE \E i \in Installments : CancelScan(r, i)
  <2>1. pc[r] = "cancel.boletos"
    BY <1>3 DEF CancelScan
  <2>2. op'[r] = "cancel"
    BY <1>c, <2>1 DEF Course
  <2>. QED  BY <2>2 DEF OwnCalls
<1>4. CASE \E b \in DOMAIN boletos : CancelConfirm(r, b)
  <2>1. op[r] = "cancel" /\ UNCHANGED op
    BY <1>4 DEF CancelConfirm
  <2>. QED  BY <2>1 DEF OwnCalls
<1>5. \/ UNCHANGED call \/ LookupBoleto(r)
      \/ \E i \in Installments : CancelScan(r, i)
      \/ \E b \in DOMAIN boletos : CancelConfirm(r, b)
  BY DEF RequestStep, CancelStep, EmitStep, PaymentStep, PutStep, QueryFails,
         CancelRead, CancelUpdate, CancelList, CancelSettle, CancelReply,
         BoletosList, BoletosCheck, BoletosEmit, GenerateBoleto,
         RegisterPayment, PaymentDetails, CancelInstallmentBoletos,
         LookupAnswered, UpdateMovement, UpdateBoleto
<1>. QED  BY <1>1, <1>2, <1>3, <1>4, <1>5

LEMMA OwnCallsStep ==
  TypeOK /\ CallsReachBank /\ OnCourse /\ CallsOwn /\ [Next]_vars => CallsOwn'
<1> SUFFICES ASSUME TypeOK, CallsReachBank, OnCourse, CallsOwn,
                    [Next]_vars, NEW q \in Requests
             PROVE  OwnCalls(q)'
  BY DEF CallsOwn
<1>t. BoletoTypeOK /\ CallTypeOK
  BY TypeParts
<1>k. RowsKept
  BY <1>t, StepImplements, RowsKeptStep
<1>q. OwnCalls(q) /\ Course(q)
  BY DEF CallsOwn, OnCourse
<1>s. ASSUME op'[q] = op[q], inst'[q] = inst[q], DOMAIN call'[q] = DOMAIN call[q]
      PROVE  OwnCalls(q)'
  BY <1>t, <1>k, <1>q, <1>s DEF OwnCalls, CallTypeOK, RowsKept
<1>1. ASSUME NEW r \in Requests, RequestStep(r)
      PROVE  OwnCalls(q)'
  <2>1. CASE q = r
    BY <1>1, <1>q, <2>1, OwnCallsRequest
  <2>2. CASE q # r
    BY <1>1, <1>s, <2>2, RequestAlone
  <2>. QED  BY <2>1, <2>2
<1>2. ASSUME NEW r \in Requests, N8nAnswers(r)
      PROVE  OwnCalls(q)'
  <2>1. /\ UNCHANGED <<op, inst>>
        /\ \E b \in DOMAIN call[r] : \E p \in Phases :
             call' = [call EXCEPT ![r][b] = p]
    BY <1>2, AnswerFrame
  <2>2. DOMAIN call'[q] = DOMAIN call[q]
    BY <1>t, <2>1 DEF CallTypeOK
  <2>. QED  BY <1>s, <2>1, <2>2
<1>3. CASE Crash
  BY <1>3, <1>s DEF Crash
<1>4. CASE \/ CreationStep \/ Notify
           \/ \E i \in Installments, o \in Origins : TimerFires(i, o)
           \/ \E i \in Installments : IssueAnswered(i)
           \/ UNCHANGED vars
  BY <1>4, <1>s, OtherRequestFrame DEF requestVars
<1>. QED  BY <1>1, <1>2, <1>3, <1>4 DEF Next

(* A request forgets no call it has made.                                   *)
LEMMA CallsLast ==
  ASSUME TypeOK, OnCourse, [Next]_vars, NEW q \in Requests
  PROVE  DOMAIN call[q] \subseteq DOMAIN call'[q]
<1>t. CallTypeOK
  BY TypeParts
<1>1. ASSUME NEW r \in Requests, RequestStep(r)
      PROVE  DOMAIN call[q] \subseteq DOMAIN call'[q]
  <2>1. CASE q # r
    BY <1>1, <2>1, RequestAlone
  <2>2. ASSUME q = r, NEW i \in Installments, CancelScan(r, i)
        PROVE  DOMAIN call[q] \subseteq DOMAIN call'[q]
    <3> DEFINE f == [b \in DOMAIN call[r] \cup BoletosOf(i) |->
                       IF b \in BoletosOf(i) THEN "posted" ELSE call[r][b]]
    <3>1. UNCHANGED call \/ call' = [call EXCEPT ![r] = f]
      BY <2>2 DEF CancelScan
    <3>2. DOMAIN call[r] \subseteq DOMAIN f
      OBVIOUS
    <3> HIDE DEF f
    <3>. QED  BY <1>t, <2>2, <3>1, <3>2 DEF CallTypeOK
  <2>3. ASSUME NEW b \in DOMAIN boletos, CancelConfirm(r, b)
        PROVE  DOMAIN call[q] \subseteq DOMAIN call'[q]
    <3>1. \E p \in Phases : call' = [call EXCEPT ![r][b] = p]
      BY <2>3 DEF CancelConfirm, Phases
    <3>. QED  BY <1>t, <3>1 DEF CallTypeOK
  <2>4. CASE q = r /\ LookupBoleto(r)
    BY <2>4 DEF LookupBoleto, At, OnCourse, Course
  <2>5. \/ UNCHANGED call \/ LookupBoleto(r)
        \/ \E i \in Installments : CancelScan(r, i)
        \/ \E b \in DOMAIN boletos : CancelConfirm(r, b)
    BY <1>1
    DEF RequestStep, CancelStep, EmitStep, PaymentStep, PutStep, QueryFails,
        CancelRead, CancelUpdate, CancelList, CancelSettle, CancelReply,
        BoletosList, BoletosCheck, BoletosEmit, GenerateBoleto,
        RegisterPayment, PaymentDetails, CancelInstallmentBoletos,
        LookupAnswered, UpdateMovement, UpdateBoleto
  <2>. QED  BY <2>1, <2>2, <2>3, <2>4, <2>5
<1>2. ASSUME NEW r \in Requests, N8nAnswers(r)
      PROVE  DOMAIN call[q] \subseteq DOMAIN call'[q]
  <2>1. \E b \in DOMAIN call[r] : \E p \in Phases :
          call' = [call EXCEPT ![r][b] = p]
    BY <1>2, AnswerFrame
  <2>. QED  BY <1>t, <2>1 DEF CallTypeOK
<1>3. CASE Crash
  BY <1>3 DEF Crash
<1>4. CASE \/ CreationStep \/ Notify
           \/ \E i \in Installments, o \in Origins : TimerFires(i, o)
           \/ \E i \in Installments : IssueAnswered(i)
           \/ UNCHANGED vars
  BY <1>4, OtherRequestFrame DEF requestVars
<1>. QED  BY <1>1, <1>2, <1>3, <1>4 DEF Next

(* No boleto is cancelled at the bank that was not before.                  *)
BankKept ==
  \A c \in DOMAIN boletos' :
    boletos'[c].bank = "cancelled" =>
      c \in DOMAIN boletos /\ boletos[c].bank = "cancelled"

(* A row that N8N inserts is open at the bank, and a status changes nothing *)
(* there.                                                                   *)
LEMMA BankKeptByRows ==
  ASSUME BoletoTypeOK,
         \/ boletos' = boletos
         \/ \E i \in Installments : N8nIssues(i)
         \/ \E b \in DOMAIN boletos : WriteCancelled(b)
         \/ \E b \in DOMAIN boletos, s \in RowStatus : PutBoleto(b, s)
  PROVE  BankKept
<1>t. boletos \in Seq(Row)
  BY DEF BoletoTypeOK
<1>d. TableKept => DOMAIN boletos' = DOMAIN boletos
  BY <1>t DEF TableKept
<1>1. CASE \E i \in Installments : N8nIssues(i)
  <2>1. PICK i \in Installments : N8nIssues(i)
    BY <1>1
  <2> DEFINE row == [inst |-> i, status |-> "A_RECEBER", bank |-> "open"]
  <2>2. boletos' = Append(boletos, row) /\ row.bank = "open"
    BY <2>1 DEF N8nIssues
  <2> HIDE DEF row
  <2>3. \A c \in DOMAIN boletos' :
          boletos'[c] = row \/ (c \in DOMAIN boletos /\ boletos'[c] = boletos[c])
    BY <1>t, <2>2
  <2>. QED  BY <2>2, <2>3 DEF BankKept
<1>2. ASSUME NEW b \in DOMAIN boletos, NEW s \in RowStatus,
             boletos' = [boletos EXCEPT ![b].status = s]
      PROVE  BankKept
  <2>1. /\ TableKept
        /\ boletos'[b].bank = boletos[b].bank
        /\ \A c \in DOMAIN boletos \ {b} : boletos'[c] = boletos[c]
    BY <1>t, <1>2, StatusUpdate
  <2>. QED  BY <1>d, <2>1 DEF BankKept
<1>3. CASE \E b \in DOMAIN boletos : WriteCancelled(b)
  BY <1>2, <1>3 DEF WriteCancelled, RowStatus
<1>4. CASE \E b \in DOMAIN boletos, s \in RowStatus : PutBoleto(b, s)
  BY <1>2, <1>4 DEF PutBoleto
<1>5. CASE boletos' = boletos
  BY <1>5 DEF BankKept
<1>. QED  BY <1>1, <1>3, <1>4, <1>5

(* A boleto that is cancelled at the bank is one that a request has sent.   *)
BankOnCall ==
  \A b \in DOMAIN boletos :
    boletos[b].bank = "cancelled" => \E r \in Requests : b \in DOMAIN call[r]

LEMMA BankOnCallStep ==
  TypeOK /\ OnCourse /\ BankOnCall /\ [Next]_vars => BankOnCall'
<1> SUFFICES ASSUME TypeOK, OnCourse, BankOnCall, [Next]_vars
             PROVE  BankOnCall'
  OBVIOUS
<1>t. BoletoTypeOK
  BY TypeParts
<1>l. \A q \in Requests : DOMAIN call[q] \subseteq DOMAIN call'[q]
  BY CallsLast
<1>k. ASSUME BankKept PROVE BankOnCall'
  BY <1>k, <1>l DEF BankKept, BankOnCall
<1>1. ASSUME NEW r \in Requests, N8nAnswers(r)
      PROVE  BankOnCall'
  <2>1. PICK b \in DOMAIN call[r] : BankCancels(b) \/ boletos' = boletos
    BY <1>1 DEF N8nAnswers, N8nCancels, N8nRejects, Answer, boletoVars
  <2>2. CASE boletos' = boletos
    BY <1>k, <1>t, <2>2, BankKeptByRows
  <2>3. CASE BankCancels(b)
    <3>1. /\ b \in DOMAIN boletos /\ TableKept
          /\ \A c \in DOMAIN boletos \ {b} : boletos'[c] = boletos[c]
      BY <1>t, <2>3, BankUpdate DEF BankCancels, BoletoTypeOK
    <3>2. DOMAIN boletos' = DOMAIN boletos
      BY <1>t, <3>1 DEF TableKept, BoletoTypeOK
    <3>. QED  BY <1>l, <2>1, <3>1, <3>2 DEF BankOnCall
  <2>. QED  BY <2>1, <2>2, <2>3
<1>2. ASSUME NEW r \in Requests, RequestStep(r)
      PROVE  BankOnCall'
  <2>1. \/ boletos' = boletos
        \/ \E b \in DOMAIN boletos : WriteCancelled(b)
        \/ \E b \in DOMAIN boletos, s \in RowStatus : PutBoleto(b, s)
    BY <1>2
    DEF RequestStep, CancelStep, EmitStep, PaymentStep, PutStep, QueryFails,
        CancelRead, CancelUpdate, CancelList, CancelScan, CancelConfirm,
        CancelSettle, CancelReply, BoletosList, BoletosCheck, BoletosEmit,
        GenerateBoleto, CreateBoleto, RegisterPayment, PaymentDetails,
        CancelInstallmentBoletos, LookupBoleto, LookupAnswered,
        UpdateMovement, UpdateBoleto, boletoVars
  <2>. QED  BY <1>k, <1>t, <2>1, BankKeptByRows
<1>3. CASE \/ CreationStep \/ Notify \/ Crash \/ UNCHANGED vars
           \/ \E i \in Installments, o \in Origins : TimerFires(i, o)
           \/ \E i \in Installments : IssueAnswered(i)
  <2>1. boletos' = boletos \/ \E i \in Installments : N8nIssues(i)
    BY <1>3
    DEF CreationStep, BeginCreation, InsertInstallment, CreationFails,
        EndCreation, Commit, CreateBoleto, Notify, Crash, LoseTimers,
        TimerFires, FireTimer, IssueAnswered, N8nRefuses, vars, boletoVars
  <2>. QED  BY <1>k, <1>t, <2>1, BankKeptByRows
<1>. QED  BY <1>1, <1>2, <1>3 DEF Next

LEMMA BankInvariant == Spec => [](CallsOwn /\ BankOnCall)
<1>1. Init => CallsOwn /\ BankOnCall
  BY DEF Init, BoletoInit, CallsOwn, OwnCalls, BankOnCall
<1>. QED
  BY <1>1, BillingInvariant, CourseInvariant, OwnCallsStep, BankOnCallStep,
     PTL DEF Spec

----------------------------------------------------------------------------
(* A request arms an emission for committed installments only.              *)

(* What a request has still to look at, or to emit, is committed.           *)
ListsCommitted ==
  \A r \in Requests : pending[r] \cup lacking[r] \subseteq installments

LEMMA InstallmentsGrow ==
  TypeOK /\ [Next]_vars => installments \subseteq installments'
<1> SUFFICES ASSUME TypeOK, [Next]_vars
             PROVE  installments \subseteq installments'
  OBVIOUS
<1>1. CASE CreationStep
  BY <1>1
  DEF TypeOK, CreationStep, BeginCreation, InsertInstallment, CreationFails,
      EndCreation, Commit, BecomesVisible, RollsBack
<1>2. ASSUME NEW r \in Requests, RequestStep(r)
      PROVE  UNCHANGED installments
  BY <1>2
  DEF RequestStep, CancelStep, EmitStep, PaymentStep, PutStep, QueryFails,
      CancelRead, CancelUpdate, CancelList, CancelScan, CancelConfirm,
      CancelSettle, CancelReply, BoletosList, BoletosCheck, BoletosEmit,
      GenerateBoleto, RegisterPayment, PaymentDetails,
      CancelInstallmentBoletos, LookupBoleto, LookupAnswered,
      UpdateMovement, UpdateBoleto, RequestFrame
<1>3. CASE \E r \in Requests : N8nAnswers(r)
  BY <1>3, AnswerFrame
<1>4. CASE \/ Notify \/ Crash \/ UNCHANGED vars
           \/ \E i \in Installments, o \in Origins : TimerFires(i, o)
           \/ \E i \in Installments : IssueAnswered(i)
  BY <1>4 DEF Notify, Crash, TimerFires, IssueAnswered, vars
<1>. QED  BY <1>1, <1>2, <1>3, <1>4 DEF Next

LEMMA ListsRequest ==
  ASSUME TypeOK, ListsCommitted, NEW r \in Requests, RequestStep(r)
  PROVE  pending'[r] \cup lacking'[r] \subseteq installments
<1>t. RequestTypeOK
  BY TypeParts
<1>l. pending[r] \cup lacking[r] \subseteq installments
  BY DEF ListsCommitted
<1>1. CASE BoletosList(r)
  BY <1>1, <1>t, <1>l DEF BoletosList, RequestTypeOK
<1>2. CASE BoletosCheck(r)
  <2>1. PICK i \in First(pending[r]) :
          /\ pending' = [pending EXCEPT ![r] = pending[r] \ {i}]
          /\ \/ lacking' = [lacking EXCEPT ![r] = lacking[r] \cup {i}]
             \/ lacking' = [lacking EXCEPT ![r] = lacking[r]]
    BY <1>2 DEF BoletosCheck
  <2>2. i \in pending[r]
    BY <2>1 DEF First
  <2>. QED  BY <1>t, <1>l, <2>1, <2>2 DEF RequestTypeOK
<1>3. CASE BoletosEmit(r)
  <2>1. PICK i : /\ lacking' = [lacking EXCEPT ![r] = lacking[r] \ {i}]
                 /\ pending' = pending
    BY <1>3 DEF BoletosEmit
  <2>. QED  BY <1>t, <1>l, <2>1 DEF RequestTypeOK
<1>4. CASE UNCHANGED <<pending, lacking>>
  BY <1>4, <1>l
<1>5. \/ UNCHANGED <<pending, lacking>>
      \/ BoletosList(r) \/ BoletosCheck(r) \/ BoletosEmit(r)
  BY DEF RequestStep, CancelStep, EmitStep, PaymentStep, PutStep, QueryFails,
         CancelRead, CancelUpdate, CancelList, CancelScan, CancelConfirm,
         CancelSettle, CancelReply, GenerateBoleto,
         RegisterPayment, PaymentDetails, CancelInstallmentBoletos,
         LookupBoleto, LookupAnswered, UpdateMovement, UpdateBoleto
<1>. QED  BY <1>1, <1>2, <1>3, <1>4, <1>5

LEMMA ListsStep == TypeOK /\ ListsCommitted /\ [Next]_vars => ListsCommitted'
<1> SUFFICES ASSUME TypeOK, ListsCommitted, [Next]_vars, NEW q \in Requests
             PROVE  pending'[q] \cup lacking'[q] \subseteq installments'
  BY DEF ListsCommitted
<1>g. installments \subseteq installments'
  BY InstallmentsGrow
<1>s. ASSUME pending'[q] = pending[q], lacking'[q] = lacking[q]
      PROVE  pending'[q] \cup lacking'[q] \subseteq installments'
  BY <1>g, <1>s DEF ListsCommitted
<1>1. ASSUME NEW r \in Requests, RequestStep(r)
      PROVE  pending'[q] \cup lacking'[q] \subseteq installments'
  <2>1. CASE q = r
    BY <1>1, <1>g, <2>1, ListsRequest
  <2>2. CASE q # r
    BY <1>1, <1>s, <2>2, RequestAlone
  <2>. QED  BY <2>1, <2>2
<1>2. CASE \E r \in Requests : N8nAnswers(r)
  BY <1>2, <1>s, AnswerFrame
<1>3. CASE Crash
  BY <1>3, <1>s DEF Crash
<1>4. CASE \/ CreationStep \/ Notify
           \/ \E i \in Installments, o \in Origins : TimerFires(i, o)
           \/ \E i \in Installments : IssueAnswered(i)
           \/ UNCHANGED vars
  BY <1>4, <1>s, OtherRequestFrame DEF requestVars
<1>. QED  BY <1>1, <1>2, <1>3, <1>4 DEF Next

(* A timer of a request is armed by CreateBoleto(_, "request") only.        *)
LEMMA TimersOfRequests ==
  ASSUME TypeOK, ListsCommitted, [Next]_vars,
         NEW j \in Installments, timers'["request"][j] > 0
  PROVE  timers["request"][j] > 0 \/ j \in installments
<1>t. timers \in [Origins -> [Installments -> Nat]]
  BY DEF TypeOK, BoletoTypeOK
<1>o. "request" \in Origins /\ "creation" \in Origins /\ "request" # "creation"
  BY DEF Origins
<1>u. CASE UNCHANGED timers
  BY <1>u
<1>a. ASSUME NEW i \in Installments, i \in installments,
             CreateBoleto(i, "request")
      PROVE  timers["request"][j] > 0 \/ j \in installments
  BY <1>a, <1>t, <1>o DEF CreateBoleto
<1>1. CASE CreationStep
  <2>1. CASE InsertInstallment
    <3>1. CASE CreateBoleto(inserted + 1, "creation")
      <4>1. timers'["request"] = timers["request"]
        BY <1>t, <1>o, <3>1 DEF CreateBoleto
      <4>. QED  BY <4>1
    <3>. QED  BY <1>u, <2>1, <3>1 DEF InsertInstallment, boletoVars
  <2>. QED
    BY <1>1, <1>u, <2>1
    DEF CreationStep, BeginCreation, CreationFails, EndCreation, Commit, boletoVars
<1>2. ASSUME NEW r \in Requests, RequestStep(r)
      PROVE  timers["request"][j] > 0 \/ j \in installments
  <2>1. CASE BoletosEmit(r)
    <3>1. PICK i \in First(lacking[r]) : CreateBoleto(i, "request")
      BY <2>1 DEF BoletosEmit
    <3>2. i \in installments /\ i \in Installments
      BY <3>1 DEF First, ListsCommitted, TypeOK
    <3>. QED  BY <1>a, <3>1, <3>2
  <2>2. ASSUME NEW i \in Installments, GenerateBoleto(r, i)
        PROVE  timers["request"][j] > 0 \/ j \in installments
    BY <2>2, <1>a, <1>u DEF GenerateBoleto, boletoVars
  <2>3. \/ UNCHANGED timers \/ BoletosEmit(r)
        \/ \E i \in Installments : GenerateBoleto(r, i)
    BY <1>2
    DEF RequestStep, CancelStep, EmitStep, PaymentStep, PutStep, QueryFails,
        CancelRead, CancelUpdate, CancelList, CancelScan, CancelConfirm,
        CancelSettle, CancelReply, BoletosList, BoletosCheck,
        RegisterPayment, PaymentDetails, CancelInstallmentBoletos,
        LookupBoleto, LookupAnswered, UpdateMovement, UpdateBoleto,
        WriteCancelled, PutBoleto, boletoVars
  <2>. QED  BY <1>u, <2>1, <2>2, <2>3
<1>3. CASE \E r \in Requests : N8nAnswers(r)
  BY <1>3, <1>u
  DEF N8nAnswers, N8nCancels, N8nRejects, BankCancels, boletoVars
<1>4. CASE Crash
  <2>1. timers'["request"][j] = 0
    BY <1>4, <1>o DEF Crash, LoseTimers
  <2>. QED  BY <2>1
<1>5. ASSUME NEW i \in Installments, NEW o \in Origins, TimerFires(i, o)
      PROVE  timers["request"][j] > 0
  <2>1. /\ timers' = [timers EXCEPT ![o][i] = timers[o][i] - 1]
        /\ timers[o][i] > 0
    BY <1>5 DEF TimerFires, FireTimer
  <2>. QED  BY <1>t, <1>o, <2>1
<1>6. CASE Notify \/ UNCHANGED vars \/ \E i \in Installments : IssueAnswered(i)
  BY <1>6, <1>u
  DEF Notify, vars, boletoVars, IssueAnswered, N8nIssues, N8nRefuses
<1>. QED  BY <1>1, <1>2, <1>3, <1>4, <1>5, <1>6 DEF Next

(* No emission a request arms is of a row a rollback could take back.       *)
THEOREM RequestsEmitCommitted == Spec => []RequestsEmitOnlyCommitted
<1>1. Init => ListsCommitted /\ RequestsEmitOnlyCommitted
  BY DEF Init, BoletoInit, Origins, ListsCommitted, RequestsEmitOnlyCommitted
<1>2. TypeOK /\ ListsCommitted /\ RequestsEmitOnlyCommitted /\ [Next]_vars
        => RequestsEmitOnlyCommitted'
  BY TimersOfRequests, InstallmentsGrow DEF RequestsEmitOnlyCommitted
<1>. QED
  BY <1>1, <1>2, BillingInvariant, ListsStep, PTL DEF Spec

----------------------------------------------------------------------------
(* Payments answered and payments recorded.                                 *)

(* A request whose payment has been recorded, and which has not lost it to  *)
(* an error or to a restart since, or has sent a boleto before it did.      *)
Going(r) ==
  /\ op[r] = "pay"
  /\ \/ reply[r] = "ok" \/ DOMAIN call[r] # {}
     \/ pc[r] \in {"pay.details", "lookup", "wait"}

GoingOn(i) == {r \in Requests : Going(r) /\ inst[r] = i}

(* Between the requests that stand by a payment and those that asked for    *)
(* it: the receipts that the database has.                                  *)
PaymentsCounted ==
  \A i \in Installments :
    /\ Cardinality(GoingOn(i)) <= paid[i]
    /\ paid[i] <= Cardinality(PaymentsOn(i))

(* A request that does not register a payment makes itself no new payer,    *)
(* and does not stop being one.                                             *)
LEMMA PayerCourse ==
  ASSUME TypeOK, NEW r \in Requests, Course(r), RequestStep(r)
  PROVE  \/ \E i \in Installments :
              /\ pc[r] = "idle"
              /\ op'[r] = "pay" /\ inst'[r] = i
              /\ paid' = [paid EXCEPT ![i] = @ + 1]
         \/ /\ UNCHANGED paid
            /\ op[r] = "pay" => op'[r] = "pay" /\ inst'[r] = inst[r]
            /\ Going(r)' => Going(r) /\ inst'[r] = inst[r]
<1> USE DEF Starts, At, Goto, Reply, Course, Going
<1>t. RequestTypeOK
  BY TypeParts
<1>c. /\ Course(r)'
      /\ pc[r] # "idle" => op'[r] = op[r] /\ inst'[r] = inst[r]
  BY RequestCourse
<1>1. CASE CancelStep(r) \/ EmitStep(r)
  <2>1. UNCHANGED paid
    BY <1>1
    DEF CancelStep, EmitStep, CancelRead, CancelUpdate, CancelList, CancelScan,
        CancelConfirm, CancelSettle, CancelReply, BoletosList, BoletosCheck,
        BoletosEmit, GenerateBoleto
  <2>2. /\ op'[r] # "pay"
        /\ op[r] # "pay"
    <3>1. CASE CancelStep(r)
      <4>1. CASE CancelRead(r)
        BY <1>t, <4>1 DEF CancelRead, RequestTypeOK
      <4>2. CASE CancelUpdate(r) \/ CancelList(r) \/ CancelReply(r)
        BY <1>c, <4>2 DEF CancelUpdate, CancelList, CancelReply
      <4>3. CASE \E i \in Installments : CancelScan(r, i) \/ CancelSettle(r, i)
        BY <1>c, <4>3 DEF CancelScan, CancelSettle
      <4>4. CASE \E b \in DOMAIN boletos : CancelConfirm(r, b)
        BY <1>c, <4>4 DEF CancelConfirm
      <4>. QED  BY <3>1, <4>1, <4>2, <4>3, <4>4 DEF CancelStep
    <3>2. CASE BoletosList(r) \/ \E i \in Installments : GenerateBoleto(r, i)
      BY <1>t, <3>2 DEF BoletosList, GenerateBoleto, RequestTypeOK
    <3>3. CASE BoletosCheck(r) \/ BoletosEmit(r)
      BY <1>c, <3>3 DEF BoletosCheck, BoletosEmit
    <3>. QED  BY <1>1, <3>1, <3>2, <3>3 DEF EmitStep
  <2>. QED  BY <2>1, <2>2
<1>2. ASSUME NEW i \in Installments, RegisterPayment(r, i)
      PROVE  \/ /\ pc[r] = "idle"
                /\ op'[r] = "pay" /\ inst'[r] = i
                /\ paid' = [paid EXCEPT ![i] = @ + 1]
             \/ UNCHANGED paid /\ op[r] # "pay" /\ ~ Going(r)'
  BY <1>t, <1>2 DEF RegisterPayment, ReceivesPayment, RequestTypeOK
<1>3. ASSUME NEW i \in Installments, CancelInstallmentBoletos(r, i)
      PROVE  UNCHANGED paid /\ op[r] # "pay" /\ ~ Going(r)'
  BY <1>t, <1>3 DEF CancelInstallmentBoletos, RequestTypeOK
<1>4. CASE PaymentDetails(r) \/ LookupAnswered(r)
  BY <1>t, <1>c, <1>4 DEF PaymentDetails, LookupAnswered, RequestTypeOK
<1>5. CASE LookupBoleto(r)
  <2>1. /\ UNCHANGED <<paid, op, inst>> /\ pc[r] = "lookup"
        /\ op[r] = "pay" => reply'[r] = reply[r]
    BY <1>t, <1>5 DEF LookupBoleto, RequestTypeOK
  <2>. QED  BY <2>1
<1>6. CASE PutStep(r)
  <2>1. UNCHANGED paid /\ pc[r] = "idle" /\ op'[r] # "pay"
    <3>1. ASSUME NEW s, UpdateMovement(r, s)
          PROVE  UNCHANGED paid /\ pc[r] = "idle" /\ op'[r] # "pay"
      BY <1>t, <3>1 DEF UpdateMovement, RequestTypeOK
    <3>2. ASSUME NEW b, NEW s, UpdateBoleto(r, b, s)
          PROVE  UNCHANGED paid /\ pc[r] = "idle" /\ op'[r] # "pay"
      BY <1>t, <3>2 DEF UpdateBoleto, RequestTypeOK
    <3>. QED  BY <1>6, <3>1, <3>2 DEF PutStep
  <2>. QED  BY <2>1
<1>7. CASE QueryFails(r)
  BY <1>t, <1>c, <1>7 DEF QueryFails, RequestTypeOK
<1>. QED
  BY <1>1, <1>2, <1>3, <1>4, <1>5, <1>6, <1>7 DEF RequestStep, PaymentStep

(* What no request registers leaves the counts in their places.             *)
LEMMA CountsStand ==
  ASSUME TypeOK, PaymentsCounted, NEW i \in Installments,
         paid'[i] = paid[i], GoingOn(i)' \subseteq GoingOn(i),
         PaymentsOn(i) \subseteq PaymentsOn(i)'
  PROVE  /\ Cardinality(GoingOn(i)') <= paid'[i]
         /\ paid'[i] <= Cardinality(PaymentsOn(i)')
<1>1. /\ IsFiniteSet(GoingOn(i)) /\ IsFiniteSet(GoingOn(i)')
      /\ IsFiniteSet(PaymentsOn(i)) /\ IsFiniteSet(PaymentsOn(i)')
  BY RequestsAssumption, FS_Subset DEF GoingOn, PaymentsOn
<1>2. /\ Cardinality(GoingOn(i)') <= Cardinality(GoingOn(i))
      /\ Cardinality(PaymentsOn(i)) <= Cardinality(PaymentsOn(i)')
  BY <1>1, FS_Subset
<1>3. /\ Cardinality(GoingOn(i)) \in Nat /\ Cardinality(GoingOn(i)') \in Nat
      /\ Cardinality(PaymentsOn(i)) \in Nat /\ Cardinality(PaymentsOn(i)') \in Nat
      /\ paid[i] \in Nat
  BY <1>1, FS_CardinalityType DEF TypeOK
<1>. QED  BY <1>2, <1>3 DEF PaymentsCounted

(* A payment registered adds one receipt and one payer.                     *)
LEMMA CountsGrow ==
  ASSUME TypeOK, PaymentsCounted, NEW i \in Installments, NEW r \in Requests,
         paid'[i] = paid[i] + 1, r \notin PaymentsOn(i),
         GoingOn(i)' \subseteq GoingOn(i) \cup {r},
         PaymentsOn(i)' = PaymentsOn(i) \cup {r}
  PROVE  /\ Cardinality(GoingOn(i)') <= paid'[i]
         /\ paid'[i] <= Cardinality(PaymentsOn(i)')
<1>1. /\ IsFiniteSet(GoingOn(i)) /\ IsFiniteSet(GoingOn(i)')
      /\ IsFiniteSet(PaymentsOn(i))
  BY RequestsAssumption, FS_Subset DEF GoingOn, PaymentsOn
<1>2. /\ IsFiniteSet(GoingOn(i) \cup {r})
      /\ \/ Cardinality(GoingOn(i) \cup {r}) = Cardinality(GoingOn(i))
         \/ Cardinality(GoingOn(i) \cup {r}) = Cardinality(GoingOn(i)) + 1
      /\ Cardinality(PaymentsOn(i) \cup {r}) = Cardinality(PaymentsOn(i)) + 1
  BY <1>1, FS_AddElement
<1>3. Cardinality(GoingOn(i)') <= Cardinality(GoingOn(i) \cup {r})
  BY <1>2, FS_Subset
<1>4. /\ Cardinality(GoingOn(i)) \in Nat /\ Cardinality(GoingOn(i)') \in Nat
      /\ Cardinality(PaymentsOn(i)) \in Nat /\ paid[i] \in Nat
  BY <1>1, FS_CardinalityType DEF TypeOK
<1>5. Cardinality(PaymentsOn(i)') = Cardinality(PaymentsOn(i)) + 1
  BY <1>2
<1>. QED  BY <1>2, <1>3, <1>4, <1>5 DEF PaymentsCounted

LEMMA CountsStep ==
  TypeOK /\ OnCourse /\ PaymentsCounted /\ [Next]_vars => PaymentsCounted'
<1> SUFFICES ASSUME TypeOK, OnCourse, PaymentsCounted, [Next]_vars,
                    NEW i \in Installments
             PROVE  /\ Cardinality(GoingOn(i)') <= paid'[i]
                    /\ paid'[i] <= Cardinality(PaymentsOn(i)')
  BY DEF PaymentsCounted, GoingOn, PaymentsOn
<1>p. paid \in [Installments -> Nat]
  BY DEF TypeOK
<1>s. ASSUME UNCHANGED <<paid, op, inst>>,
             \A q \in Requests : Going(q)' => Going(q)
      PROVE  /\ Cardinality(GoingOn(i)') <= paid'[i]
             /\ paid'[i] <= Cardinality(PaymentsOn(i)')
  BY <1>s, CountsStand DEF GoingOn, PaymentsOn
<1>1. ASSUME NEW r \in Requests, RequestStep(r)
      PROVE  /\ Cardinality(GoingOn(i)') <= paid'[i]
             /\ paid'[i] <= Cardinality(PaymentsOn(i)')
  <2>q. \A q \in Requests \ {r} : /\ op'[q] = op[q] /\ inst'[q] = inst[q]
                                  /\ Going(q)' <=> Going(q)
    BY <1>1, RequestAlone DEF Going
  <2>c. Course(r)
    BY DEF OnCourse
  <2>1. ASSUME NEW j \in Installments, pc[r] = "idle",
               op'[r] = "pay", inst'[r] = j, paid' = [paid EXCEPT ![j] = @ + 1]
        PROVE  /\ Cardinality(GoingOn(i)') <= paid'[i]
               /\ paid'[i] <= Cardinality(PaymentsOn(i)')
    <3>1. op[r] = "none" /\ ~ Going(r)
      BY <2>1, <2>c DEF Course, Going
    <3>2. CASE i = j
      <4>1. paid'[i] = paid[i] + 1
        BY <1>p, <2>1, <3>2
      <4>2. r \notin PaymentsOn(i) /\ PaymentsOn(i)' = PaymentsOn(i) \cup {r}
        BY <2>q, <2>1, <3>1, <3>2 DEF PaymentsOn
      <4>3. GoingOn(i)' \subseteq GoingOn(i) \cup {r}
        BY <2>q DEF GoingOn
      <4>. QED  BY <4>1, <4>2, <4>3, CountsGrow
    <3>3. CASE i # j
      <4>1. paid'[i] = paid[i]
        BY <1>p, <2>1, <3>3
      <4>2. PaymentsOn(i) \subseteq PaymentsOn(i)'
        BY <2>q, <3>1 DEF PaymentsOn
      <4>3. GoingOn(i)' \subseteq GoingOn(i)
        BY <2>q, <2>1, <3>3 DEF GoingOn
      <4>. QED  BY <4>1, <4>2, <4>3, CountsStand
    <3>. QED  BY <3>2, <3>3
  <2>2. ASSUME UNCHANGED paid, op[r] = "pay" => op'[r] = "pay" /\ inst'[r] = inst[r],
               Going(r)' => Going(r) /\ inst'[r] = inst[r]
        PROVE  /\ Cardinality(GoingOn(i)') <= paid'[i]
               /\ paid'[i] <= Cardinality(PaymentsOn(i)')
    <3>1. PaymentsOn(i) \subseteq PaymentsOn(i)'
      BY <2>q, <2>2 DEF PaymentsOn
    <3>2. GoingOn(i)' \subseteq GoingOn(i)
      BY <2>q, <2>2 DEF GoingOn
    <3>. QED  BY <2>2, <3>1, <3>2, CountsStand
  <2>. QED  BY <1>1, <2>1, <2>2, <2>c, PayerCourse
<1>2. CASE \E r \in Requests : N8nAnswers(r)
  <2>1. PICK r \in Requests : N8nAnswers(r)
    BY <1>2
  <2>2. /\ UNCHANGED <<paid, op, inst, pc, reply>>
        /\ \E b \in DOMAIN call[r] : \E p \in Phases :
             call' = [call EXCEPT ![r][b] = p]
    BY <2>1, AnswerFrame
  <2>3. \A q \in Requests : DOMAIN call'[q] = DOMAIN call[q]
    BY <2>2, TypeParts DEF CallTypeOK
  <2>. QED  BY <1>s, <2>2, <2>3 DEF Going
<1>3. CASE Crash
  <2>1. /\ UNCHANGED <<paid, op, inst, reply, call>>
        /\ \A q \in Requests : pc'[q] = pc[q] \/ pc'[q] = "dead"
    BY <1>3 DEF Crash
  <2>. QED  BY <1>s, <2>1 DEF Going
<1>4. CASE \/ CreationStep \/ Notify
           \/ \E j \in Installments, o \in Origins : TimerFires(j, o)
           \/ \E j \in Installments : IssueAnswered(j)
           \/ UNCHANGED vars
  <2>1. UNCHANGED requestVars
    BY <1>4, OtherRequestFrame
  <2>2. UNCHANGED paid
    BY <1>4
    DEF CreationStep, BeginCreation, InsertInstallment, CreationFails,
        EndCreation, Commit, Notify, TimerFires, IssueAnswered,
        vars
  <2>. QED  BY <1>s, <2>1, <2>2 DEF Going, requestVars
<1>. QED  BY <1>1, <1>2, <1>3, <1>4 DEF Next

LEMMA PaymentsInvariant == Spec => []PaymentsCounted
<1>1. Init => PaymentsCounted
  <2> SUFFICES ASSUME Init, NEW i \in Installments
               PROVE  /\ Cardinality(GoingOn(i)) <= paid[i]
                      /\ paid[i] <= Cardinality(PaymentsOn(i))
    BY DEF PaymentsCounted
  <2>1. GoingOn(i) = {} /\ PaymentsOn(i) = {} /\ paid[i] = 0
    BY DEF Init, GoingOn, Going, PaymentsOn
  <2>. QED  BY <2>1, FS_EmptySet
<1>. QED
  BY <1>1, BillingInvariant, CourseInvariant, CountsStep, PTL DEF Spec

(* A payment answered with success is recorded, and none is recorded twice. *)
THEOREM PaymentsAreRecorded == Spec => []PaymentRecorded
<1>1. TypeOK /\ PaymentsCounted => PaymentRecorded
  <2> SUFFICES ASSUME TypeOK, PaymentsCounted, NEW i \in Installments
               PROVE  /\ Cardinality({r \in PaymentsOn(i) : reply[r] = "ok"})
                           <= paid[i]
                      /\ paid[i] <= Cardinality(PaymentsOn(i))
    BY DEF PaymentRecorded
  <2> DEFINE ok == {r \in PaymentsOn(i) : reply[r] = "ok"}
  <2>1. ok \subseteq GoingOn(i)
    BY DEF PaymentsOn, GoingOn, Going
  <2>2. IsFiniteSet(GoingOn(i))
    BY RequestsAssumption, FS_Subset DEF GoingOn
  <2>3. IsFiniteSet(ok) /\ Cardinality(ok) <= Cardinality(GoingOn(i))
    BY <2>1, <2>2, FS_Subset
  <2>4. /\ Cardinality(ok) \in Nat /\ Cardinality(GoingOn(i)) \in Nat
        /\ paid[i] \in Nat
    BY <2>2, <2>3, FS_CardinalityType DEF TypeOK
  <2>. QED  BY <2>3, <2>4 DEF PaymentsCounted
<1>. QED  BY <1>1, BillingInvariant, PaymentsInvariant, PTL

(* The bank cancels a boleto on somebody's word only, and payments that     *)
(* failed without a receipt send none.                                      *)
THEOREM BoletosCancelledOnDemand == Spec => []BoletoCancelledOnDemand
<1>1. TypeOK /\ PaymentsCounted =>
        \A i \in Installments : Cardinality(CancelsFor(i)) <= paid[i]
  <2> SUFFICES ASSUME TypeOK, PaymentsCounted, NEW i \in Installments
               PROVE  Cardinality(CancelsFor(i)) <= paid[i]
    OBVIOUS
  <2>1. CancelsFor(i) \subseteq GoingOn(i)
    BY DEF CancelsFor, PaymentsOn, GoingOn, Going
  <2>2. IsFiniteSet(GoingOn(i))
    BY RequestsAssumption, FS_Subset DEF GoingOn
  <2>3. /\ IsFiniteSet(CancelsFor(i))
        /\ Cardinality(CancelsFor(i)) <= Cardinality(GoingOn(i))
    BY <2>1, <2>2, FS_Subset
  <2>4. /\ Cardinality(CancelsFor(i)) \in Nat
        /\ Cardinality(GoingOn(i)) \in Nat /\ paid[i] \in Nat
    BY <2>2, <2>3, FS_CardinalityType DEF TypeOK
  <2>. QED  BY <2>3, <2>4 DEF PaymentsCounted
<1>2. CallsOwn /\ BankOnCall =>
        \A b \in DOMAIN boletos : boletos[b].bank = "cancelled" =>
          \E r \in Requests :
            /\ b \in DOMAIN call[r]
            /\ op[r] = "cancel" \/ inst[r] = boletos[b].inst
  BY DEF CallsOwn, OwnCalls, BankOnCall
<1>3. TypeOK /\ PaymentsCounted /\ CallsOwn /\ BankOnCall
        => BoletoCancelledOnDemand
  BY <1>1, <1>2 DEF BoletoCancelledOnDemand
<1>. QED
  BY <1>3, BillingInvariant, PaymentsInvariant, BankInvariant, PTL

----------------------------------------------------------------------------
(* How many boletos an installment may get.                                 *)

(* The requests that may emit a boleto of an installment.                   *)
Emitters(i) ==
  {r \in Requests : \/ op[r] = "boletos"
                    \/ op[r] = "generate" /\ inst[r] = i}

(* An installment is emitted by its creation once, and by each request that *)
(* emits once at most, however the requests interleave with each other and  *)
(* with N8N: a second boleto takes a second asker                           *)
(* (movement.service.js:639-699, installment.generator.js:114).             *)
ByCreation(i) == IF i <= inserted THEN 1 ELSE 0

EmissionsAskedFor ==
  \A i \in Installments :
    accepted[i] <= ByCreation(i) + Cardinality(Emitters(i))

(* No boleto is issued that nobody asked for.                               *)
BoletosAskedFor ==
  \A i \in Installments :
    Cardinality(BoletosOf(i)) <= 1 + Cardinality(Emitters(i))

(* Of them, those that have done with the installment. The rest may still   *)
(* emit it, once: an installment is in one of their lists, not in both.     *)
Spent(i) == {r \in Emitters(i) : i \notin pending[r] \cup lacking[r]}

ListsApart ==
  \A r \in Requests :
    /\ op[r] # "boletos" => pending[r] = {} /\ lacking[r] = {}
    /\ pending[r] \cap lacking[r] = {}

EmissionsCounted ==
  \A i \in Installments : accepted[i] <= ByCreation(i) + Cardinality(Spent(i))

(* What a request does to its lists and to the emissions accepted.          *)
LEMMA EmitterCourse ==
  ASSUME TypeOK, ListsApart, NEW r \in Requests, Course(r), RequestStep(r)
  PROVE  /\ op'[r] # "boletos" => pending'[r] = {} /\ lacking'[r] = {}
         /\ pending'[r] \cap lacking'[r] = {}
         /\ \/ pc[r] = "idle"
            \/ pending'[r] \cup lacking'[r] \subseteq pending[r] \cup lacking[r]
         /\ \/ UNCHANGED accepted
            \/ \E i \in Installments :
                 /\ accepted' = [accepted EXCEPT ![i] = @ + 1]
                 /\ op'[r] = "boletos" \/ (op'[r] = "generate" /\ inst'[r] = i)
                 /\ i \notin pending'[r] \cup lacking'[r]
                 /\ pc[r] = "idle" \/ i \in lacking[r]
<1> USE DEF Starts, At, Goto, Reply
<1>t. RequestTypeOK
  BY TypeParts
<1>l. /\ op[r] # "boletos" => pending[r] = {} /\ lacking[r] = {}
      /\ pending[r] \cap lacking[r] = {}
      /\ pending[r] \subseteq Installments /\ lacking[r] \subseteq Installments
  BY <1>t DEF ListsApart, RequestTypeOK
<1>c. /\ pc[r] # "idle" => op'[r] = op[r]
      /\ pc[r] = "idle" => op[r] = "none"
  BY RequestCourse DEF Course
<1>1. CASE BoletosList(r)
  <2>1. /\ op'[r] = "boletos" /\ lacking'[r] = lacking[r] /\ pc[r] = "idle"
        /\ UNCHANGED accepted
    BY <1>1, <1>t DEF BoletosList, RequestTypeOK, boletoVars
  <2>. QED  BY <1>c, <1>l, <2>1
<1>2. CASE BoletosCheck(r)
  <2>1. PICK i \in First(pending[r]) :
          /\ pending' = [pending EXCEPT ![r] = pending[r] \ {i}]
          /\ \/ lacking' = [lacking EXCEPT ![r] = lacking[r] \cup {i}]
             \/ lacking' = [lacking EXCEPT ![r] = lacking[r]]
    BY <1>2 DEF BoletosCheck
  <2>2. i \in pending[r] /\ UNCHANGED <<op, accepted>>
    BY <1>2, <2>1 DEF First, BoletosCheck, boletoVars
  <2>3. /\ pending'[r] = pending[r] \ {i}
        /\ lacking'[r] = lacking[r] \cup {i} \/ lacking'[r] = lacking[r]
    BY <1>t, <2>1 DEF RequestTypeOK
  <2>. QED  BY <1>l, <2>2, <2>3
<1>3. CASE BoletosEmit(r)
  <2>1. PICK i \in First(lacking[r]) :
          /\ CreateBoleto(i, "request")
          /\ lacking' = [lacking EXCEPT ![r] = lacking[r] \ {i}]
          /\ UNCHANGED <<op, pending>>
    BY <1>3 DEF BoletosEmit
  <2>2. /\ i \in lacking[r] /\ lacking'[r] = lacking[r] \ {i}
        /\ accepted' = [accepted EXCEPT ![i] = @ + 1]
    BY <1>t, <2>1 DEF First, CreateBoleto, RequestTypeOK
  <2>3. /\ i \in Installments /\ i \notin pending[r] /\ op[r] = "boletos"
        /\ pending'[r] = pending[r] /\ op'[r] = op[r]
    BY <1>l, <2>1, <2>2
  <2>. QED  BY <1>l, <2>2, <2>3
<1>4. ASSUME NEW i \in Installments, GenerateBoleto(r, i)
      PROVE  /\ op'[r] = "generate" /\ inst'[r] = i /\ pc[r] = "idle"
             /\ UNCHANGED <<pending, lacking>>
             /\ \/ UNCHANGED accepted
                \/ accepted' = [accepted EXCEPT ![i] = @ + 1]
  BY <1>4, <1>t DEF GenerateBoleto, CreateBoleto, RequestTypeOK, boletoVars
<1>5. \/ UNCHANGED <<pending, lacking, accepted>>
      \/ EmitStep(r)
  BY DEF RequestStep, CancelStep, PaymentStep, PutStep, QueryFails,
         CancelRead, CancelUpdate, CancelList, CancelScan, CancelConfirm,
         CancelSettle, CancelReply, RegisterPayment, PaymentDetails,
         CancelInstallmentBoletos, LookupBoleto, LookupAnswered,
         UpdateMovement, UpdateBoleto, WriteCancelled, PutBoleto, boletoVars
<1>6. CASE UNCHANGED <<pending, lacking, accepted>>
  <2>1. op'[r] # "boletos" => op[r] # "boletos"
    BY <1>c
  <2>. QED  BY <1>6, <1>l, <2>1
<1>7. CASE \E i \in Installments : GenerateBoleto(r, i)
  <2>1. PICK i \in Installments : GenerateBoleto(r, i)
    BY <1>7
  <2>2. pending'[r] = {} /\ lacking'[r] = {}
    BY <1>4, <1>c, <1>l, <2>1
  <2>. QED  BY <1>4, <2>1, <2>2
<1>. QED  BY <1>1, <1>2, <1>3, <1>5, <1>6, <1>7 DEF EmitStep

(* Nobody done with an installment takes it up again.                       *)
LEMMA SpentCounted ==
  ASSUME TypeOK, EmissionsCounted, NEW i \in Installments,
         ByCreation(i)' = ByCreation(i),
         \/ accepted'[i] = accepted[i] /\ Spent(i) \subseteq Spent(i)'
         \/ \E r \in Requests :
              /\ accepted'[i] = accepted[i] + 1 /\ r \notin Spent(i)
              /\ Spent(i) \cup {r} \subseteq Spent(i)'
  PROVE  accepted'[i] <= ByCreation(i)' + Cardinality(Spent(i)')
<1>1. /\ IsFiniteSet(Spent(i)) /\ IsFiniteSet(Spent(i)')
      /\ Cardinality(Spent(i)) \in Nat /\ Cardinality(Spent(i)') \in Nat
      /\ accepted[i] \in Nat /\ ByCreation(i) \in Nat
      /\ accepted[i] <= ByCreation(i) + Cardinality(Spent(i))
  <2>1. IsFiniteSet(Spent(i)) /\ IsFiniteSet(Spent(i)')
    BY RequestsAssumption, FS_Subset DEF Spent, Emitters
  <2>2. Cardinality(Spent(i)) \in Nat /\ Cardinality(Spent(i)') \in Nat
    BY <2>1, FS_CardinalityType
  <2>. QED
    BY <2>1, <2>2 DEF TypeOK, BoletoTypeOK, ByCreation, EmissionsCounted
<1>2. CASE accepted'[i] = accepted[i] /\ Spent(i) \subseteq Spent(i)'
  <2>1. Cardinality(Spent(i)) <= Cardinality(Spent(i)')
    BY <1>1, <1>2, FS_Subset
  <2>. QED  BY <1>1, <1>2, <2>1
<1>3. ASSUME NEW r \in Requests,
             accepted'[i] = accepted[i] + 1, r \notin Spent(i),
             Spent(i) \cup {r} \subseteq Spent(i)'
      PROVE  accepted'[i] <= ByCreation(i)' + Cardinality(Spent(i)')
  <2>1. Cardinality(Spent(i) \cup {r}) = Cardinality(Spent(i)) + 1
    BY <1>1, <1>3, FS_AddElement
  <2>2. Cardinality(Spent(i) \cup {r}) <= Cardinality(Spent(i)')
    BY <1>1, <1>3, FS_Subset
  <2>. QED  BY <1>1, <1>3, <2>1, <2>2
<1>. QED  BY <1>2, <1>3

LEMMA EmissionsRequest ==
  ASSUME TypeOK, OnCourse, ListsApart, EmissionsCounted,
         NEW r \in Requests, RequestStep(r)
  PROVE  ListsApart' /\ EmissionsCounted'
<1>c. Course(r)
  BY DEF OnCourse
<1>o. ASSUME NEW q \in Requests \ {r}
      PROVE  /\ op'[q] = op[q] /\ inst'[q] = inst[q]
             /\ pending'[q] = pending[q] /\ lacking'[q] = lacking[q]
  BY RequestAlone
<1>e. /\ pc[r] # "idle" => op'[r] = op[r] /\ inst'[r] = inst[r]
      /\ pc[r] = "idle" => op[r] = "none"
  BY <1>c, RequestCourse DEF Course
<1>i. UNCHANGED inserted
  BY DEF RequestStep, CancelStep, EmitStep, PaymentStep, PutStep, QueryFails,
         CancelRead, CancelUpdate, CancelList, CancelScan, CancelConfirm,
         CancelSettle, CancelReply, BoletosList, BoletosCheck, BoletosEmit,
         GenerateBoleto, RegisterPayment, PaymentDetails,
         CancelInstallmentBoletos, LookupBoleto, LookupAnswered,
         UpdateMovement, UpdateBoleto, RequestFrame, creationVars
<1>1. ListsApart'
  <2>1. /\ op'[r] # "boletos" => pending'[r] = {} /\ lacking'[r] = {}
        /\ pending'[r] \cap lacking'[r] = {}
    BY <1>c, EmitterCourse
  <2>. QED  BY <1>o, <2>1 DEF ListsApart
<1>2. ASSUME NEW i \in Installments
      PROVE  accepted'[i] <= ByCreation(i)' + Cardinality(Spent(i)')
  <2>1. Spent(i) \subseteq Spent(i)'
    <3>1. \A q \in Requests \ {r} : q \in Spent(i) => q \in Spent(i)'
      BY <1>o DEF Spent, Emitters
    <3>2. r \in Spent(i) => r \in Spent(i)'
      <4>1. \/ pc[r] = "idle"
            \/ pending'[r] \cup lacking'[r] \subseteq pending[r] \cup lacking[r]
        BY <1>c, EmitterCourse
      <4>. QED  BY <1>e, <4>1 DEF Spent, Emitters
    <3>. QED  BY <3>1, <3>2 DEF Spent, Emitters
  <2>2. CASE accepted'[i] = accepted[i]
    BY <1>i, <2>1, <2>2, SpentCounted DEF ByCreation
  <2>3. CASE accepted'[i] # accepted[i]
    <3>1. PICK j \in Installments :
            /\ accepted' = [accepted EXCEPT ![j] = @ + 1]
            /\ op'[r] = "boletos" \/ (op'[r] = "generate" /\ inst'[r] = j)
            /\ j \notin pending'[r] \cup lacking'[r]
            /\ pc[r] = "idle" \/ j \in lacking[r]
      BY <1>c, <2>3, EmitterCourse
    <3>2. i = j /\ accepted'[i] = accepted[i] + 1
      BY <2>3, <3>1 DEF TypeOK, BoletoTypeOK
    <3>3. r \notin Spent(i) /\ r \in Spent(i)'
      BY <1>e, <3>1, <3>2 DEF Spent, Emitters
    <3>. QED  BY <1>i, <2>1, <3>2, <3>3, SpentCounted DEF ByCreation
  <2>. QED  BY <2>2, <2>3
<1>. QED  BY <1>1, <1>2 DEF EmissionsCounted

(* The creation emits an installment in the step that inserts it.           *)
LEMMA EmissionsInsert ==
  ASSUME TypeOK, ListsApart, EmissionsCounted, InsertInstallment
  PROVE  ListsApart' /\ EmissionsCounted'
<1>1. UNCHANGED requestVars /\ inserted' = inserted + 1
      /\ (UNCHANGED accepted \/ CreateBoleto(inserted + 1, "creation"))
  BY DEF InsertInstallment, boletoVars
<1>2. ListsApart'
  BY <1>1 DEF ListsApart, requestVars
<1>3. ASSUME NEW i \in Installments
      PROVE  accepted'[i] <= ByCreation(i)' + Cardinality(Spent(i)')
  <2>1. Spent(i)' = Spent(i)
    BY <1>1 DEF Spent, Emitters, requestVars
  <2>2. IsFiniteSet(Spent(i)) /\ Cardinality(Spent(i)) \in Nat
    BY RequestsAssumption, FS_Subset, FS_CardinalityType DEF Spent, Emitters
  <2>3. accepted[i] \in Nat /\ inserted \in Nat /\ i \in Nat
        /\ accepted[i] <= ByCreation(i) + Cardinality(Spent(i))
    BY DEF TypeOK, BoletoTypeOK, EmissionsCounted, Installments
  <2>4. \/ accepted'[i] = accepted[i]
        \/ i = inserted + 1 /\ accepted'[i] = accepted[i] + 1
    BY <1>1 DEF CreateBoleto, TypeOK, BoletoTypeOK
  <2>. QED  BY <1>1, <2>1, <2>2, <2>3, <2>4 DEF ByCreation
<1>. QED  BY <1>2, <1>3 DEF EmissionsCounted

LEMMA EmissionsStep ==
  TypeOK /\ OnCourse /\ ListsApart /\ EmissionsCounted /\ [Next]_vars
    => ListsApart' /\ EmissionsCounted'
<1> SUFFICES ASSUME TypeOK, OnCourse, ListsApart, EmissionsCounted, [Next]_vars
             PROVE  ListsApart' /\ EmissionsCounted'
  OBVIOUS
<1>s. ASSUME UNCHANGED <<op, inst, pending, lacking, inserted, accepted>>
      PROVE  ListsApart' /\ EmissionsCounted'
  BY <1>s DEF ListsApart, EmissionsCounted, ByCreation, Spent, Emitters
<1>1. CASE InsertInstallment
  BY <1>1, EmissionsInsert
<1>2. CASE CreationStep /\ ~InsertInstallment
  BY <1>2, <1>s
  DEF CreationStep, BeginCreation, CreationFails, EndCreation, Commit, boletoVars, requestVars
<1>3. ASSUME NEW r \in Requests, RequestStep(r)
      PROVE  ListsApart' /\ EmissionsCounted'
  BY <1>3, EmissionsRequest
<1>4. CASE \E r \in Requests : N8nAnswers(r)
  <2>1. UNCHANGED accepted
    BY <1>4 DEF N8nAnswers, N8nCancels, N8nRejects, BankCancels, boletoVars
  <2>. QED  BY <1>4, <1>s, <2>1, AnswerFrame DEF creationVars
<1>5. CASE Crash
  BY <1>5, <1>s DEF Crash, LoseTimers
<1>6. CASE \/ Notify \/ UNCHANGED vars
           \/ \E i \in Installments, o \in Origins : TimerFires(i, o)
           \/ \E i \in Installments : IssueAnswered(i)
  BY <1>6, <1>s
  DEF Notify, TimerFires, FireTimer, IssueAnswered, N8nIssues, N8nRefuses,
      vars, boletoVars, requestVars, creationVars
<1>. QED  BY <1>1, <1>2, <1>3, <1>4, <1>5, <1>6 DEF Next

LEMMA EmissionsInvariant == Spec => []EmissionsCounted
<1>1. Init => ListsApart /\ EmissionsCounted
  <2> SUFFICES ASSUME Init PROVE ListsApart /\ EmissionsCounted
    OBVIOUS
  <2>1. ListsApart
    BY DEF Init, ListsApart
  <2>2. ASSUME NEW i \in Installments
        PROVE  accepted[i] <= ByCreation(i) + Cardinality(Spent(i))
    <3>1. Spent(i) = {} /\ accepted[i] = 0 /\ ByCreation(i) \in Nat
      BY DEF Init, BoletoInit, Spent, Emitters, ByCreation
    <3>. QED  BY <3>1, FS_EmptySet
  <2>. QED  BY <2>1, <2>2 DEF EmissionsCounted
<1>. QED
  BY <1>1, BillingInvariant, CourseInvariant, EmissionsStep, PTL DEF Spec

LEMMA EmittersFinite ==
  ASSUME NEW i
  PROVE  /\ IsFiniteSet(Emitters(i)) /\ Cardinality(Emitters(i)) \in Nat
         /\ Cardinality(Spent(i)) \in Nat
         /\ Cardinality(Spent(i)) <= Cardinality(Emitters(i))
<1>1. IsFiniteSet(Emitters(i))
  BY RequestsAssumption, FS_Subset DEF Emitters
<1>2. IsFiniteSet(Spent(i)) /\ Cardinality(Spent(i)) <= Cardinality(Emitters(i))
  BY <1>1, FS_Subset DEF Spent
<1>. QED  BY <1>1, <1>2, FS_CardinalityType

(* For any number of installments and requests: an installment is emitted   *)
(* once by its creation and once by each request that emits, at most.       *)
THEOREM EmissionsAreAskedFor == Spec => []EmissionsAskedFor
<1>1. TypeOK /\ EmissionsCounted => EmissionsAskedFor
  <2> SUFFICES ASSUME TypeOK, EmissionsCounted, NEW i \in Installments
               PROVE  accepted[i] <= ByCreation(i) + Cardinality(Emitters(i))
    BY DEF EmissionsAskedFor
  <2>1. /\ accepted[i] \in Nat /\ ByCreation(i) \in Nat
        /\ accepted[i] <= ByCreation(i) + Cardinality(Spent(i))
    BY DEF TypeOK, BoletoTypeOK, ByCreation, EmissionsCounted
  <2>. QED  BY <2>1, EmittersFinite
<1>. QED  BY <1>1, BillingInvariant, EmissionsInvariant, PTL

(* With EmissionAtMostOnce: an installment has no more boletos than askers. *)
THEOREM BoletosAreAskedFor == Spec => []BoletosAskedFor
<1>1. TypeOK /\ EmissionsAskedFor /\ EmissionAtMostOnce => BoletosAskedFor
  <2> SUFFICES ASSUME TypeOK, EmissionsAskedFor, EmissionAtMostOnce,
                      NEW i \in Installments
               PROVE  Cardinality(BoletosOf(i)) <= 1 + Cardinality(Emitters(i))
    BY DEF BoletosAskedFor
  <2>1. /\ accepted[i] \in Nat /\ ByCreation(i) \in 0..1
        /\ posting[i] \in Nat /\ timers["creation"][i] \in Nat
        /\ timers["request"][i] \in Nat
    BY DEF TypeOK, BoletoTypeOK, ByCreation, Origins
  <2>2. /\ accepted[i] <= ByCreation(i) + Cardinality(Emitters(i))
        /\ Cardinality(BoletosOf(i)) + posting[i] + timers["creation"][i]
             + timers["request"][i] <= accepted[i]
    BY DEF EmissionsAskedFor, EmissionAtMostOnce
  <2>3. Cardinality(BoletosOf(i)) \in Nat
    <3>1. Len(boletos) \in Nat /\ DOMAIN boletos = 1..Len(boletos)
      BY DEF TypeOK, BoletoTypeOK
    <3>2. IsFiniteSet(DOMAIN boletos)
      BY <3>1, FS_Interval
    <3>. QED  BY <3>2, FS_Subset, FS_CardinalityType DEF BoletosOf
  <2>. QED  BY <2>1, <2>2, <2>3, EmittersFinite
<1>. QED
  BY <1>1, BillingInvariant, EmissionsAreAskedFor, BillingEmitsOnce, PTL

----------------------------------------------------------------------------
(* How far a request is from its answer.                                    *)

(* The awaits of its handler still to come.                                 *)
Stage(r) ==
  CASE pc[r] \in {"cancel.update", "pay.details"} -> 3
    [] pc[r] \in {"cancel.list", "boletos.check", "lookup"} -> 2
    [] pc[r] \in {"cancel.boletos", "boletos.emit", "wait"} -> 1
    [] OTHER -> 0

(* The installments its present loop has not come to.                       *)
Unseen(r) ==
  CASE pc[r] = "boletos.check" -> pending[r]
    [] pc[r] = "boletos.emit" -> lacking[r]
    [] pc[r] = "cancel.boletos" -> {i \in Installments : outcome[r][i] = "scan"}
    [] OTHER -> {}

CallsIn(r, phase) == {b \in DOMAIN call[r] : call[r][b] = phase}
Calling(r) == {i \in Installments : outcome[r][i] = "calling"}

(* What its calls to N8N, and the installments that wait for them, need yet. *)
Open(r) == 2 * Cardinality(CallsIn(r, "posted"))
             + Cardinality(CallsIn(r, "accepted")) + Cardinality(Calling(r))

Nearer(r) ==
  \/ Stage(r)' < Stage(r)
  \/ /\ Stage(r)' = Stage(r)
     /\ \/ Cardinality(Unseen(r)') < Cardinality(Unseen(r))
        \/ /\ Cardinality(Unseen(r)') = Cardinality(Unseen(r))
           /\ Open(r)' < Open(r)

Still(r) == UNCHANGED <<pc[r], pending[r], lacking[r], outcome[r], call[r]>>

(* A loop that is not left has an installment, and a cancellation that has  *)
(* looked at all of them waits for N8N, or can settle one, or can answer.   *)
CanGoOn(r) ==
  /\ pc[r] \in {"boletos.check", "boletos.emit"} => Unseen(r) # {}
  /\ pc[r] = "cancel.boletos" =>
       \/ Unseen(r) # {}
       \/ CallsIn(r, "posted") \cup CallsIn(r, "accepted") # {}
       \/ \E i \in Calling(r) :
            \/ \E b \in CallsOf(r, i) : call[r][b] = "failed"
            \/ \A b \in CallsOf(r, i) : call[r][b] \in {"confirmed", "empty"}
       \/ \A i \in Installments : outcome[r][i] \in {"none", "ok", "error"}

OnTheWay(r) ==
  /\ CanGoOn(r)
  /\ \/ Nearer(r)
     \/ Still(r) /\ ~RequestStep(r) /\ ~N8nAnswers(r)

(* Every step of a request, and every answer of N8N to it, brings it nearer *)
(* to its answer, and no other step takes it back: what cancelMovement,     *)
(* createBoletosMovimento (movement.service.js:639-769) and the payment     *)
(* (installment.service.js:259-431) need only be scheduled to end.          *)
RequestsAdvance == [][\A r \in Requests : pc[r] # "idle" => OnTheWay(r)]_vars

(* The loops over installments end before they run out of them.             *)
LoopsHaveWork ==
  \A r \in Requests :
    /\ pc[r] = "boletos.check" => pending[r] # {}
    /\ pc[r] = "boletos.emit" => lacking[r] # {}

(* What a step of a request that has started does: it goes on to a later    *)
(* await, takes one installment from its loop, or closes one call.          *)
Moves(r) ==
  \/ Stage(r)' < Stage(r)
  \/ \E i \in pending[r] :
       /\ pc[r] = "boletos.check" /\ pc'[r] = "boletos.check"
       /\ pending'[r] = pending[r] \ {i} /\ pending'[r] # {}
  \/ \E i \in lacking[r] :
       /\ pc[r] = "boletos.emit" /\ pc'[r] = "boletos.emit"
       /\ lacking'[r] = lacking[r] \ {i} /\ lacking'[r] # {}
  \/ \E i \in Installments, o \in Outcomes \ {"scan"} :
       /\ pc[r] = "cancel.boletos" /\ pc'[r] = "cancel.boletos"
       /\ outcome[r][i] = "scan"
       /\ outcome'[r] = [outcome[r] EXCEPT ![i] = o]
  \/ \E i \in Installments, o \in {"ok", "error"} :
       /\ pc[r] = "cancel.boletos" /\ pc'[r] = "cancel.boletos"
       /\ outcome[r][i] = "calling"
       /\ outcome'[r] = [outcome[r] EXCEPT ![i] = o]
       /\ call'[r] = call[r]
  \/ \E b \in DOMAIN call[r], p \in Phases :
       /\ UNCHANGED <<pc[r], pending[r], lacking[r], outcome[r]>>
       /\ \/ call[r][b] = "accepted" /\ p \notin {"posted", "accepted"}
          \/ call[r][b] = "posted" /\ p # "posted"
       /\ call'[r] = [call[r] EXCEPT ![b] = p]

LEMMA RequestMoves ==
  ASSUME TypeOK, NEW r \in Requests, RequestStep(r), pc[r] # "idle"
  PROVE  Moves(r)
<1> USE DEF Starts, At, Goto, Reply
<1>t. RequestTypeOK /\ call = [p \in Requests |-> call[p]]
  BY TypeParts DEF CallTypeOK
<1>s. ASSUME Stage(r)' < Stage(r) PROVE Moves(r)
  BY <1>s DEF Moves
<1>1. CASE CancelUpdate(r)
  <2>1. pc[r] = "cancel.update" /\ pc'[r] = "cancel.list"
    BY <1>t, <1>1 DEF CancelUpdate, RequestTypeOK
  <2>2. Stage(r) = 3 /\ Stage(r)' = 2
    BY <2>1 DEF Stage
  <2>. QED  BY <1>s, <2>2
<1>2. CASE CancelList(r)
  <2>1. pc[r] = "cancel.list" /\ pc'[r] = "cancel.boletos"
    BY <1>t, <1>2 DEF CancelList, RequestTypeOK
  <2>2. Stage(r) = 2 /\ Stage(r)' = 1
    BY <2>1 DEF Stage
  <2>. QED  BY <1>s, <2>2
<1>3. CASE CancelReply(r)
  <2>1. pc[r] = "cancel.boletos" /\ pc'[r] = "done"
    BY <1>t, <1>3 DEF CancelReply, RequestTypeOK
  <2>2. Stage(r) = 1 /\ Stage(r)' = 0
    BY <2>1 DEF Stage
  <2>. QED  BY <1>s, <2>2
<1>4. ASSUME NEW i \in Installments, CancelScan(r, i)
      PROVE  Moves(r)
  <2>1. /\ pc[r] = "cancel.boletos" /\ pc'[r] = "cancel.boletos"
        /\ outcome[r][i] = "scan"
    BY <1>4 DEF CancelScan
  <2>2. \E o \in Outcomes \ {"scan"} : outcome'[r] = [outcome[r] EXCEPT ![i] = o]
    <3>1. PICK o \in {"calling", "error"} : outcome' = [outcome EXCEPT ![r][i] = o]
      BY <1>4 DEF CancelScan
    <3>2. outcome'[r] = [outcome[r] EXCEPT ![i] = o]
      BY <1>t, <3>1 DEF RequestTypeOK
    <3>. QED  BY <3>2 DEF Outcomes
  <2>. QED  BY <2>1, <2>2 DEF Moves
<1>5. ASSUME NEW i \in Installments, CancelSettle(r, i)
      PROVE  Moves(r)
  <2>1. /\ pc[r] = "cancel.boletos" /\ pc'[r] = "cancel.boletos"
        /\ outcome[r][i] = "calling" /\ call'[r] = call[r]
    BY <1>5 DEF CancelSettle
  <2>2. \E o \in {"ok", "error"} : outcome'[r] = [outcome[r] EXCEPT ![i] = o]
    <3>1. PICK o \in {"ok", "error"} : outcome' = [outcome EXCEPT ![r][i] = o]
      BY <1>5 DEF CancelSettle
    <3>. QED  BY <1>t, <3>1 DEF RequestTypeOK
  <2>. QED  BY <2>1, <2>2 DEF Moves
<1>6. ASSUME NEW b \in DOMAIN boletos, CancelConfirm(r, b)
      PROVE  Moves(r)
  <2>1. PICK p \in {"confirmed", "failed"} : call' = [call EXCEPT ![r][b] = p]
    BY <1>6 DEF CancelConfirm
  <2>2. /\ b \in DOMAIN call[r] /\ call[r][b] = "accepted"
        /\ UNCHANGED <<pc[r], pending[r], lacking[r], outcome[r]>>
    BY <1>6 DEF CancelConfirm
  <2>3. call'[r] = [call[r] EXCEPT ![b] = p]
    BY <1>t, <2>1
  <2>. QED  BY <2>2, <2>3 DEF Moves, Phases
<1>7. CASE BoletosCheck(r)
  <2>1. PICK i \in First(pending[r]) :
          /\ pending' = [pending EXCEPT ![r] = pending[r] \ {i}]
          /\ \/ pending[r] \ {i} # {} /\ Goto(r, "boletos.check")
             \/ Goto(r, "boletos.emit")
             \/ Reply(r, "ok")
    BY <1>7 DEF BoletosCheck
  <2>2. i \in pending[r] /\ pending'[r] = pending[r] \ {i} /\ pc[r] = "boletos.check"
    BY <1>t, <1>7, <2>1 DEF First, BoletosCheck, RequestTypeOK
  <2>3. CASE pending[r] \ {i} # {} /\ Goto(r, "boletos.check")
    <3>1. pc'[r] = "boletos.check"
      BY <1>t, <2>3 DEF RequestTypeOK
    <3>. QED  BY <2>2, <2>3, <3>1 DEF Moves
  <2>4. CASE Goto(r, "boletos.emit") \/ Reply(r, "ok")
    <3>1. pc'[r] \in {"boletos.emit", "done"}
      BY <1>t, <2>4 DEF RequestTypeOK
    <3>2. Stage(r) = 2
      BY <2>2 DEF Stage
    <3>3. Stage(r)' \in {0, 1}
      BY <3>1 DEF Stage
    <3>. QED  BY <1>s, <3>2, <3>3
  <2>. QED  BY <2>1, <2>3, <2>4
<1>8. CASE BoletosEmit(r)
  <2>1. PICK i \in First(lacking[r]) :
          /\ lacking' = [lacking EXCEPT ![r] = lacking[r] \ {i}]
          /\ \/ lacking[r] \ {i} # {} /\ Goto(r, "boletos.emit")
             \/ Reply(r, "ok")
    BY <1>8 DEF BoletosEmit
  <2>2. i \in lacking[r] /\ lacking'[r] = lacking[r] \ {i} /\ pc[r] = "boletos.emit"
    BY <1>t, <1>8, <2>1 DEF First, BoletosEmit, RequestTypeOK
  <2>3. CASE lacking[r] \ {i} # {} /\ Goto(r, "boletos.emit")
    <3>1. pc'[r] = "boletos.emit"
      BY <1>t, <2>3 DEF RequestTypeOK
    <3>. QED  BY <2>2, <2>3, <3>1 DEF Moves
  <2>4. CASE Reply(r, "ok")
    <3>1. pc'[r] = "done"
      BY <1>t, <2>4 DEF RequestTypeOK
    <3>2. Stage(r) = 1
      BY <2>2 DEF Stage
    <3>3. Stage(r)' = 0
      BY <3>1 DEF Stage
    <3>. QED  BY <1>s, <3>2, <3>3
  <2>. QED  BY <2>1, <2>3, <2>4
<1>9. CASE PaymentDetails(r)
  <2>1. pc[r] = "pay.details" /\ pc'[r] = "lookup"
    BY <1>t, <1>9 DEF PaymentDetails, RequestTypeOK
  <2>2. Stage(r) = 3 /\ Stage(r)' = 2
    BY <2>1 DEF Stage
  <2>. QED  BY <1>s, <2>2
<1>10. CASE LookupBoleto(r)
  <2>1. pc[r] = "lookup" /\ pc'[r] \in {"wait", "done"}
    BY <1>t, <1>10 DEF LookupBoleto, RequestTypeOK
  <2>2. Stage(r) = 2
    BY <2>1 DEF Stage
  <2>3. Stage(r)' \in {0, 1}
    BY <2>1 DEF Stage
  <2>. QED  BY <1>s, <2>2, <2>3
<1>11. CASE LookupAnswered(r)
  <2>1. pc[r] = "wait" /\ pc'[r] = "done"
    BY <1>t, <1>11 DEF LookupAnswered, RequestTypeOK
  <2>2. Stage(r) = 1 /\ Stage(r)' = 0
    BY <2>1 DEF Stage
  <2>. QED  BY <1>s, <2>2
<1>12. CASE QueryFails(r)
  <2>1. /\ pc[r] \in {"cancel.update", "cancel.list", "boletos.check",
                      "boletos.emit", "pay.details", "lookup"}
        /\ pc'[r] = "done"
    BY <1>t, <1>12 DEF QueryFails, RequestTypeOK
  <2>2. Stage(r) \in {1, 2, 3}
    BY <2>1 DEF Stage
  <2>3. Stage(r)' = 0
    BY <2>1 DEF Stage
  <2>. QED  BY <1>s, <2>2, <2>3
<1>13. /\ ~CancelRead(r) /\ ~BoletosList(r) /\ ~PutStep(r)
       /\ \A i \in Installments : /\ ~GenerateBoleto(r, i)
                                  /\ ~RegisterPayment(r, i)
                                  /\ ~CancelInstallmentBoletos(r, i)
  BY DEF CancelRead, BoletosList, PutStep, UpdateMovement, UpdateBoleto,
         GenerateBoleto, RegisterPayment, CancelInstallmentBoletos
<1>. QED
  BY <1>1, <1>2, <1>3, <1>4, <1>5, <1>6, <1>7, <1>8, <1>9, <1>10, <1>11,
     <1>12, <1>13 DEF RequestStep, CancelStep, EmitStep, PaymentStep

(* The measures are numbers.                                                *)
LEMMA MeasuresFinite ==
  ASSUME TypeOK, NEW r \in Requests
  PROVE  /\ IsFiniteSet(Unseen(r)) /\ Cardinality(Unseen(r)) \in Nat
         /\ IsFiniteSet(Calling(r)) /\ Cardinality(Calling(r)) \in Nat
         /\ \A p : IsFiniteSet(CallsIn(r, p)) /\ Cardinality(CallsIn(r, p)) \in Nat
<1>1. IsFiniteSet(Installments)
  BY NAssumption, FS_Interval DEF Installments
<1>2. Unseen(r) \subseteq Installments /\ Calling(r) \subseteq Installments
  BY DEF Unseen, Calling, TypeOK
<1>3. IsFiniteSet(DOMAIN boletos)
  <2>1. Len(boletos) \in Nat /\ DOMAIN boletos = 1..Len(boletos)
    BY DEF TypeOK, BoletoTypeOK
  <2>. QED  BY <2>1, FS_Interval
<1>4. \A p : CallsIn(r, p) \subseteq DOMAIN boletos
  BY DEF CallsIn, TypeOK
<1>5. IsFiniteSet(Unseen(r)) /\ IsFiniteSet(Calling(r))
  BY <1>1, <1>2, FS_Subset
<1>6. \A p : IsFiniteSet(CallsIn(r, p))
  BY <1>3, <1>4, FS_Subset
<1>. QED  BY <1>5, <1>6, FS_CardinalityType

(* A set that loses a member is smaller.                                    *)
LEMMA Fewer ==
  ASSUME NEW S, IsFiniteSet(S), NEW x \in S
  PROVE  /\ Cardinality(S) \in Nat /\ Cardinality(S \ {x}) \in Nat
         /\ Cardinality(S \ {x}) = Cardinality(S) - 1
  BY FS_RemoveElement, FS_CardinalityType

LEMMA OneMore ==
  ASSUME NEW S, IsFiniteSet(S), NEW x, x \notin S
  PROVE  /\ Cardinality(S) \in Nat /\ Cardinality(S \cup {x}) \in Nat
         /\ Cardinality(S \cup {x}) = Cardinality(S) + 1
<1>1. /\ IsFiniteSet(S \cup {x})
      /\ Cardinality(S \cup {x}) = Cardinality(S) + 1
  BY FS_AddElement
<1>. QED  BY <1>1, FS_CardinalityType

LEMMA MovesNearer ==
  ASSUME TypeOK, NEW r \in Requests, Moves(r)
  PROVE  Nearer(r)
<1>f. /\ IsFiniteSet(Unseen(r)) /\ Cardinality(Unseen(r)) \in Nat
      /\ IsFiniteSet(Calling(r)) /\ Cardinality(Calling(r)) \in Nat
      /\ \A p : IsFiniteSet(CallsIn(r, p)) /\ Cardinality(CallsIn(r, p)) \in Nat
  BY MeasuresFinite
<1>1. CASE Stage(r)' < Stage(r)
  BY <1>1 DEF Nearer
<1>2. ASSUME NEW i \in pending[r],
             pc[r] = "boletos.check", pc'[r] = "boletos.check",
             pending'[r] = pending[r] \ {i}
      PROVE  Nearer(r)
  <2>1. Stage(r)' = Stage(r)
    BY <1>2 DEF Stage
  <2>2. Unseen(r) = pending[r] /\ Unseen(r)' = pending[r] \ {i}
    BY <1>2 DEF Unseen
  <2>3. Cardinality(Unseen(r)') < Cardinality(Unseen(r))
    BY <1>f, <2>2, Fewer
  <2>. QED  BY <2>1, <2>3 DEF Nearer
<1>3. ASSUME NEW i \in lacking[r],
             pc[r] = "boletos.emit", pc'[r] = "boletos.emit",
             lacking'[r] = lacking[r] \ {i}
      PROVE  Nearer(r)
  <2>1. Stage(r)' = Stage(r)
    BY <1>3 DEF Stage
  <2>2. Unseen(r) = lacking[r] /\ Unseen(r)' = lacking[r] \ {i}
    BY <1>3 DEF Unseen
  <2>3. Cardinality(Unseen(r)') < Cardinality(Unseen(r))
    BY <1>f, <2>2, Fewer
  <2>. QED  BY <2>1, <2>3 DEF Nearer
<1>4. ASSUME NEW i \in Installments, NEW o \in Outcomes \ {"scan"},
             pc[r] = "cancel.boletos", pc'[r] = "cancel.boletos",
             outcome[r][i] = "scan",
             outcome'[r] = [outcome[r] EXCEPT ![i] = o]
      PROVE  Nearer(r)
  <2>1. Stage(r)' = Stage(r)
    BY <1>4 DEF Stage
  <2>2. Unseen(r) = {j \in Installments : outcome[r][j] = "scan"}
    BY <1>4 DEF Unseen
  <2>3. Unseen(r)' = {j \in Installments : outcome'[r][j] = "scan"}
    BY <1>4 DEF Unseen, Installments
  <2>4. i \in Unseen(r) /\ Unseen(r)' = Unseen(r) \ {i}
    BY <1>4, <2>2, <2>3 DEF TypeOK
  <2>5. Cardinality(Unseen(r)') < Cardinality(Unseen(r))
    BY <1>f, <2>4, Fewer
  <2>. QED  BY <2>1, <2>5 DEF Nearer
<1>5. ASSUME NEW i \in Installments, NEW o \in {"ok", "error"},
             pc[r] = "cancel.boletos", pc'[r] = "cancel.boletos",
             outcome[r][i] = "calling",
             outcome'[r] = [outcome[r] EXCEPT ![i] = o],
             call'[r] = call[r]
      PROVE  Nearer(r)
  <2>1. Stage(r)' = Stage(r)
    BY <1>5 DEF Stage
  <2>2. /\ Unseen(r) = {j \in Installments : outcome[r][j] = "scan"}
        /\ Unseen(r)' = {j \in Installments : outcome'[r][j] = "scan"}
    BY <1>5 DEF Unseen, Installments
  <2>3. Unseen(r)' = Unseen(r)
    BY <1>5, <2>2 DEF TypeOK
  <2>4. i \in Calling(r) /\ Calling(r)' = Calling(r) \ {i}
    BY <1>5 DEF Calling, TypeOK, Installments
  <2>5. \A p : CallsIn(r, p)' = CallsIn(r, p)
    BY <1>5 DEF CallsIn
  <2>6. Cardinality(Calling(r)') < Cardinality(Calling(r)) /\ Cardinality(Calling(r)') \in Nat
    BY <1>f, <2>4, Fewer
  <2>7. Open(r)' < Open(r)
    BY <1>f, <2>5, <2>6 DEF Open
  <2>. QED  BY <2>1, <2>3, <2>7 DEF Nearer
<1>6. ASSUME NEW b \in DOMAIN call[r], NEW p \in Phases,
             UNCHANGED <<pc[r], pending[r], lacking[r], outcome[r]>>,
             \/ call[r][b] = "accepted" /\ p \notin {"posted", "accepted"}
             \/ call[r][b] = "posted" /\ p # "posted",
             call'[r] = [call[r] EXCEPT ![b] = p]
      PROVE  Nearer(r)
  <2>1. Stage(r)' = Stage(r)
    BY <1>6 DEF Stage
  <2>2. Unseen(r)' = Unseen(r)
    BY <1>6 DEF Unseen, Installments
  <2>3. Calling(r)' = Calling(r)
    BY <1>6 DEF Calling, Installments
  <2>4. \A s : CallsIn(r, s)' = IF s = p THEN CallsIn(r, s) \cup {b}
                                         ELSE CallsIn(r, s) \ {b}
    BY <1>6 DEF CallsIn
  <2>5. Open(r)' < Open(r)
    <3>1. CASE call[r][b] = "accepted" /\ p \notin {"posted", "accepted"}
      <4>1. /\ CallsIn(r, "posted")' = CallsIn(r, "posted")
            /\ CallsIn(r, "accepted")' = CallsIn(r, "accepted") \ {b}
            /\ b \in CallsIn(r, "accepted")
        BY <2>4, <3>1 DEF CallsIn
      <4>2. /\ Cardinality(CallsIn(r, "accepted")') \in Nat
            /\ Cardinality(CallsIn(r, "accepted")')
                 < Cardinality(CallsIn(r, "accepted"))
        BY <1>f, <4>1, Fewer
      <4>. QED  BY <1>f, <2>3, <4>1, <4>2 DEF Open
    <3>2. CASE call[r][b] = "posted" /\ p # "posted"
      <4>1. /\ CallsIn(r, "posted")' = CallsIn(r, "posted") \ {b}
            /\ b \in CallsIn(r, "posted") /\ b \notin CallsIn(r, "accepted")
            /\ \/ CallsIn(r, "accepted")' = CallsIn(r, "accepted") \cup {b}
               \/ CallsIn(r, "accepted")' = CallsIn(r, "accepted")
        BY <2>4, <3>2 DEF CallsIn
      <4>2. /\ Cardinality(CallsIn(r, "posted")') \in Nat
            /\ Cardinality(CallsIn(r, "posted")')
                 = Cardinality(CallsIn(r, "posted")) - 1
        BY <1>f, <4>1, Fewer
      <4>3. /\ Cardinality(CallsIn(r, "accepted")') \in Nat
            /\ Cardinality(CallsIn(r, "accepted")')
                 <= Cardinality(CallsIn(r, "accepted")) + 1
        <5>1. CASE CallsIn(r, "accepted")' = CallsIn(r, "accepted") \cup {b}
          BY <1>f, <4>1, <5>1, OneMore
        <5>2. CASE CallsIn(r, "accepted")' = CallsIn(r, "accepted")
          BY <1>f, <5>2
        <5>. QED  BY <4>1, <5>1, <5>2
      <4>. QED  BY <1>f, <2>3, <4>2, <4>3 DEF Open
    <3>. QED  BY <1>6, <3>1, <3>2
  <2>. QED  BY <2>1, <2>2, <2>5 DEF Nearer
<1>. QED  BY <1>1, <1>2, <1>3, <1>4, <1>5, <1>6 DEF Moves

(* What another request knows of its installments stands.                   *)
LEMMA OutcomeAlone ==
  ASSUME TypeOK, NEW r \in Requests, RequestStep(r), NEW q \in Requests, q # r
  PROVE  outcome'[q] = outcome[q]
<1>t. RequestTypeOK
  BY TypeParts
<1>1. CASE CancelList(r)
  BY <1>t, <1>1 DEF CancelList, RequestTypeOK
<1>2. ASSUME NEW i \in Installments, CancelScan(r, i) \/ CancelSettle(r, i)
      PROVE  outcome'[q] = outcome[q]
  BY <1>t, <1>2 DEF CancelScan, CancelSettle, RequestTypeOK
<1>3. CASE UNCHANGED outcome
  BY <1>3
<1>. QED
  BY <1>1, <1>2, <1>3
  DEF RequestStep, CancelStep, EmitStep, PaymentStep, PutStep, QueryFails,
      CancelRead, CancelUpdate, CancelConfirm, CancelReply, BoletosList,
      BoletosCheck, BoletosEmit, GenerateBoleto, RegisterPayment,
      PaymentDetails, CancelInstallmentBoletos, LookupBoleto, LookupAnswered,
      UpdateMovement, UpdateBoleto

(* Nobody else's step touches a request that has started, but a restart.    *)
LEMMA OthersLeaveStill ==
  ASSUME TypeOK, Next, NEW r \in Requests, pc[r] # "idle",
         ~RequestStep(r), ~N8nAnswers(r)
  PROVE  Still(r) \/ Nearer(r)
<1>1. ASSUME NEW q \in Requests, RequestStep(q)
      PROVE  Still(r)
  BY <1>1, RequestAlone, OutcomeAlone DEF Still
<1>2. ASSUME NEW q \in Requests, N8nAnswers(q)
      PROVE  Still(r)
  <2>1. /\ UNCHANGED <<pc, pending, lacking, outcome>>
        /\ \E b \in DOMAIN call[q] : \E p \in Phases :
             call' = [call EXCEPT ![q][b] = p]
    BY <1>2, AnswerFrame
  <2>2. call'[r] = call[r]
    BY <1>2, <2>1, TypeParts DEF CallTypeOK
  <2>. QED  BY <2>1, <2>2 DEF Still
<1>3. CASE Crash
  <2>1. /\ UNCHANGED <<pending, lacking, outcome, call>>
        /\ pc'[r] = IF r \in Active THEN "dead" ELSE pc[r]
    BY <1>3 DEF Crash
  <2>2. CASE r \in Active
    <3>1. pc[r] \in PCs \ {"idle", "done", "dead"} /\ pc'[r] = "dead"
      BY <2>1, <2>2 DEF Active, TypeOK
    <3>2. Stage(r) \in {1, 2, 3}
      BY <3>1 DEF Stage, PCs
    <3>3. Stage(r)' = 0
      BY <3>1 DEF Stage
    <3>. QED  BY <3>2, <3>3 DEF Nearer
  <2>. QED  BY <2>1, <2>2 DEF Still
<1>4. CASE \/ CreationStep \/ Notify
           \/ \E i \in Installments, o \in Origins : TimerFires(i, o)
           \/ \E i \in Installments : IssueAnswered(i)
  BY <1>4, OtherRequestFrame DEF Still, requestVars
<1>. QED  BY <1>1, <1>2, <1>3, <1>4 DEF Next

(* A loop goes on only with installments left.                              *)
LEMMA LoopsRequest ==
  ASSUME TypeOK, LoopsHaveWork, NEW r \in Requests, RequestStep(r)
  PROVE  /\ pc'[r] = "boletos.check" => pending'[r] # {}
         /\ pc'[r] = "boletos.emit" => lacking'[r] # {}
<1> USE DEF Starts, At, Goto, Reply
<1>t. /\ RequestTypeOK
      /\ pc[r] = "boletos.check" => pending[r] # {}
      /\ pc[r] = "boletos.emit" => lacking[r] # {}
  BY TypeParts DEF LoopsHaveWork
<1>1. CASE CancelStep(r)
  <2>1. CASE CancelRead(r) \/ CancelUpdate(r) \/ CancelList(r) \/ CancelReply(r)
    BY <1>t, <2>1
    DEF CancelRead, CancelUpdate, CancelList, CancelReply, RequestTypeOK
  <2>2. ASSUME UNCHANGED <<pc, pending, lacking>>
        PROVE  /\ pc'[r] = "boletos.check" => pending'[r] # {}
               /\ pc'[r] = "boletos.emit" => lacking'[r] # {}
    BY <1>t, <2>2
  <2>. QED
    BY <1>1, <2>1, <2>2 DEF CancelStep, CancelScan, CancelSettle, CancelConfirm
<1>2. CASE BoletosList(r)
  BY <1>t, <1>2 DEF BoletosList, RequestTypeOK
<1>3. CASE BoletosCheck(r)
  <2>1. PICK P, L :
          /\ pending' = [pending EXCEPT ![r] = P]
          /\ lacking' = [lacking EXCEPT ![r] = L]
          /\ \/ P # {} /\ Goto(r, "boletos.check")
             \/ L # {} /\ Goto(r, "boletos.emit")
             \/ Reply(r, "ok")
    BY <1>3 DEF BoletosCheck
  <2>. QED  BY <1>t, <2>1 DEF RequestTypeOK
<1>4. CASE BoletosEmit(r)
  <2>1. PICK L :
          /\ lacking' = [lacking EXCEPT ![r] = L]
          /\ \/ L # {} /\ Goto(r, "boletos.emit")
             \/ Reply(r, "ok")
    BY <1>4 DEF BoletosEmit
  <2>. QED  BY <1>t, <2>1 DEF RequestTypeOK
<1>5. ASSUME NEW i \in Installments, GenerateBoleto(r, i)
      PROVE  pc'[r] = "done"
  BY <1>t, <1>5 DEF GenerateBoleto, RequestTypeOK
<1>6. CASE PaymentStep(r)
  <2>1. ASSUME NEW i \in Installments, RegisterPayment(r, i)
        PROVE  pc'[r] \in {"pay.details", "done"}
    BY <1>t, <2>1 DEF RegisterPayment, RequestTypeOK
  <2>2. ASSUME NEW i \in Installments, CancelInstallmentBoletos(r, i)
        PROVE  pc'[r] = "lookup"
    BY <1>t, <2>2 DEF CancelInstallmentBoletos, RequestTypeOK
  <2>3. CASE PaymentDetails(r) \/ LookupAnswered(r)
    BY <1>t, <2>3 DEF PaymentDetails, LookupAnswered, RequestTypeOK
  <2>4. CASE LookupBoleto(r)
    BY <1>t, <2>4 DEF LookupBoleto, RequestTypeOK
  <2>. QED  BY <1>6, <2>1, <2>2, <2>3, <2>4 DEF PaymentStep
<1>7. CASE PutStep(r)
  <2>1. ASSUME NEW s, UpdateMovement(r, s)
        PROVE  pc'[r] = "done"
    BY <1>t, <2>1 DEF UpdateMovement, RequestTypeOK
  <2>2. ASSUME NEW b, NEW s, UpdateBoleto(r, b, s)
        PROVE  pc'[r] = "done"
    BY <1>t, <2>2 DEF UpdateBoleto, RequestTypeOK
  <2>. QED  BY <1>7, <2>1, <2>2 DEF PutStep
<1>8. CASE QueryFails(r)
  BY <1>t, <1>8 DEF QueryFails, RequestTypeOK
<1>. QED
  BY <1>1, <1>2, <1>3, <1>4, <1>5, <1>6, <1>7, <1>8 DEF RequestStep, EmitStep

LEMMA LoopsStep ==
  TypeOK /\ LoopsHaveWork /\ [Next]_vars => LoopsHaveWork'
<1> SUFFICES ASSUME TypeOK, LoopsHaveWork, [Next]_vars, NEW q \in Requests
             PROVE  /\ pc'[q] = "boletos.check" => pending'[q] # {}
                    /\ pc'[q] = "boletos.emit" => lacking'[q] # {}
  BY DEF LoopsHaveWork
<1>q. /\ pc[q] = "boletos.check" => pending[q] # {}
      /\ pc[q] = "boletos.emit" => lacking[q] # {}
  BY DEF LoopsHaveWork
<1>1. ASSUME NEW r \in Requests, RequestStep(r)
      PROVE  /\ pc'[q] = "boletos.check" => pending'[q] # {}
             /\ pc'[q] = "boletos.emit" => lacking'[q] # {}
  BY <1>1, <1>q, RequestAlone, LoopsRequest
<1>2. ASSUME NEW r \in Requests, N8nAnswers(r)
      PROVE  UNCHANGED <<pc, pending, lacking>>
  BY <1>2, AnswerFrame
<1>3. CASE Crash
  <2>1. /\ UNCHANGED <<pending, lacking>>
        /\ pc'[q] = pc[q] \/ pc'[q] = "dead"
    BY <1>3 DEF Crash
  <2>. QED  BY <1>q, <2>1
<1>4. CASE \/ CreationStep \/ Notify
           \/ \E i \in Installments, o \in Origins : TimerFires(i, o)
           \/ \E i \in Installments : IssueAnswered(i)
           \/ UNCHANGED vars
  BY <1>4, <1>q, OtherRequestFrame DEF requestVars
<1>. QED  BY <1>1, <1>2, <1>3, <1>4, <1>q DEF Next

(* A cancellation with nothing to look at and no call under way has a       *)
(* settled installment, or only settled ones.                               *)
LEMMA SomethingToDo ==
  ASSUME TypeOK, LoopsHaveWork, NEW r \in Requests
  PROVE  CanGoOn(r)
<1>1. CASE pc[r] = "boletos.check"
  BY <1>1 DEF CanGoOn, Unseen, LoopsHaveWork
<1>2. CASE pc[r] = "boletos.emit"
  BY <1>2 DEF CanGoOn, Unseen, LoopsHaveWork
<1>3. CASE /\ pc[r] = "cancel.boletos" /\ Unseen(r) = {}
           /\ CallsIn(r, "posted") \cup CallsIn(r, "accepted") = {}
  <2>1. \A b \in DOMAIN call[r] : call[r][b] \in {"empty", "failed", "confirmed"}
    BY <1>3 DEF CallsIn, TypeOK, Phases
  <2>2. \A i \in Installments : outcome[r][i] \in {"none", "calling", "ok", "error"}
    BY <1>3 DEF Unseen, TypeOK, Outcomes
  <2>3. ASSUME NEW i \in Calling(r)
        PROVE  \/ \E b \in CallsOf(r, i) : call[r][b] = "failed"
               \/ \A b \in CallsOf(r, i) : call[r][b] \in {"confirmed", "empty"}
    BY <2>1 DEF CallsOf
  <2>4. CASE Calling(r) = {}
    <3>1. \A i \in Installments : outcome[r][i] \in {"none", "ok", "error"}
      BY <2>2, <2>4 DEF Calling
    <3>. QED  BY <1>3, <3>1 DEF CanGoOn
  <2>. QED  BY <1>3, <2>3, <2>4 DEF CanGoOn
<1>. QED  BY <1>1, <1>2, <1>3 DEF CanGoOn

(* For any number of installments, requests and restarts: what of           *)
(* EveryRequestAnswered needs no fairness. Each step of a request that has  *)
(* started lowers what it has still to do, nobody raises it, and a loop or  *)
(* a wait is never left without a step that ends it.                        *)
THEOREM RequestsComeNearer == Spec => RequestsAdvance
<1>1. TypeOK /\ LoopsHaveWork /\ Next =>
        \A r \in Requests : pc[r] # "idle" => OnTheWay(r)
  <2> SUFFICES ASSUME TypeOK, LoopsHaveWork, Next,
                      NEW r \in Requests, pc[r] # "idle"
               PROVE  OnTheWay(r)
    OBVIOUS
  <2>1. CanGoOn(r)
    BY SomethingToDo
  <2>2. CASE RequestStep(r)
    BY <2>1, <2>2, RequestMoves, MovesNearer DEF OnTheWay
  <2>3. CASE N8nAnswers(r)
    <3>1. Moves(r)
      <4>1. UNCHANGED <<pc, pending, lacking, outcome>>
        BY <2>3, AnswerFrame
      <4>2. PICK b \in DOMAIN call[r], p \in Phases :
              /\ call[r][b] = "posted"
              /\ call' = [call EXCEPT ![r][b] = p]
              /\ p \in {"accepted", "empty", "failed"}
        BY <2>3 DEF N8nAnswers, N8nCancels, N8nRejects, Answer, Phases
      <4>3. call'[r] = [call[r] EXCEPT ![b] = p]
        BY <4>2, TypeParts DEF CallTypeOK
      <4>. QED  BY <4>1, <4>2, <4>3 DEF Moves
    <3>. QED  BY <2>1, <3>1, MovesNearer DEF OnTheWay
  <2>. QED  BY <2>1, <2>2, <2>3, OthersLeaveStill DEF OnTheWay
<1>2. Init => LoopsHaveWork
  BY DEF Init, LoopsHaveWork
<1>. QED
  BY <1>1, <1>2, BillingInvariant, LoopsStep, PTL DEF Spec, RequestsAdvance
=============================================================================
