--------------------------- MODULE Boletos_proofs ---------------------------
(* What Boletos promises, proved for every number of installments: the type *)
(* invariant, then that an accepted call issues at most one boleto, then    *)
(* that CANCELADO means cancelled.                                          *)
EXTENDS Boletos, FiniteSetTheorems, TLAPS

(* Appending the row of one installment adds one element to its boletos and *)
(* leaves those of the others as they were.                                 *)
LEMMA BoletosOfAppend ==
  ASSUME boletos \in Seq(Row), NEW i \in Installments, NEW row \in Row,
         boletos' = Append(boletos, row)
  PROVE  BoletosOf(i)' =
           IF row.inst = i THEN BoletosOf(i) \cup {Len(boletos) + 1}
                           ELSE BoletosOf(i)
<1>1. /\ DOMAIN boletos = 1..Len(boletos)
      /\ DOMAIN boletos' = 1..(Len(boletos) + 1)
      /\ Len(boletos) \in Nat
  OBVIOUS
<1>2. \A b \in 1..Len(boletos) : boletos'[b] = boletos[b]
  BY <1>1
<1>3. boletos'[Len(boletos) + 1] = row
  BY <1>1
<1>. QED  BY <1>1, <1>2, <1>3 DEF BoletosOf

(* The boletos of an installment are finitely many.                         *)
LEMMA BoletosOfFinite ==
  ASSUME boletos \in Seq(Row), NEW i \in Installments
  PROVE  /\ IsFiniteSet(BoletosOf(i))
         /\ Cardinality(BoletosOf(i)) \in Nat
         /\ Len(boletos) + 1 \notin BoletosOf(i)
<1>1. /\ DOMAIN boletos = 1..Len(boletos)
      /\ Len(boletos) \in Nat
  OBVIOUS
<1>2. IsFiniteSet(1..Len(boletos))
  BY <1>1, FS_Interval
<1>3. BoletosOf(i) \subseteq 1..Len(boletos)
  BY <1>1 DEF BoletosOf
<1>4. IsFiniteSet(BoletosOf(i))
  BY <1>2, <1>3, FS_Subset
<1>5. Cardinality(BoletosOf(i)) \in Nat
  BY <1>4, FS_CardinalityType
<1>. QED  BY <1>1, <1>3, <1>4, <1>5

(* A change of a row that keeps its installment changes no BoletosOf.       *)
LEMMA BoletosOfUpdate ==
  ASSUME boletos \in Seq(Row), boletos' \in Seq(Row), Len(boletos') = Len(boletos),
         \A b \in DOMAIN boletos : boletos'[b].inst = boletos[b].inst,
         NEW i \in Installments
  PROVE  BoletosOf(i)' = BoletosOf(i)
<1>1. DOMAIN boletos' = DOMAIN boletos
  OBVIOUS
<1>. QED  BY <1>1 DEF BoletosOf

----------------------------------------------------------------------------
(* Replacing a row by one of the same installment yields a table again,     *)
(* with the same rows for every installment.                                *)
LEMMA RowReplace ==
  ASSUME NEW f \in Seq(Row), NEW b \in DOMAIN f, NEW row \in Row,
         row.inst = f[b].inst
  PROVE  /\ [f EXCEPT ![b] = row] \in Seq(Row)
         /\ Len([f EXCEPT ![b] = row]) = Len(f)
         /\ \A c \in DOMAIN f : [f EXCEPT ![b] = row][c].inst = f[c].inst
  OBVIOUS

LEMMA RowUpdate ==
  ASSUME NEW x \in Row, NEW s \in RowStatus, NEW k \in {"open", "cancelled"}
  PROVE  /\ [x EXCEPT !.status = s] \in Row
         /\ [x EXCEPT !.status = s].inst = x.inst
         /\ [x EXCEPT !.status = s].status = s
         /\ [x EXCEPT !.status = s].bank = x.bank
         /\ [x EXCEPT !.bank = k] \in Row
         /\ [x EXCEPT !.bank = k].inst = x.inst
         /\ [x EXCEPT !.bank = k].bank = k
         /\ [x EXCEPT !.bank = k].status = x.status
  BY DEF Row

(* What the actions on a row leave of the table.                            *)
TableKept == /\ boletos' \in Seq(Row)
             /\ Len(boletos') = Len(boletos)
             /\ \A c \in DOMAIN boletos : boletos'[c].inst = boletos[c].inst

LEMMA StatusUpdate ==
  ASSUME boletos \in Seq(Row), NEW b \in DOMAIN boletos, NEW s \in RowStatus,
         boletos' = [boletos EXCEPT ![b].status = s]
  PROVE  /\ TableKept
         /\ boletos'[b].status = s /\ boletos'[b].bank = boletos[b].bank
         /\ \A c \in DOMAIN boletos \ {b} : boletos'[c] = boletos[c]
<1> DEFINE row == [boletos[b] EXCEPT !.status = s]
<1>1. boletos[b] \in Row
  OBVIOUS
<1>2. row \in Row /\ row.inst = boletos[b].inst
      /\ row.status = s /\ row.bank = boletos[b].bank
  BY <1>1, RowUpdate
<1>3. boletos' = [boletos EXCEPT ![b] = row]
  OBVIOUS
<1> HIDE DEF row
<1>4. /\ [boletos EXCEPT ![b] = row] \in Seq(Row)
      /\ Len([boletos EXCEPT ![b] = row]) = Len(boletos)
      /\ \A c \in DOMAIN boletos :
           [boletos EXCEPT ![b] = row][c].inst = boletos[c].inst
  BY <1>2, RowReplace
<1>5. TableKept
  BY <1>3, <1>4, Zenon DEF TableKept
<1>. QED  BY <1>2, <1>3, <1>5

LEMMA BankUpdate ==
  ASSUME boletos \in Seq(Row), NEW b \in DOMAIN boletos,
         boletos' = [boletos EXCEPT ![b].bank = "cancelled"]
  PROVE  /\ TableKept
         /\ boletos'[b].bank = "cancelled"
         /\ boletos'[b].status = boletos[b].status
         /\ \A c \in DOMAIN boletos \ {b} : boletos'[c] = boletos[c]
<1> DEFINE row == [boletos[b] EXCEPT !.bank = "cancelled"]
<1>1. boletos[b] \in Row
  OBVIOUS
<1>2. row \in Row /\ row.inst = boletos[b].inst
      /\ row.bank = "cancelled" /\ row.status = boletos[b].status
  BY <1>1, RowUpdate DEF RowStatus
<1>3. boletos' = [boletos EXCEPT ![b] = row]
  OBVIOUS
<1> HIDE DEF row
<1>4. /\ [boletos EXCEPT ![b] = row] \in Seq(Row)
      /\ Len([boletos EXCEPT ![b] = row]) = Len(boletos)
      /\ \A c \in DOMAIN boletos :
           [boletos EXCEPT ![b] = row][c].inst = boletos[c].inst
  BY <1>2, RowReplace
<1>5. TableKept
  BY <1>3, <1>4, Zenon DEF TableKept
<1>. QED  BY <1>2, <1>3, <1>5

----------------------------------------------------------------------------
(* Type correctness.                                                        *)
LEMMA TimersUpdate ==
  ASSUME NEW t \in [Origins -> [Installments -> Nat]],
         NEW o \in Origins, NEW i \in Installments, NEW n \in Nat
  PROVE  /\ [t EXCEPT ![o][i] = n] \in [Origins -> [Installments -> Nat]]
         /\ [t EXCEPT ![o][i] = n][o][i] = n
         /\ \A p \in Origins, j \in Installments :
              p # o \/ j # i => [t EXCEPT ![o][i] = n][p][j] = t[p][j]
  OBVIOUS

LEMMA BoletoTypeInit == BoletoInit => BoletoTypeOK
  BY DEF BoletoInit, BoletoTypeOK

(* Every action of the component, and a stuttering step, keeps the types.   *)
LEMMA BoletoTypeStep == BoletoTypeOK /\ [BoletoNext]_boletoVars => BoletoTypeOK'
<1> SUFFICES ASSUME BoletoTypeOK, [BoletoNext]_boletoVars
             PROVE  BoletoTypeOK'
  OBVIOUS
<1>t. /\ timers \in [Origins -> [Installments -> Nat]]
      /\ posting \in [Installments -> Nat]
      /\ accepted \in [Installments -> Nat]
      /\ boletos \in Seq(Row)
      /\ edited \subseteq DOMAIN boletos
  BY DEF BoletoTypeOK
<1>1. CASE \E i \in Installments, o \in Origins : CreateBoleto(i, o)
  <2>1. PICK i \in Installments, o \in Origins : CreateBoleto(i, o)
    BY <1>1
  <2>2. timers' = [timers EXCEPT ![o][i] = timers[o][i] + 1]
    BY <2>1 DEF CreateBoleto
  <2>3. timers[o][i] + 1 \in Nat
    BY <1>t
  <2>4. timers' \in [Origins -> [Installments -> Nat]]
    BY <1>t, <2>2, <2>3, TimersUpdate
  <2>5. accepted' \in [Installments -> Nat]
    BY <1>t, <2>1 DEF CreateBoleto
  <2>. QED  BY <1>t, <2>1, <2>4, <2>5 DEF CreateBoleto, BoletoTypeOK
<1>2. CASE \E i \in Installments, o \in Origins : FireTimer(i, o)
  <2>1. PICK i \in Installments, o \in Origins : FireTimer(i, o)
    BY <1>2
  <2>2. timers' = [timers EXCEPT ![o][i] = timers[o][i] - 1]
    BY <2>1 DEF FireTimer
  <2>3. timers[o][i] - 1 \in Nat
    BY <1>t, <2>1 DEF FireTimer
  <2>4. timers' \in [Origins -> [Installments -> Nat]]
    BY <1>t, <2>2, <2>3, TimersUpdate
  <2>5. posting' \in [Installments -> Nat]
    BY <1>t, <2>1 DEF FireTimer
  <2>. QED  BY <1>t, <2>1, <2>4, <2>5 DEF FireTimer, BoletoTypeOK
<1>3. CASE \E i \in Installments : N8nIssues(i)
  <2>1. PICK i \in Installments : N8nIssues(i)
    BY <1>3
  <2>2. posting' \in [Installments -> Nat]
    BY <1>t, <2>1 DEF N8nIssues
  <2>3. [inst |-> i, status |-> "A_RECEBER", bank |-> "open"] \in Row
    BY DEF Row, RowStatus
  <2>4. boletos' \in Seq(Row) /\ DOMAIN boletos \subseteq DOMAIN boletos'
    BY <1>t, <2>1, <2>3 DEF N8nIssues
  <2>. QED  BY <1>t, <2>1, <2>2, <2>4 DEF N8nIssues, BoletoTypeOK
<1>4. CASE \E i \in Installments : N8nRefuses(i)
  BY <1>t, <1>4 DEF N8nRefuses, BoletoTypeOK
<1>5. CASE \E b \in DOMAIN boletos : BankCancels(b)
  <2>1. PICK b \in DOMAIN boletos : BankCancels(b)
    BY <1>5
  <2>2. TableKept
    BY <1>t, <2>1, BankUpdate DEF BankCancels
  <2>. QED  BY <1>t, <2>1, <2>2 DEF BankCancels, TableKept, BoletoTypeOK
<1>6. CASE \E b \in DOMAIN boletos : MarkCancelled(b)
  <2>1. PICK b \in DOMAIN boletos : MarkCancelled(b)
    BY <1>6
  <2>2. TableKept
    BY <1>t, <2>1, StatusUpdate DEF MarkCancelled, WriteCancelled, RowStatus
  <2>. QED
    BY <1>t, <2>1, <2>2
    DEF MarkCancelled, WriteCancelled, TableKept, BoletoTypeOK
<1>7. CASE \E b \in DOMAIN boletos, s \in RowStatus : PutBoleto(b, s)
  <2>1. PICK b \in DOMAIN boletos, s \in RowStatus : PutBoleto(b, s)
    BY <1>7
  <2>2. TableKept
    BY <1>t, <2>1, StatusUpdate DEF PutBoleto
  <2>. QED  BY <1>t, <2>1, <2>2 DEF PutBoleto, TableKept, BoletoTypeOK
<1>8. CASE LoseTimers
  BY <1>t, <1>8 DEF LoseTimers, BoletoTypeOK
<1>9. CASE UNCHANGED boletoVars
  BY <1>t, <1>9 DEF boletoVars, BoletoTypeOK
<1>. QED
  BY <1>1, <1>2, <1>3, <1>4, <1>5, <1>6, <1>7, <1>8, <1>9 DEF BoletoNext

(* The boletos table, the timers and the counters keep their types in every *)
(* behaviour of the component.                                              *)
THEOREM BoletoTypeCorrect == BoletoSpec => []BoletoTypeOK
  BY BoletoTypeInit, BoletoTypeStep, PTL DEF BoletoSpec

----------------------------------------------------------------------------
(* At most one boleto for each accepted call.                               *)

(* What has become, or may still become, of the calls about installment i.  *)
Outstanding(i) == Cardinality(BoletosOf(i)) + posting[i]
                    + timers["creation"][i] + timers["request"][i]

LEMMA EmissionInit == BoletoInit => EmissionAtMostOnce
<1> SUFFICES ASSUME BoletoInit, NEW i \in Installments
             PROVE  Outstanding(i) <= accepted[i]
  BY DEF EmissionAtMostOnce, Outstanding
<1>1. BoletosOf(i) = {}
  BY DEF BoletoInit, BoletosOf
<1>2. Cardinality(BoletosOf(i)) = 0
  BY <1>1, FS_EmptySet
<1>. QED  BY <1>2 DEF BoletoInit, Outstanding, Origins

(* Each action moves a call from one stage to the next, or drops it.        *)
LEMMA EmissionStep ==
  BoletoTypeOK /\ EmissionAtMostOnce /\ [BoletoNext]_boletoVars
    => EmissionAtMostOnce'
<1> SUFFICES ASSUME BoletoTypeOK, EmissionAtMostOnce, [BoletoNext]_boletoVars,
                    NEW j \in Installments
             PROVE  Outstanding(j)' <= accepted'[j]
  BY DEF EmissionAtMostOnce, Outstanding
<1>t. /\ timers \in [Origins -> [Installments -> Nat]]
      /\ posting \in [Installments -> Nat]
      /\ accepted \in [Installments -> Nat]
      /\ boletos \in Seq(Row)
      /\ "creation" \in Origins /\ "request" \in Origins
  BY DEF BoletoTypeOK, Origins
<1>c. Cardinality(BoletosOf(j)) \in Nat
  BY <1>t, BoletosOfFinite
<1>i. Outstanding(j) <= accepted[j]
  BY DEF EmissionAtMostOnce, Outstanding
<1>n. /\ timers["creation"][j] \in Nat /\ timers["request"][j] \in Nat
      /\ posting[j] \in Nat /\ accepted[j] \in Nat
  BY <1>t
<1>k. ASSUME BoletosOf(j)' = BoletosOf(j)
      PROVE  Outstanding(j)' = Cardinality(BoletosOf(j)) + posting'[j]
                          + timers'["creation"][j] + timers'["request"][j]
  BY <1>k DEF Outstanding
<1>r. TableKept => BoletosOf(j)' = BoletosOf(j)
  BY <1>t, BoletosOfUpdate DEF TableKept
<1>u. boletos' = boletos => BoletosOf(j)' = BoletosOf(j)
  BY DEF BoletosOf
<1>1. CASE \E i \in Installments, o \in Origins : CreateBoleto(i, o)
  <2>1. PICK i \in Installments, o \in Origins : CreateBoleto(i, o)
    BY <1>1
  <2> DEFINE n == timers[o][i] + 1
  <2>2. timers' = [timers EXCEPT ![o][i] = n]
    BY <2>1 DEF CreateBoleto
  <2>3. n \in Nat /\ n = timers[o][i] + 1 /\ timers[o][i] \in Nat
    BY <1>t
  <2> HIDE DEF n
  <2>5. /\ accepted'[j] = IF j = i THEN accepted[j] + 1 ELSE accepted[j]
        /\ posting' = posting /\ boletos' = boletos
    BY <1>t, <2>1 DEF CreateBoleto
  <2>6. \/ /\ j # i
           /\ timers'["creation"][j] = timers["creation"][j]
           /\ timers'["request"][j] = timers["request"][j]
        \/ /\ j = i /\ o = "creation"
           /\ timers'["creation"][j] = n
           /\ timers'["request"][j] = timers["request"][j]
        \/ /\ j = i /\ o = "request"
           /\ timers'["creation"][j] = timers["creation"][j]
           /\ timers'["request"][j] = n
    BY <1>t, <2>2, <2>3 DEF Origins
  <2>. QED
    BY <1>c, <1>i, <1>k, <1>n, <1>u, <2>3, <2>5, <2>6 DEF Outstanding
<1>2. CASE \E i \in Installments, o \in Origins : FireTimer(i, o)
  <2>1. PICK i \in Installments, o \in Origins : FireTimer(i, o)
    BY <1>2
  <2> DEFINE n == timers[o][i] - 1
  <2>2. timers' = [timers EXCEPT ![o][i] = n]
    BY <2>1 DEF FireTimer
  <2>3. n \in Nat /\ n = timers[o][i] - 1 /\ timers[o][i] \in Nat
    BY <1>t, <2>1 DEF FireTimer
  <2> HIDE DEF n
  <2>5. /\ posting'[j] = IF j = i THEN posting[j] + 1 ELSE posting[j]
        /\ accepted' = accepted /\ boletos' = boletos
    BY <1>t, <2>1 DEF FireTimer
  <2>6. \/ /\ j # i
           /\ timers'["creation"][j] = timers["creation"][j]
           /\ timers'["request"][j] = timers["request"][j]
        \/ /\ j = i /\ o = "creation"
           /\ timers'["creation"][j] = n
           /\ timers'["request"][j] = timers["request"][j]
        \/ /\ j = i /\ o = "request"
           /\ timers'["creation"][j] = timers["creation"][j]
           /\ timers'["request"][j] = n
    BY <1>t, <2>2, <2>3 DEF Origins
  <2>. QED
    BY <1>c, <1>i, <1>k, <1>n, <1>u, <2>3, <2>5, <2>6 DEF Outstanding
<1>3. CASE \E i \in Installments : N8nIssues(i)
  <2>1. PICK i \in Installments : N8nIssues(i)
    BY <1>3
  <2> DEFINE row == [inst |-> i, status |-> "A_RECEBER", bank |-> "open"]
  <2>2. row \in Row /\ row.inst = i
    BY DEF Row, RowStatus
  <2>3. /\ posting'[j] = IF j = i THEN posting[j] - 1 ELSE posting[j]
        /\ accepted' = accepted /\ timers' = timers
        /\ boletos' = Append(boletos, row)
    BY <1>t, <2>1 DEF N8nIssues
  <2> HIDE DEF row
  <2>4. BoletosOf(j)' = IF i = j THEN BoletosOf(j) \cup {Len(boletos) + 1}
                                 ELSE BoletosOf(j)
    BY <1>t, <2>2, <2>3, BoletosOfAppend
  <2>5. CASE i = j
    <3>1. /\ IsFiniteSet(BoletosOf(j))
          /\ Len(boletos) + 1 \notin BoletosOf(j)
      BY <1>t, BoletosOfFinite
    <3>2. Cardinality(BoletosOf(j) \cup {Len(boletos) + 1})
            = Cardinality(BoletosOf(j)) + 1
      BY <3>1, FS_AddElement
    <3>3. Cardinality(BoletosOf(j))' = Cardinality(BoletosOf(j)) + 1
      BY <2>4, <2>5, <3>2
    <3>. QED  BY <1>c, <1>i, <1>n, <2>3, <2>5, <3>3 DEF Outstanding
  <2>6. CASE i # j
    BY <1>c, <1>i, <1>k, <1>n, <2>3, <2>4, <2>6 DEF Outstanding
  <2>. QED  BY <2>5, <2>6
<1>4. CASE \E i \in Installments : N8nRefuses(i)
  <2>1. /\ posting'[j] = posting[j] - 1 \/ posting'[j] = posting[j]
        /\ accepted' = accepted /\ timers' = timers /\ boletos' = boletos
    BY <1>t, <1>4 DEF N8nRefuses
  <2>. QED  BY <1>c, <1>i, <1>k, <1>n, <1>u, <2>1 DEF Outstanding
<1>5. ASSUME BoletosOf(j)' = BoletosOf(j), accepted' = accepted,
             timers' = timers, posting' = posting
      PROVE  Outstanding(j)' <= accepted'[j]
  BY <1>i, <1>k, <1>5 DEF Outstanding
<1>6. CASE \E b \in DOMAIN boletos : BankCancels(b)
  <2>1. PICK b \in DOMAIN boletos : BankCancels(b)
    BY <1>6
  <2>. QED  BY <1>5, <1>r, <1>t, <2>1, BankUpdate DEF BankCancels
<1>7. CASE \E b \in DOMAIN boletos : MarkCancelled(b)
  <2>1. PICK b \in DOMAIN boletos : MarkCancelled(b)
    BY <1>7
  <2>2. TableKept
    BY <1>t, <2>1, StatusUpdate DEF MarkCancelled, WriteCancelled, RowStatus
  <2>. QED  BY <1>5, <1>r, <2>1, <2>2 DEF MarkCancelled, WriteCancelled
<1>8. CASE \E b \in DOMAIN boletos, s \in RowStatus : PutBoleto(b, s)
  <2>1. PICK b \in DOMAIN boletos, s \in RowStatus : PutBoleto(b, s)
    BY <1>8
  <2>2. TableKept
    BY <1>t, <2>1, StatusUpdate DEF PutBoleto
  <2>. QED  BY <1>5, <1>r, <2>1, <2>2 DEF PutBoleto
<1>9. CASE LoseTimers
  <2>1. /\ timers'["creation"][j] = 0 /\ timers'["request"][j] = 0
        /\ accepted' = accepted /\ posting' = posting /\ boletos' = boletos
    BY <1>9 DEF LoseTimers, Origins
  <2>. QED  BY <1>c, <1>i, <1>k, <1>n, <1>u, <2>1 DEF Outstanding
<1>10. CASE UNCHANGED boletoVars
  BY <1>5, <1>u, <1>10 DEF boletoVars
<1>. QED
  BY <1>1, <1>2, <1>3, <1>4, <1>6, <1>7, <1>8, <1>9, <1>10 DEF BoletoNext

(* However calls, refusals, restarts, cancellations and manual updates      *)
(* interleave, an accepted call issues at most one boleto.                  *)
THEOREM EmissionOnce == BoletoSpec => []EmissionAtMostOnce
  BY BoletoTypeInit, BoletoTypeStep, EmissionInit, EmissionStep, PTL
  DEF BoletoSpec

----------------------------------------------------------------------------
(* CANCELADO means cancelled at the bank.                                   *)
LEMMA CancelledStep ==
  BoletoTypeOK /\ CancelledMeansCancelledAtBank /\ [BoletoNext]_boletoVars
    => CancelledMeansCancelledAtBank'
<1> DEFINE Honest(b) == boletos[b].status = "CANCELADO" /\ b \notin edited
                          => boletos[b].bank = "cancelled"
<1> SUFFICES ASSUME BoletoTypeOK, CancelledMeansCancelledAtBank,
                    [BoletoNext]_boletoVars, NEW c \in DOMAIN boletos'
             PROVE  Honest(c)'
  BY DEF CancelledMeansCancelledAtBank
<1>t. boletos \in Seq(Row)
  BY DEF BoletoTypeOK
<1>i. \A b \in DOMAIN boletos : Honest(b)
  BY DEF CancelledMeansCancelledAtBank
<1>k. TableKept => c \in DOMAIN boletos
  BY <1>t DEF TableKept
<1>s. ASSUME c \in DOMAIN boletos, boletos'[c] = boletos[c],
             edited \subseteq edited'
      PROVE  Honest(c)'
  BY <1>i, <1>s
<1>1. CASE UNCHANGED <<boletos, edited>>
  BY <1>1, <1>s
<1>2. CASE \E i \in Installments : N8nIssues(i)
  <2>1. PICK i \in Installments : N8nIssues(i)
    BY <1>2
  <2> DEFINE row == [inst |-> i, status |-> "A_RECEBER", bank |-> "open"]
  <2>2. boletos' = Append(boletos, row) /\ edited' = edited
        /\ row.status = "A_RECEBER"
    BY <2>1 DEF N8nIssues
  <2> HIDE DEF row
  <2>3. boletos'[c] = row \/ (c \in DOMAIN boletos /\ boletos'[c] = boletos[c])
    BY <1>t, <2>2
  <2>. QED  BY <1>s, <2>2, <2>3
<1>3. CASE \E b \in DOMAIN boletos : BankCancels(b)
  <2>1. PICK b \in DOMAIN boletos : BankCancels(b)
    BY <1>3
  <2>2. /\ TableKept
        /\ boletos'[b].bank = "cancelled"
        /\ \A d \in DOMAIN boletos \ {b} : boletos'[d] = boletos[d]
        /\ edited' = edited
    BY <1>t, <2>1, BankUpdate DEF BankCancels
  <2>. QED  BY <1>k, <1>s, <2>2
<1>4. CASE \E b \in DOMAIN boletos : MarkCancelled(b)
  <2>1. PICK b \in DOMAIN boletos : MarkCancelled(b)
    BY <1>4
  <2>2. /\ TableKept
        /\ boletos[b].bank = "cancelled"
        /\ boletos'[b].bank = boletos[b].bank
        /\ \A d \in DOMAIN boletos \ {b} : boletos'[d] = boletos[d]
        /\ edited' = edited
    BY <1>t, <2>1, StatusUpdate DEF MarkCancelled, WriteCancelled, RowStatus
  <2>. QED  BY <1>k, <1>s, <2>2
<1>5. CASE \E b \in DOMAIN boletos, s \in RowStatus : PutBoleto(b, s)
  <2>1. PICK b \in DOMAIN boletos, s \in RowStatus : PutBoleto(b, s)
    BY <1>5
  <2>2. /\ TableKept
        /\ \A d \in DOMAIN boletos \ {b} : boletos'[d] = boletos[d]
        /\ edited' = edited \cup {b}
    BY <1>t, <2>1, StatusUpdate DEF PutBoleto
  <2>. QED  BY <1>k, <1>s, <2>2
<1>6. CASE \/ \E i \in Installments, o \in Origins : CreateBoleto(i, o)
           \/ \E i \in Installments, o \in Origins : FireTimer(i, o)
           \/ \E i \in Installments : N8nRefuses(i)
           \/ LoseTimers
           \/ UNCHANGED boletoVars
  BY <1>1, <1>6 DEF CreateBoleto, FireTimer, N8nRefuses, LoseTimers, boletoVars
<1>. QED  BY <1>2, <1>3, <1>4, <1>5, <1>6 DEF BoletoNext

(* A row nobody overwrote reads CANCELADO only after the bank cancelled it. *)
THEOREM CancelledIsCancelled == BoletoSpec => []CancelledMeansCancelledAtBank
<1>1. BoletoInit => CancelledMeansCancelledAtBank
  BY DEF BoletoInit, CancelledMeansCancelledAtBank
<1>. QED
  BY <1>1, BoletoTypeInit, BoletoTypeStep, CancelledStep, PTL DEF BoletoSpec

----------------------------------------------------------------------------
(* No step removes a row, moves it to another installment, or undoes a      *)
(* cancellation at the bank.                                                *)
RowsKept ==
  /\ DOMAIN boletos \subseteq DOMAIN boletos'
  /\ \A b \in DOMAIN boletos :
       /\ boletos'[b].inst = boletos[b].inst
       /\ boletos[b].bank = "cancelled" => boletos'[b].bank = "cancelled"

LEMMA RowsKeptStep == BoletoTypeOK /\ [BoletoNext]_boletoVars => RowsKept
<1> SUFFICES ASSUME BoletoTypeOK, [BoletoNext]_boletoVars
             PROVE  RowsKept
  OBVIOUS
<1>t. boletos \in Seq(Row)
  BY DEF BoletoTypeOK
<1>u. boletos' = boletos => RowsKept
  BY DEF RowsKept
<1>d. TableKept => DOMAIN boletos = DOMAIN boletos'
  BY <1>t DEF TableKept
<1>1. CASE \E i \in Installments : N8nIssues(i)
  <2>1. PICK i \in Installments : N8nIssues(i)
    BY <1>1
  <2> DEFINE row == [inst |-> i, status |-> "A_RECEBER", bank |-> "open"]
  <2>2. boletos' = Append(boletos, row)
    BY <2>1 DEF N8nIssues
  <2> HIDE DEF row
  <2>3. /\ DOMAIN boletos \subseteq DOMAIN boletos'
        /\ \A b \in DOMAIN boletos : boletos'[b] = boletos[b]
    BY <1>t, <2>2
  <2>. QED  BY <2>3 DEF RowsKept
<1>2. CASE \E b \in DOMAIN boletos : BankCancels(b)
  <2>1. PICK b \in DOMAIN boletos : BankCancels(b)
    BY <1>2
  <2>2. /\ TableKept
        /\ boletos'[b].bank = "cancelled"
        /\ \A d \in DOMAIN boletos \ {b} : boletos'[d] = boletos[d]
    BY <1>t, <2>1, BankUpdate DEF BankCancels
  <2>. QED  BY <1>d, <2>2 DEF RowsKept, TableKept
<1>3. CASE \E b \in DOMAIN boletos : MarkCancelled(b)
  <2>1. PICK b \in DOMAIN boletos : MarkCancelled(b)
    BY <1>3
  <2>2. /\ TableKept
        /\ boletos'[b].bank = boletos[b].bank
        /\ \A d \in DOMAIN boletos \ {b} : boletos'[d] = boletos[d]
    BY <1>t, <2>1, StatusUpdate DEF MarkCancelled, WriteCancelled, RowStatus
  <2>. QED  BY <1>d, <2>2 DEF RowsKept, TableKept
<1>4. CASE \E b \in DOMAIN boletos, s \in RowStatus : PutBoleto(b, s)
  <2>1. PICK b \in DOMAIN boletos, s \in RowStatus : PutBoleto(b, s)
    BY <1>4
  <2>2. /\ TableKept
        /\ boletos'[b].bank = boletos[b].bank
        /\ \A d \in DOMAIN boletos \ {b} : boletos'[d] = boletos[d]
    BY <1>t, <2>1, StatusUpdate DEF PutBoleto
  <2>. QED  BY <1>d, <2>2 DEF RowsKept, TableKept
<1>5. CASE \/ \E i \in Installments, o \in Origins : CreateBoleto(i, o)
           \/ \E i \in Installments, o \in Origins : FireTimer(i, o)
           \/ \E i \in Installments : N8nRefuses(i)
           \/ LoseTimers
           \/ UNCHANGED boletoVars
  BY <1>u, <1>5 DEF CreateBoleto, FireTimer, N8nRefuses, LoseTimers, boletoVars
<1>. QED  BY <1>1, <1>2, <1>3, <1>4, <1>5 DEF BoletoNext
=============================================================================
