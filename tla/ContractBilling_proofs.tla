------------------------- MODULE ContractBilling_proofs -------------------------
(* Proofs about ContractBilling, for any contracts, requests, lists,        *)
(* operations and restarts: its types, that no adjustment of a value is     *)
(* lost, that billing skips no month and when it bills one twice, that what *)
(* a billing names is whole, that it pays for its whole list or none, that  *)
(* terminations and their histories stay together, and that requests come   *)
(* to an end if only their steps are taken.                                 *)
EXTENDS ContractBilling, FiniteSetTheorems, TLAPS

(* A contract that is being billed has its movement in the table, marked as *)
(* this request's, and everything else a request names is there too.        *)
MoveSteps == {"bill.items", "bill.payment", "bill.link", "bill.dates"}

MovesPlaced ==
  \A r \in Requests :
    /\ pc[r] \in MoveSteps =>
         /\ move[r] \in DOMAIN movements
         /\ movements[move[r]].by = r
         /\ pc[r] = "bill.items" => movements[move[r]].items < ItemCount
    /\ DOMAIN tx[r] \subseteq DOMAIN movements
    /\ \A k \in DOMAIN results[r] :
         results[r][k].movement \in DOMAIN movements \cup {0}

(* The type invariant, in the parts that an action disturbs together.       *)
ContractTypeOK ==
  /\ nextDate \in [Contracts -> Date]
  /\ active \in [Contracts -> BOOLEAN]
  /\ value \in [Contracts -> Nat]
  /\ lock \in [Contracts -> SUBSET Requests]
  /\ terminations \in [Contracts -> Nat]
  /\ adjustments \in [Contracts -> Nat]
  /\ operated \subseteq Contracts
  /\ crashes \in 0..MaxCrashes

MovementTypeOK ==
  /\ movements \in Seq(Movement)
  /\ DOMAIN payments \subseteq DOMAIN movements
  /\ payments \in [DOMAIN payments -> {"full", "bare"}]
  /\ notified \subseteq DOMAIN movements

ControlTypeOK ==
  /\ op \in [Requests -> AllOps \cup {"none"}]
  /\ pc \in [Requests -> PCs]
  /\ list \in [Requests -> Seq(Contracts)]
  /\ \A r \in Requests :
       pc[r] \notin Ended \cup {"bill.commit", "bill.reply"} => list[r] # <<>>
  /\ reply \in [Requests -> {"none", "ok", "error"}]

RequestTypeOK ==
  /\ seen \in [Requests -> Seen]
  /\ move \in [Requests -> Nat]
  /\ payment \in [Requests -> BOOLEAN]
  /\ tx = [r \in Requests |-> tx[r]]
  /\ \A r \in Requests : tx[r] \in [DOMAIN tx[r] -> {"full", "bare"}]
  /\ poisoned \in [Requests -> BOOLEAN]
  /\ results \in [Requests -> Seq(Result)]

LEMMA TypeParts ==
  TypeOK <=> ContractTypeOK /\ MovementTypeOK /\ ControlTypeOK /\ RequestTypeOK
BY DEF TypeOK, ContractTypeOK, MovementTypeOK, ControlTypeOK, RequestTypeOK

----------------------------------------------------------------------------
(* Dates                                                                    *)

LEMMA DaysInRange == ASSUME NEW m \in Nat PROVE DaysIn(m) \in 28..31
BY DEF DaysIn

LEMMA MonthAfterDate == ASSUME NEW d \in Date PROVE MonthAfter(d) \in Date
<1>1. DaysIn(d.month + 1) \in 28..31 /\ d.month \in Nat /\ d.day \in 1..31
  BY DaysInRange DEF Date
<1>. QED  BY <1>1 DEF MonthAfter, DateOf, Date

(* One month later is the same day when every month has that day.           *)
LEMMA MonthAfterRegular ==
  ASSUME NEW d \in Date, d.day <= 28
  PROVE  /\ MonthAfter(d).month = d.month + 1
         /\ MonthAfter(d).day = d.day
<1>1. DaysIn(d.month + 1) \in 28..31 /\ d.month \in Nat /\ d.day \in 1..31
  BY DaysInRange DEF Date
<1>. QED  BY <1>1 DEF MonthAfter, DateOf

----------------------------------------------------------------------------
(* The table of movements                                                   *)

(* A step keeps the movements there are, with who made them and for what.   *)
Kept(q, p) ==
  /\ DOMAIN q \subseteq DOMAIN p
  /\ \A m \in DOMAIN q :
       /\ p[m].by = q[m].by
       /\ p[m].contract = q[m].contract
       /\ p[m].date = q[m].date

LEMMA MovementAppended ==
  ASSUME movements \in Seq(Movement), NEW e \in Movement
  PROVE  /\ Append(movements, e) \in Seq(Movement)
         /\ DOMAIN Append(movements, e) = DOMAIN movements \cup {Len(movements) + 1}
         /\ Len(movements) + 1 \in Nat \ DOMAIN movements
         /\ \A m \in DOMAIN movements : Append(movements, e)[m] = movements[m]
         /\ Append(movements, e)[Len(movements) + 1] = e
OBVIOUS

LEMMA ItemsUpdated ==
  ASSUME movements \in Seq(Movement), NEW m \in DOMAIN movements,
         NEW n \in 0..ItemCount,
         movements' = [movements EXCEPT ![m].items = n]
  PROVE  /\ movements' \in Seq(Movement)
         /\ Kept(movements, movements') /\ DOMAIN movements' = DOMAIN movements
         /\ movements'[m].items = n
         /\ \A k \in DOMAIN movements \ {m} : movements'[k] = movements[k]
<1>1. movements[m] \in Movement /\ DOMAIN movements = 1 .. Len(movements)
  OBVIOUS
<1>2. [movements[m] EXCEPT !.items = n] \in Movement
  BY <1>1 DEF Movement
<1>3. movements' = [movements EXCEPT ![m] = [movements[m] EXCEPT !.items = n]]
  OBVIOUS
<1>4. movements' \in Seq(Movement)
  BY <1>2, <1>3
<1>5. movements'[m] = [movements[m] EXCEPT !.items = n]
      /\ DOMAIN movements' = DOMAIN movements
      /\ \A k \in DOMAIN movements \ {m} : movements'[k] = movements[k]
  BY <1>3
<1>. QED  BY <1>1, <1>4, <1>5 DEF Kept, Movement

LEMMA LinkUpdated ==
  ASSUME movements \in Seq(Movement), NEW m \in DOMAIN movements,
         NEW table, table = [movements EXCEPT ![m].linked = TRUE]
  PROVE  /\ table \in Seq(Movement)
         /\ Kept(movements, table) /\ DOMAIN table = DOMAIN movements
         /\ \A k \in DOMAIN movements : table[k].items = movements[k].items
<1>1. movements[m] \in Movement /\ DOMAIN movements = 1 .. Len(movements)
  OBVIOUS
<1>2. [movements[m] EXCEPT !.linked = TRUE] \in Movement
  BY <1>1 DEF Movement
<1>3. table = [movements EXCEPT ![m] = [movements[m] EXCEPT !.linked = TRUE]]
  OBVIOUS
<1>4. table \in Seq(Movement)
  BY <1>2, <1>3
<1>5. table[m] = [movements[m] EXCEPT !.linked = TRUE]
      /\ DOMAIN table = DOMAIN movements
      /\ \A k \in DOMAIN movements \ {m} : table[k] = movements[k]
  BY <1>3
<1>. QED  BY <1>1, <1>4, <1>5 DEF Kept, Movement

----------------------------------------------------------------------------
(* The list of contracts of a request                                       *)

LEMMA TailOfList ==
  ASSUME NEW S, NEW q \in Seq(S), q # <<>>
  PROVE  /\ Head(q) \in S /\ Tail(q) \in Seq(S)
         /\ Len(q) # 1 => Tail(q) # <<>>
<1>1. Len(q) \in Nat \ {0} /\ Head(q) \in S /\ Tail(q) \in Seq(S)
      /\ Len(Tail(q)) = Len(q) - 1
  OBVIOUS
<1>2. Len(q) # 1 => Len(Tail(q)) # 0
  BY <1>1
<1>. QED  BY <1>1, <1>2

LEMMA NowInList ==
  ASSUME ControlTypeOK, NEW r \in Requests,
         pc[r] \notin Ended \cup {"bill.commit", "bill.reply"}
  PROVE  /\ Now(r) \in Contracts
         /\ Tail(list[r]) \in Seq(Contracts)
         /\ Len(list[r]) # 1 => Tail(list[r]) # <<>>
<1>1. list[r] \in Seq(Contracts) /\ list[r] # <<>>
  BY DEF ControlTypeOK
<1>. QED  BY <1>1, TailOfList DEF Now

LEMMA ControlGoto ==
  ASSUME ControlTypeOK, NEW r \in Requests, NEW step \in PCs,
         \/ pc[r] \notin Ended \cup {"bill.commit", "bill.reply"}
         \/ step = "bill.reply",
         Goto(r, step), UNCHANGED <<op, list>>
  PROVE  ControlTypeOK'
BY DEF ControlTypeOK, Goto

LEMMA ControlReply ==
  ASSUME ControlTypeOK, NEW r \in Requests, NEW answer \in {"ok", "error"},
         Reply(r, answer), UNCHANGED <<op, list>>
  PROVE  ControlTypeOK'
BY DEF ControlTypeOK, Reply, PCs, Ended

LEMMA ControlStarts ==
  ASSUME ControlTypeOK, NEW r \in Requests, NEW o, NEW cs \in Seq(Contracts),
         NEW step \in PCs, Starts(r, o, cs), Goto(r, step),
         cs # <<>> \/ step \in Ended \cup {"bill.commit"}
  PROVE  ControlTypeOK'
BY OpsAssumption DEF ControlTypeOK, Starts, Goto

LEMMA ControlStartsOn ==
  ASSUME ControlTypeOK, NEW r \in Requests, NEW o, NEW c \in Contracts,
         NEW step \in PCs, Starts(r, o, <<c>>), Goto(r, step)
  PROVE  ControlTypeOK'
<1>1. <<c>> \in Seq(Contracts) /\ <<c>> # <<>>
  OBVIOUS
<1>. QED  BY <1>1, ControlStarts

LEMMA ControlNext ==
  ASSUME ControlTypeOK, NEW r \in Requests, NEW status,
         pc[r] \notin Ended \cup {"bill.commit", "bill.reply"},
         NextContract(r, status)
  PROVE  ControlTypeOK'
<1>1. /\ Tail(list[r]) \in Seq(Contracts)
      /\ Len(list[r]) # 1 => Tail(list[r]) # <<>>
  BY NowInList
<1>2. {"bill.commit", "bill.find"} \subseteq PCs
  BY DEF PCs, BillingSteps
<1>. QED  BY <1>1, <1>2 DEF ControlTypeOK, NextContract, Goto, Ended

----------------------------------------------------------------------------
(* The types, part by part                                                  *)

LEMMA TypeInit == Init => TypeOK /\ MovesPlaced
<1>. SUFFICES ASSUME Init PROVE TypeOK /\ MovesPlaced
  OBVIOUS
<1>1. ContractTypeOK
  BY FirstDateAssumption, CrashesAssumption DEF Init, ContractTypeOK
<1>2. MovementTypeOK
  BY DEF Init, MovementTypeOK
<1>3. ControlTypeOK
  BY DEF Init, ControlTypeOK, PCs, Ended
<1>4. RequestTypeOK
  BY DEF Init, RequestTypeOK, NotRead, Seen, Date
<1>5. MovesPlaced
  BY DEF Init, MovesPlaced, MoveSteps
<1>. QED  BY <1>1, <1>2, <1>3, <1>4, <1>5, TypeParts

LEMMA ContractTypeStep ==
  ContractTypeOK /\ ControlTypeOK /\ RequestTypeOK /\ [Next]_vars
    => ContractTypeOK'
<1>. SUFFICES ASSUME ContractTypeOK, ControlTypeOK, RequestTypeOK, [Next]_vars
              PROVE  ContractTypeOK'
  OBVIOUS
<1>1. ASSUME NEW r \in Requests, BillingStep(r)
      PROVE  ContractTypeOK'
  <2>1. InsideBilling /\ (MoveDate(r) \/ UNCHANGED nextDate)
    BY <1>1
    DEF BillingStep, BeginBilling, BillFind, BillMovement, BillItem,
        BillPayment, BillLink, BillDates, BillStageFails, BillStageTimesOut,
        BillCommit, BillCommitFails, BillReply
  <2>2. nextDate' \in [Contracts -> Date]
    <3>1. seen[r].date \in Date /\ MonthAfter(seen[r].date) \in Date
      BY MonthAfterDate DEF RequestTypeOK, Seen
    <3>. QED  BY <2>1, <3>1 DEF MoveDate, ContractTypeOK
  <2>. QED  BY <2>1, <2>2 DEF InsideBilling, historyVars, ContractTypeOK
<1>2. ASSUME NEW r \in Requests, TerminationStep(r)
      PROVE  ContractTypeOK'
  <2>1. CASE \E c \in Contracts : BeginTermination(r, c)
    BY <2>1 DEF BeginTermination, OutsideBilling, contractVars, historyVars,
                ContractTypeOK
  <2>2. CASE TerminationUpdate(r)
    BY <2>2 DEF TerminationUpdate, Inactivate, OutsideBilling, historyVars,
                ContractTypeOK
  <2>3. ASSUME RecordTermination(r)
        PROVE  terminations' \in [Contracts -> Nat]
    <3>1. Now(r) \in Contracts
      BY <2>3, NowInList DEF RecordTermination, Ended
    <3>. QED  BY <2>3, <3>1 DEF RecordTermination, ContractTypeOK
  <2>4. CASE TerminationHistory(r)
    BY <2>3, <2>4 DEF TerminationHistory, OutsideBilling, contractVars,
                      ContractTypeOK
  <2>5. CASE TerminationReply(r)
    BY <2>5 DEF TerminationReply, OutsideBilling, contractVars, historyVars,
                ContractTypeOK
  <2>6. CASE TerminationFails(r)
    <3>1. /\ active' \in [Contracts -> BOOLEAN]
          /\ terminations' \in [Contracts -> Nat]
      BY <2>3, <2>6 DEF TerminationFails, Inactivate, ContractTypeOK
    <3>. QED
      BY <2>6, <3>1 DEF TerminationFails, OutsideBilling, ContractTypeOK
  <2>. QED  BY <1>2, <2>1, <2>2, <2>4, <2>5, <2>6 DEF TerminationStep
<1>3. ASSUME NEW r \in Requests, AdjustDateStep(r)
      PROVE  ContractTypeOK'
  <2>1. ASSUME NEW c \in Contracts, NEW d \in Dates, AdjustDate(r, c, d)
        PROVE  ContractTypeOK'
    BY <2>1, DatesAssumption
    DEF AdjustDate, SetDate, OutsideBilling, historyVars, ContractTypeOK
  <2>2. CASE AdjustDateHistory(r)
    BY <2>2 DEF AdjustDateHistory, OutsideBilling, contractVars, historyVars,
                ContractTypeOK
  <2>3. CASE AdjustDateFails(r)
    <3>1. nextDate' \in [Contracts -> Date] /\ operated' \subseteq Contracts
      BY <2>3, DatesAssumption DEF AdjustDateFails, SetDate, ContractTypeOK
    <3>. QED
      BY <2>3, <3>1 DEF AdjustDateFails, OutsideBilling, historyVars,
                        ContractTypeOK
  <2>. QED  BY <1>3, <2>1, <2>2, <2>3 DEF AdjustDateStep
<1>4. ASSUME NEW r \in Requests, AdjustmentStep(r)
      PROVE  ContractTypeOK'
  <2>6. ASSUME CommitAdjustment(r)
        PROVE  /\ value' \in [Contracts -> Nat]
               /\ adjustments' \in [Contracts -> Nat]
    <3>1. seen[r].value \in Nat /\ Now(r) \in Contracts
      BY <2>6, NowInList DEF CommitAdjustment, Ended, RequestTypeOK, Seen
    <3>. QED  BY <2>6, <3>1 DEF CommitAdjustment, ContractTypeOK
  <2>1. CASE \E c \in Contracts : BeginAdjustment(r, c)
    BY <2>1 DEF BeginAdjustment, OutsideBilling, contractVars, historyVars,
                ContractTypeOK
  <2>2. CASE AdjustmentLock(r)
    BY <2>2 DEF AdjustmentLock, OutsideBilling, contractVars, historyVars,
                ContractTypeOK
  <2>3. CASE AdjustmentRead(r)
    BY <2>3 DEF AdjustmentRead, OutsideBilling, contractVars, historyVars,
                ContractTypeOK
  <2>4. CASE AdjustmentCommit(r)
    <3>1. /\ value' \in [Contracts -> Nat]
          /\ adjustments' \in [Contracts -> Nat]
      BY <2>4, <2>6 DEF AdjustmentCommit
    <3>2. lock' \in [Contracts -> SUBSET Requests]
      BY <2>4 DEF AdjustmentCommit, ContractTypeOK
    <3>. QED
      BY <2>4, <3>1, <3>2 DEF AdjustmentCommit, OutsideBilling, ContractTypeOK
  <2>5. CASE AdjustmentFails(r)
    <3>1. /\ value' \in [Contracts -> Nat]
          /\ adjustments' \in [Contracts -> Nat]
      BY <2>5, <2>6 DEF AdjustmentFails, ContractTypeOK
    <3>2. lock' \in [Contracts -> SUBSET Requests]
      BY <2>5 DEF AdjustmentFails, ContractTypeOK
    <3>. QED
      BY <2>5, <3>1, <3>2 DEF AdjustmentFails, OutsideBilling, ContractTypeOK
  <2>. QED  BY <1>4, <2>1, <2>2, <2>3, <2>4, <2>5 DEF AdjustmentStep
<1>5. ASSUME NEW r \in Requests, NEW c \in Contracts, UpdateContract(r, c)
      PROVE  ContractTypeOK'
  <2>1. /\ nextDate' \in [Contracts -> Date]
        /\ active' \in [Contracts -> BOOLEAN]
        /\ value' \in [Contracts -> Nat]
        /\ operated' \subseteq Contracts
    BY <1>5, DatesAssumption
    DEF UpdateContract, contractVars, ContractTypeOK
  <2>. QED
    BY <1>5, <2>1
    DEF UpdateContract, OutsideBilling, historyVars, ContractTypeOK
<1>6. CASE Crash
  BY <1>6, CrashesAssumption DEF Crash, contractVars, historyVars,
                                 ContractTypeOK
<1>7. CASE UNCHANGED vars
  BY <1>7 DEF vars, contractVars, historyVars, ContractTypeOK
<1>. QED
  BY <1>1, <1>2, <1>3, <1>4, <1>5, <1>6, <1>7 DEF Next, RequestStep

LEMMA ControlTypeStep == ControlTypeOK /\ [Next]_vars => ControlTypeOK'
<1>. SUFFICES ASSUME ControlTypeOK, [Next]_vars PROVE ControlTypeOK'
  OBVIOUS
<1>. USE DEF PCs, BillingSteps, Ended
<1>1. ASSUME NEW r \in Requests, BillingStep(r)
      PROVE  ControlTypeOK'
  <2>1. ASSUME NEW cs \in Lists, BeginBilling(r, cs)
        PROVE  ControlTypeOK'
    BY <2>1, ListsAssumption, ControlStarts DEF BeginBilling
  <2>2. CASE BillFind(r) \/ BillMovement(r) \/ BillItem(r) \/ BillPayment(r)
             \/ BillLink(r)
    <3>1. PICK step \in {"bill.movement", "bill.items", "bill.payment",
                         "bill.link", "bill.dates"} : Goto(r, step)
      BY <2>2 DEF BillFind, BillMovement, BillItem, BillPayment, BillLink
    <3>2. /\ pc[r] \notin Ended \cup {"bill.commit", "bill.reply"}
          /\ UNCHANGED <<op, list>>
      BY <2>2
      DEF BillFind, BillMovement, BillItem, BillPayment, BillLink, At
    <3>. QED  BY <3>1, <3>2, ControlGoto
  <2>3. CASE BillDates(r) \/ BillStageFails(r) \/ BillStageTimesOut(r)
    <3>1. PICK status : NextContract(r, status)
      BY <2>3 DEF BillDates, BillStageFails, BillStageTimesOut
    <3>2. pc[r] \notin Ended \cup {"bill.commit", "bill.reply"}
      BY <2>3 DEF BillDates, BillStageFails, BillStageTimesOut
    <3>. QED  BY <3>1, <3>2, ControlNext
  <2>4. CASE BillCommit(r)
    BY <2>4, ControlGoto DEF BillCommit, At
  <2>5. CASE BillCommitFails(r) \/ BillReply(r)
    BY <2>5, ControlReply DEF BillCommitFails, BillReply, At
  <2>. QED  BY <1>1, <2>1, <2>2, <2>3, <2>4, <2>5 DEF BillingStep
<1>2. ASSUME NEW r \in Requests, TerminationStep(r)
      PROVE  ControlTypeOK'
  <2>1. ASSUME NEW c \in Contracts, BeginTermination(r, c)
        PROVE  ControlTypeOK'
    <3>1. PICK step \in {"term.update", "term.history"} : Goto(r, step)
      BY <2>1 DEF BeginTermination
    <3>. QED  BY <2>1, <3>1, ControlStartsOn DEF BeginTermination
  <2>2. CASE TerminationUpdate(r) \/ TerminationHistory(r)
    BY <2>2, ControlGoto DEF TerminationUpdate, TerminationHistory, At
  <2>3. CASE TerminationReply(r) \/ TerminationFails(r)
    BY <2>3, ControlReply DEF TerminationReply, TerminationFails, At
  <2>. QED  BY <1>2, <2>1, <2>2, <2>3 DEF TerminationStep
<1>3. ASSUME NEW r \in Requests, AdjustDateStep(r)
      PROVE  ControlTypeOK'
  <2>1. ASSUME NEW c \in Contracts, NEW d \in Dates, AdjustDate(r, c, d)
        PROVE  ControlTypeOK'
    BY <2>1, ControlStartsOn DEF AdjustDate
  <2>2. CASE AdjustDateHistory(r)
    BY <2>2, ControlReply DEF AdjustDateHistory, At
  <2>3. CASE AdjustDateFails(r)
    <3>1. CASE At(r, "date.history")
      BY <2>3, <3>1, ControlGoto DEF AdjustDateFails, At
    <3>2. ASSUME NEW c \in Contracts, Starts(r, "adjustDate", <<c>>)
          PROVE  ControlTypeOK'
      BY <2>3, <3>2, ControlStartsOn DEF AdjustDateFails
    <3>. QED  BY <2>3, <3>1, <3>2 DEF AdjustDateFails
  <2>. QED  BY <1>3, <2>1, <2>2, <2>3 DEF AdjustDateStep
<1>4. ASSUME NEW r \in Requests, AdjustmentStep(r)
      PROVE  ControlTypeOK'
  <2>1. ASSUME NEW c \in Contracts, BeginAdjustment(r, c)
        PROVE  ControlTypeOK'
    BY <2>1, ControlStartsOn DEF BeginAdjustment
  <2>2. CASE AdjustmentLock(r) \/ AdjustmentRead(r)
    BY <2>2, ControlGoto DEF AdjustmentLock, AdjustmentRead, At
  <2>3. CASE AdjustmentCommit(r) \/ AdjustmentFails(r)
    BY <2>3, ControlReply DEF AdjustmentCommit, AdjustmentFails, At
  <2>. QED  BY <1>4, <2>1, <2>2, <2>3 DEF AdjustmentStep
<1>5. ASSUME NEW r \in Requests, NEW c \in Contracts, UpdateContract(r, c)
      PROVE  ControlTypeOK'
  <2>1. /\ Starts(r, "put", <<c>>)
        /\ \E answer \in {"ok", "error"} : Reply(r, answer)
    BY <1>5 DEF UpdateContract
  <2>2. op' \in [Requests -> AllOps \cup {"none"}]
        /\ list' \in [Requests -> Seq(Contracts)]
        /\ list' = [list EXCEPT ![r] = <<c>>]
    BY <2>1, OpsAssumption DEF Starts, ControlTypeOK
  <2>3. pc' \in [Requests -> PCs] /\ pc' = [pc EXCEPT ![r] = "done"]
        /\ reply' \in [Requests -> {"none", "ok", "error"}]
    BY <2>1 DEF Reply, ControlTypeOK
  <2>. QED  BY <2>2, <2>3 DEF ControlTypeOK
<1>6. CASE Crash
  BY <1>6 DEF Crash, ControlTypeOK
<1>7. CASE UNCHANGED vars
  BY <1>7 DEF vars, requestVars, ControlTypeOK
<1>. QED
  BY <1>1, <1>2, <1>3, <1>4, <1>5, <1>6, <1>7 DEF Next, RequestStep

LEMMA ColumnsSeen ==
  ASSUME ContractTypeOK, NEW c \in Contracts
  PROVE  ColumnsOf(c) \in Seen
BY DEF ContractTypeOK, ColumnsOf, Seen

LEMMA RequestTypeNext ==
  ASSUME RequestTypeOK, NEW r \in Requests,
         NEW status \in {"success", "partial_error", "error"},
         NextContract(r, status), UNCHANGED <<tx, poisoned>>
  PROVE  RequestTypeOK'
<1>. DEFINE outcome == [status |-> status,
                        movement |-> IF status = "error" THEN 0 ELSE move[r]]
<1>1. outcome \in Result
  BY DEF RequestTypeOK, Result
<1>2. results' = [results EXCEPT ![r] = Append(@, outcome)]
  BY DEF NextContract
<1>. HIDE DEF outcome
<1>3. results' \in [Requests -> Seq(Result)]
  BY <1>1, <1>2 DEF RequestTypeOK
<1>4. NotRead \in Seen
  BY DEF NotRead, Seen, Date
<1>. QED  BY <1>3, <1>4 DEF NextContract, Forget, RequestTypeOK

LEMMA RequestTypeStep ==
  TypeOK /\ [Next]_vars => RequestTypeOK'
<1>. SUFFICES ASSUME TypeOK, [Next]_vars PROVE RequestTypeOK'
  OBVIOUS
<1>0. ContractTypeOK /\ MovementTypeOK /\ ControlTypeOK /\ RequestTypeOK
  BY TypeParts
<1>1. ASSUME NEW r \in Requests, BillingStep(r)
      PROVE  RequestTypeOK'
  <2>1. CASE \E cs \in Lists : BeginBilling(r, cs)
    BY <1>0, <2>1 DEF BeginBilling, RequestTypeOK
  <2>2. CASE BillFind(r)
    <3>1. ColumnsOf(Now(r)) \in Seen
      BY <1>0, <2>2, NowInList, ColumnsSeen DEF BillFind, At, Ended
    <3>. QED  BY <1>0, <2>2, <3>1 DEF BillFind, RequestTypeOK
  <2>3. CASE BillMovement(r)
    BY <1>0, <2>3 DEF BillMovement, RequestTypeOK, MovementTypeOK
  <2>4. CASE BillItem(r)
    BY <1>0, <2>4 DEF BillItem, RequestTypeOK
  <2>5. CASE BillPayment(r)
    <3>1. PICK made \in {"full", "bare", "none"}, broken \in BOOLEAN :
            /\ tx' = [tx EXCEPT ![r] = IF made = "none" THEN @ ELSE
                 [m \in DOMAIN @ \cup {move[r]} |->
                    IF m = move[r] THEN made ELSE @[m]]]
            /\ payment' = [payment EXCEPT ![r] = made = "full"]
            /\ poisoned' = [poisoned EXCEPT ![r] = broken]
      BY <2>5 DEF BillPayment
    <3>2. tx' = [s \in Requests |-> tx'[s]]
          /\ \A s \in Requests : tx'[s] \in [DOMAIN tx'[s] -> {"full", "bare"}]
      BY <1>0, <3>1 DEF RequestTypeOK
    <3>3. payment' \in [Requests -> BOOLEAN]
          /\ poisoned' \in [Requests -> BOOLEAN]
      BY <1>0, <3>1 DEF RequestTypeOK
    <3>. QED  BY <1>0, <2>5, <3>2, <3>3 DEF BillPayment, RequestTypeOK
  <2>6. CASE BillLink(r)
    BY <1>0, <2>6 DEF BillLink, RequestTypeOK
  <2>7. CASE BillDates(r) \/ BillStageFails(r) \/ BillStageTimesOut(r)
    BY <1>0, <2>7, RequestTypeNext
    DEF BillDates, BillStageFails, BillStageTimesOut
  <2>8. CASE BillCommit(r) \/ BillCommitFails(r) \/ BillReply(r)
    <3>1. /\ UNCHANGED <<seen, move, payment, poisoned, results>>
          /\ (tx' = [tx EXCEPT ![r] = <<>>]) \/ UNCHANGED tx
      BY <2>8 DEF BillCommit, BillCommitFails, BillReply
    <3>2. tx = [s \in Requests |-> tx[s]]
          /\ \A s \in Requests : tx[s] \in [DOMAIN tx[s] -> {"full", "bare"}]
      BY <1>0 DEF RequestTypeOK
    <3>3. tx' = [s \in Requests |-> tx'[s]]
          /\ \A s \in Requests : tx'[s] \in [DOMAIN tx'[s] -> {"full", "bare"}]
      <4>1. CASE UNCHANGED tx
        BY <3>2, <4>1
      <4>2. CASE tx' = [tx EXCEPT ![r] = <<>>]
        <5>1. DOMAIN tx = Requests
          BY <3>2
        <5>2. tx'[r] = <<>> /\ \A s \in Requests \ {r} : tx'[s] = tx[s]
          BY <4>2, <5>1
        <5>3. <<>> \in [DOMAIN <<>> -> {"full", "bare"}]
          OBVIOUS
        <5>4. tx' = [s \in Requests |-> tx'[s]]
          BY <4>2, <5>1
        <5>. QED  BY <3>2, <5>2, <5>3, <5>4
      <4>. QED  BY <3>1, <4>1, <4>2
    <3>. QED  BY <1>0, <3>1, <3>3 DEF RequestTypeOK
  <2>. QED
    BY <1>1, <2>1, <2>2, <2>3, <2>4, <2>5, <2>6, <2>7, <2>8 DEF BillingStep
<1>2. ASSUME NEW r \in Requests, NEW c \in Contracts, BeginTermination(r, c)
      PROVE  RequestTypeOK'
  BY <1>0, <1>2, ColumnsSeen
  DEF BeginTermination, OutsideBilling, RequestTypeOK
<1>3. ASSUME NEW r \in Requests, AdjustmentRead(r)
      PROVE  RequestTypeOK'
  <2>1. ColumnsOf(Now(r)) \in Seen
    BY <1>0, <1>3, NowInList, ColumnsSeen DEF AdjustmentRead, At, Ended
  <2>. QED
    BY <1>0, <1>3, <2>1 DEF AdjustmentRead, OutsideBilling, RequestTypeOK
<1>4. ASSUME UNCHANGED <<seen, move, payment, tx, poisoned, results>>
      PROVE  RequestTypeOK'
  BY <1>0, <1>4 DEF RequestTypeOK
<1>5. ASSUME NEW r \in Requests, TerminationStep(r) \/ AdjustDateStep(r)
                                   \/ AdjustmentStep(r)
      PROVE  RequestTypeOK'
  BY <1>2, <1>3, <1>4, <1>5
  DEF TerminationStep, TerminationUpdate, TerminationHistory,
      TerminationReply, TerminationFails, AdjustDateStep, AdjustDate,
      AdjustDateHistory, AdjustDateFails, AdjustmentStep, BeginAdjustment, AdjustmentLock,
      AdjustmentCommit, AdjustmentFails, OutsideBilling
<1>6. ASSUME NEW r \in Requests, NEW c \in Contracts, UpdateContract(r, c)
      PROVE  RequestTypeOK'
  BY <1>4, <1>6 DEF UpdateContract, OutsideBilling
<1>7. CASE Crash
  BY <1>4, <1>7 DEF Crash
<1>8. CASE UNCHANGED vars
  BY <1>4, <1>8 DEF vars, requestVars
<1>. QED
  BY <1>1, <1>5, <1>6, <1>7, <1>8 DEF Next, RequestStep

----------------------------------------------------------------------------
(* What a step of one request leaves alone                                  *)

LEMMA OutsideFrame ==
  ASSUME TypeOK, NEW r \in Requests,
         \/ TerminationStep(r) \/ AdjustDateStep(r) \/ AdjustmentStep(r)
         \/ \E c \in Contracts : UpdateContract(r, c)
  PROVE  /\ OutsideBilling
         /\ pc[r] \notin BillingSteps /\ pc'[r] \notin BillingSteps
         /\ \A s \in Requests \ {r} :
              pc'[s] = pc[s] /\ list'[s] = list[s] /\ seen'[s] = seen[s]
<1>. USE DEF BillingSteps, Goto, Reply, At, Starts
<1>0. /\ pc \in [Requests -> PCs] /\ list \in [Requests -> Seq(Contracts)]
      /\ seen \in [Requests -> Seen]
  BY DEF TypeOK
<1>1. CASE TerminationStep(r)
  BY <1>0, <1>1
  DEF TerminationStep, BeginTermination, TerminationUpdate,
      TerminationHistory, TerminationReply, TerminationFails, Inactivate,
      RecordTermination
<1>2. CASE AdjustDateStep(r)
  BY <1>0, <1>2
  DEF AdjustDateStep, AdjustDate, AdjustDateHistory, AdjustDateFails
<1>3. CASE AdjustmentStep(r)
  BY <1>0, <1>3
  DEF AdjustmentStep, BeginAdjustment, AdjustmentLock, AdjustmentRead,
      AdjustmentCommit, AdjustmentFails
<1>4. CASE \E c \in Contracts : UpdateContract(r, c)
  BY <1>0, <1>4 DEF UpdateContract
<1>. QED  BY <1>1, <1>2, <1>3, <1>4

LEMMA BillingFrame ==
  ASSUME TypeOK, NEW r \in Requests, BillingStep(r)
  PROVE  /\ InsideBilling
         /\ pc[r] \in BillingSteps \cup {"idle"}
         /\ pc'[r] \in BillingSteps \cup {"done"}
         /\ \A s \in Requests \ {r} :
              /\ pc'[s] = pc[s] /\ list'[s] = list[s] /\ seen'[s] = seen[s]
              /\ move'[s] = move[s] /\ tx'[s] = tx[s]
              /\ results'[s] = results[s]
<1>. USE DEF BillingSteps, Goto, Reply, At, Starts
<1>0. /\ pc \in [Requests -> PCs] /\ list \in [Requests -> Seq(Contracts)]
      /\ seen \in [Requests -> Seen] /\ move \in [Requests -> Nat]
      /\ tx = [s \in Requests |-> tx[s]]
      /\ results \in [Requests -> Seq(Result)]
  BY DEF TypeOK
<1>1. CASE \E cs \in Lists : BeginBilling(r, cs)
  BY <1>0, <1>1 DEF BeginBilling
<1>2. CASE BillFind(r)
  BY <1>0, <1>2 DEF BillFind
<1>3. CASE BillMovement(r)
  BY <1>0, <1>3 DEF BillMovement
<1>4. CASE BillItem(r)
  BY <1>0, <1>4 DEF BillItem
<1>5. CASE BillPayment(r)
  BY <1>0, <1>5 DEF BillPayment
<1>6. CASE BillLink(r)
  BY <1>0, <1>6 DEF BillLink
<1>7. CASE BillDates(r)
  BY <1>0, <1>7 DEF BillDates, NextContract, Forget
<1>8. CASE BillStageFails(r) \/ BillStageTimesOut(r)
  BY <1>0, <1>8 DEF BillStageFails, BillStageTimesOut, NextContract, Forget
<1>9. CASE BillCommit(r) \/ BillCommitFails(r) \/ BillReply(r)
  BY <1>0, <1>9 DEF BillCommit, BillCommitFails, BillReply
<1>. QED
  BY <1>1, <1>2, <1>3, <1>4, <1>5, <1>6, <1>7, <1>8, <1>9 DEF BillingStep

----------------------------------------------------------------------------
(* The movements a request names are in the table                           *)

(* A step that keeps the table but for one movement of r, and takes r to    *)
(* where the movement it has, if it needs one, is its own.                  *)
LEMMA PlacedFrame ==
  ASSUME TypeOK, MovesPlaced, NEW r \in Requests, BillingStep(r),
         Kept(movements, movements'),
         \A m \in DOMAIN movements :
           movements[m].by # r => movements'[m].items = movements[m].items,
         pc'[r] \in MoveSteps =>
           /\ move'[r] \in DOMAIN movements'
           /\ movements'[move'[r]].by = r
           /\ pc'[r] = "bill.items" => movements'[move'[r]].items < ItemCount,
         DOMAIN tx'[r] \subseteq DOMAIN movements',
         \A k \in DOMAIN results'[r] :
           results'[r][k].movement \in DOMAIN movements' \cup {0}
  PROVE  MovesPlaced'
<1>1. ASSUME NEW s \in Requests \ {r}
      PROVE  /\ pc'[s] \in MoveSteps =>
                  /\ move'[s] \in DOMAIN movements'
                  /\ movements'[move'[s]].by = s
                  /\ pc'[s] = "bill.items" =>
                       movements'[move'[s]].items < ItemCount
             /\ DOMAIN tx'[s] \subseteq DOMAIN movements'
             /\ \A k \in DOMAIN results'[s] :
                  results'[s][k].movement \in DOMAIN movements' \cup {0}
  <2>1. /\ pc'[s] = pc[s] /\ move'[s] = move[s] /\ tx'[s] = tx[s]
        /\ results'[s] = results[s]
    BY BillingFrame
  <2>2. pc[s] \in MoveSteps =>
          /\ move[s] \in DOMAIN movements /\ movements[move[s]].by = s
          /\ pc[s] = "bill.items" => movements[move[s]].items < ItemCount
    BY DEF MovesPlaced
  <2>3. pc[s] \in MoveSteps =>
          /\ movements'[move[s]].by = s
          /\ movements'[move[s]].items = movements[move[s]].items
    BY <2>2 DEF Kept
  <2>4. DOMAIN tx[s] \subseteq DOMAIN movements
        /\ \A k \in DOMAIN results[s] :
             results[s][k].movement \in DOMAIN movements \cup {0}
    BY DEF MovesPlaced
  <2>. QED  BY <2>1, <2>2, <2>3, <2>4 DEF Kept
<1>. QED  BY <1>1 DEF MovesPlaced

(* What the three actions that write the table do to it.                    *)
LEMMA MovementInserted ==
  ASSUME TypeOK, NEW r \in Requests, pc[r] = "bill.movement", InsertMovement(r)
  PROVE  /\ movements' \in Seq(Movement) /\ Kept(movements, movements')
         /\ DOMAIN movements' = DOMAIN movements \cup {Len(movements) + 1}
         /\ Len(movements) + 1 \in Nat \ DOMAIN movements
         /\ \A m \in DOMAIN movements : movements'[m] = movements[m]
         /\ movements'[Len(movements) + 1] =
              [contract |-> Now(r), date |-> seen[r].date, items |-> 0,
               linked |-> FALSE, by |-> r]
<1>. DEFINE e == [contract |-> Now(r), date |-> seen[r].date, items |-> 0,
                  linked |-> FALSE, by |-> r]
<1>1. Now(r) \in Contracts
  BY TypeParts, NowInList DEF Ended
<1>2. e \in Movement
  BY <1>1, ItemAssumption DEF TypeOK, Seen, Movement
<1>3. movements' = Append(movements, e)
  BY DEF InsertMovement
<1>4. movements \in Seq(Movement)
  BY DEF TypeOK
<1>. HIDE DEF e
<1>5. /\ Append(movements, e) \in Seq(Movement)
      /\ DOMAIN Append(movements, e) = DOMAIN movements \cup {Len(movements) + 1}
      /\ Len(movements) + 1 \in Nat \ DOMAIN movements
      /\ \A m \in DOMAIN movements : Append(movements, e)[m] = movements[m]
      /\ Append(movements, e)[Len(movements) + 1] = e
  BY <1>2, <1>4, MovementAppended
<1>. QED  BY <1>3, <1>5 DEF Kept, e

LEMMA MovementCreated ==
  ASSUME TypeOK, NEW r \in Requests, BillMovement(r)
  PROVE  /\ movements' \in Seq(Movement) /\ Kept(movements, movements')
         /\ DOMAIN movements' = DOMAIN movements \cup {move'[r]}
         /\ \A m \in DOMAIN movements : movements'[m] = movements[m]
         /\ movements'[move'[r]] =
              [contract |-> Now(r), date |-> seen[r].date, items |-> 0,
               linked |-> FALSE, by |-> r]
<1>1. /\ pc[r] = "bill.movement" /\ InsertMovement(r)
      /\ move'[r] = Len(movements) + 1
  BY DEF BillMovement, At, TypeOK
<1>. QED  BY <1>1, MovementInserted

LEMMA ItemCreated ==
  ASSUME TypeOK, MovesPlaced, NEW r \in Requests, pc[r] = "bill.items",
         InsertItem(r)
  PROVE  /\ movements' \in Seq(Movement) /\ Kept(movements, movements')
         /\ DOMAIN movements' = DOMAIN movements
         /\ movements'[move[r]].items = movements[move[r]].items + 1
         /\ \A m \in DOMAIN movements \ {move[r]} : movements'[m] = movements[m]
<1>1. /\ move[r] \in DOMAIN movements
      /\ movements[move[r]].items < ItemCount
  BY DEF MovesPlaced, MoveSteps
<1>2. movements \in Seq(Movement) /\ movements[move[r]] \in Movement
  BY <1>1 DEF TypeOK
<1>3. movements[move[r]].items + 1 \in 0..ItemCount
  BY <1>1, <1>2, ItemAssumption DEF Movement
<1>4. movements' = [movements EXCEPT ![move[r]].items
                                       = movements[move[r]].items + 1]
  BY DEF InsertItem
<1>. DEFINE n == movements[move[r]].items + 1
<1>5. n \in 0..ItemCount /\ movements' = [movements EXCEPT ![move[r]].items = n]
  BY <1>3, <1>4
<1>. HIDE DEF n
<1>6. /\ movements' \in Seq(Movement)
      /\ Kept(movements, movements') /\ DOMAIN movements' = DOMAIN movements
      /\ movements'[move[r]].items = n
      /\ \A k \in DOMAIN movements \ {move[r]} : movements'[k] = movements[k]
  BY <1>1, <1>2, <1>5, ItemsUpdated
<1>. QED  BY <1>6 DEF n

LEMMA LinkCreated ==
  ASSUME TypeOK, MovesPlaced, NEW r \in Requests, pc[r] = "bill.link",
         InsertLink(r)
  PROVE  /\ movements' \in Seq(Movement) /\ Kept(movements, movements')
         /\ DOMAIN movements' = DOMAIN movements
         /\ \A m \in DOMAIN movements : movements'[m].items = movements[m].items
<1>1. move[r] \in DOMAIN movements
  BY DEF MovesPlaced, MoveSteps
<1>2. /\ movements \in Seq(Movement)
      /\ movements' = [movements EXCEPT ![move[r]].linked = TRUE]
  BY DEF InsertLink, TypeOK
<1>. QED  BY <1>1, <1>2, LinkUpdated

(* A stage that raises may have written the table all the same: a movement  *)
(* of its own, new or the one it was working on.                            *)
LEMMA TableTimesOut ==
  ASSUME TypeOK, MovesPlaced, NEW r \in Requests, BillStageTimesOut(r)
  PROVE  /\ movements' \in Seq(Movement) /\ Kept(movements, movements')
         /\ \A m \in DOMAIN movements :
              movements[m].by # r => movements'[m].items = movements[m].items
         /\ \A m \in DOMAIN movements' \ DOMAIN movements :
              /\ pc[r] = "bill.movement" /\ movements'[m].by = r
              /\ ~movements'[m].linked
<1>1. CASE pc[r] = "bill.movement" /\ InsertMovement(r)
  <2>1. /\ movements' \in Seq(Movement) /\ Kept(movements, movements')
        /\ \A m \in DOMAIN movements : movements'[m] = movements[m]
        /\ DOMAIN movements' = DOMAIN movements \cup {Len(movements) + 1}
    BY <1>1, MovementInserted
  <2>2. /\ movements'[Len(movements) + 1].by = r
        /\ ~movements'[Len(movements) + 1].linked
    <3>1. movements'[Len(movements) + 1] =
            [contract |-> Now(r), date |-> seen[r].date, items |-> 0,
             linked |-> FALSE, by |-> r]
      BY <1>1, MovementInserted
    <3>. QED  BY <3>1
  <2>. QED  BY <1>1, <2>1, <2>2
<1>2. CASE pc[r] = "bill.items" /\ InsertItem(r)
  <2>1. movements[move[r]].by = r
    BY <1>2 DEF MovesPlaced, MoveSteps
  <2>. QED  BY <1>2, <2>1, ItemCreated
<1>3. CASE pc[r] = "bill.link" /\ InsertLink(r)
  BY <1>3, LinkCreated
<1>4. CASE UNCHANGED movements
  BY <1>4 DEF Kept, TypeOK
<1>. QED  BY <1>1, <1>2, <1>3, <1>4 DEF BillStageTimesOut

LEMMA KeptSame == Kept(movements, movements)
BY DEF Kept

(* Who goes on to another contract, or to COMMIT, needs no movement.        *)
LEMMA PlacedNext ==
  ASSUME TypeOK, MovesPlaced, NEW r \in Requests, NEW status,
         NextContract(r, status), BillingStep(r), UNCHANGED tx,
         Kept(movements, movements'),
         \A m \in DOMAIN movements :
           movements[m].by # r => movements'[m].items = movements[m].items,
         status # "error" => pc[r] \in MoveSteps
  PROVE  MovesPlaced'
<1>. DEFINE named == IF status = "error" THEN 0 ELSE move[r]
            outcome == [status |-> status, movement |-> named]
<1>1. named \in DOMAIN movements \cup {0}
  BY DEF MovesPlaced
<1>2. results[r] \in Seq(Result)
      /\ results'[r] = Append(results[r], outcome)
  BY DEF NextContract, TypeOK
<1>3. outcome.movement = named
  OBVIOUS
<1>. HIDE DEF outcome, named
<1>4. ASSUME NEW k \in DOMAIN results'[r]
      PROVE  results'[r][k].movement \in DOMAIN movements' \cup {0}
  <2>1. CASE k \in DOMAIN results[r]
    <3>1. results'[r][k] = results[r][k]
      BY <1>2, <2>1
    <3>. QED  BY <2>1, <3>1 DEF MovesPlaced, Kept
  <2>2. CASE k \notin DOMAIN results[r]
    <3>1. results'[r][k] = outcome
      BY <1>2, <1>4, <2>2
    <3>. QED  BY <1>1, <1>3, <3>1 DEF Kept
  <2>. QED  BY <2>1, <2>2
<1>5. pc'[r] \notin MoveSteps
  BY DEF NextContract, Goto, TypeOK, MoveSteps
<1>6. DOMAIN tx'[r] \subseteq DOMAIN movements'
  BY DEF MovesPlaced, Kept
<1>. QED  BY <1>4, <1>5, <1>6, PlacedFrame

LEMMA PlacedStep == TypeOK /\ MovesPlaced /\ [Next]_vars => MovesPlaced'
<1>. SUFFICES ASSUME TypeOK, MovesPlaced, [Next]_vars PROVE MovesPlaced'
  OBVIOUS
<1>1. ASSUME NEW r \in Requests, BillingStep(r)
      PROVE  MovesPlaced'
  <2>0. /\ pc \in [Requests -> PCs] /\ move \in [Requests -> Nat]
        /\ DOMAIN tx[r] \subseteq DOMAIN movements
        /\ \A k \in DOMAIN results[r] :
             results[r][k].movement \in DOMAIN movements \cup {0}
    BY DEF TypeOK, MovesPlaced
  <2>1. CASE (\E cs \in Lists : BeginBilling(r, cs)) \/ BillFind(r)
    <3>1. pc'[r] \notin MoveSteps /\ UNCHANGED <<movements, tx, results>>
      BY <2>0, <2>1
      DEF BeginBilling, BillFind, billingVars, Goto, MoveSteps
    <3>. QED  BY <1>1, <2>0, <3>1, KeptSame, PlacedFrame
  <2>2. CASE BillMovement(r)
    <3>1. /\ Kept(movements, movements')
          /\ DOMAIN movements' = DOMAIN movements \cup {move'[r]}
          /\ \A m \in DOMAIN movements : movements'[m] = movements[m]
          /\ movements'[move'[r]] =
               [contract |-> Now(r), date |-> seen[r].date, items |-> 0,
                linked |-> FALSE, by |-> r]
      BY <2>2, MovementCreated
    <3>2. /\ pc'[r] = "bill.items" => 0 < ItemCount
          /\ UNCHANGED <<tx, results>>
      BY <2>0, <2>2, ItemAssumption DEF BillMovement, Goto
    <3>3. movements'[move'[r]].items = 0 /\ movements'[move'[r]].by = r
      BY <3>1
    <3>. QED  BY <1>1, <2>0, <3>1, <3>2, <3>3, PlacedFrame
  <2>3. CASE BillItem(r)
    <3>1. /\ Kept(movements, movements')
          /\ DOMAIN movements' = DOMAIN movements
          /\ movements'[move[r]].items = movements[move[r]].items + 1
          /\ \A m \in DOMAIN movements \ {move[r]} :
               movements'[m] = movements[m]
      BY <2>3, ItemCreated DEF BillItem, At
    <3>2. /\ move[r] \in DOMAIN movements /\ movements[move[r]].by = r
          /\ movements[move[r]].items < ItemCount
          /\ movements[move[r]].items \in 0..ItemCount
      <4>1. /\ move[r] \in DOMAIN movements /\ movements[move[r]].by = r
            /\ movements[move[r]].items < ItemCount
        BY <2>3 DEF BillItem, At, MovesPlaced, MoveSteps
      <4>2. movements[move[r]] \in Movement
        BY <4>1 DEF TypeOK
      <4>. QED  BY <4>1, <4>2 DEF Movement
    <3>3. /\ pc'[r] = "bill.items" =>
               movements[move[r]].items + 1 # ItemCount
          /\ UNCHANGED <<move, tx, results>>
      BY <2>0, <2>3 DEF BillItem, Goto
    <3>4. movements'[move[r]].by = r
      BY <3>1, <3>2 DEF Kept
    <3>5. pc'[r] = "bill.items" => movements'[move[r]].items < ItemCount
      BY <3>1, <3>2, <3>3, ItemAssumption
    <3>6. \A m \in DOMAIN movements :
            movements[m].by # r => movements'[m].items = movements[m].items
      BY <3>1, <3>2
    <3>. QED
      BY <1>1, <2>0, <3>1, <3>2, <3>3, <3>4, <3>5, <3>6, PlacedFrame
  <2>4. CASE BillPayment(r)
    <3>1. /\ pc'[r] = "bill.link" /\ UNCHANGED <<movements, move, results>>
          /\ DOMAIN tx'[r] \subseteq DOMAIN tx[r] \cup {move[r]}
      BY <2>0, <2>4 DEF BillPayment, billingVars, Goto, TypeOK
    <3>2. move[r] \in DOMAIN movements /\ movements[move[r]].by = r
      BY <2>4 DEF BillPayment, At, MovesPlaced, MoveSteps
    <3>. QED  BY <1>1, <2>0, <3>1, <3>2, KeptSame, PlacedFrame
  <2>5. CASE BillLink(r)
    <3>1. /\ Kept(movements, movements')
          /\ DOMAIN movements' = DOMAIN movements
          /\ \A m \in DOMAIN movements :
               movements'[m].items = movements[m].items
      BY <2>5, LinkCreated DEF BillLink, At
    <3>2. move[r] \in DOMAIN movements /\ movements[move[r]].by = r
      BY <2>5 DEF BillLink, At, MovesPlaced, MoveSteps
    <3>3. pc'[r] = "bill.dates" /\ UNCHANGED <<move, tx, results>>
      BY <2>0, <2>5 DEF BillLink, Goto
    <3>4. movements'[move[r]].by = r
      BY <3>1, <3>2 DEF Kept
    <3>. QED  BY <1>1, <2>0, <3>1, <3>2, <3>3, <3>4, PlacedFrame
  <2>6. CASE BillDates(r) \/ BillStageFails(r)
    <3>1. PICK status :
            /\ NextContract(r, status)
            /\ status # "error" => pc[r] \in MoveSteps
      BY <2>6 DEF BillDates, BillStageFails, MoveSteps
    <3>2. UNCHANGED <<movements, tx>>
      BY <2>6 DEF BillDates, BillStageFails, billingVars
    <3>. QED  BY <1>1, <3>1, <3>2, KeptSame, PlacedNext
  <2>7. CASE BillStageTimesOut(r)
    <3>1. NextContract(r, "error") /\ UNCHANGED tx
      BY <2>7 DEF BillStageTimesOut
    <3>. QED  BY <1>1, <2>7, <3>1, TableTimesOut, PlacedNext
  <2>8. CASE BillCommit(r) \/ BillCommitFails(r) \/ BillReply(r)
    <3>1. /\ pc'[r] \in {"bill.reply", "done"}
          /\ UNCHANGED <<movements, results>>
          /\ tx'[r] = <<>> \/ UNCHANGED tx
      BY <2>0, <2>8
      DEF BillCommit, BillCommitFails, BillReply, Goto, Reply, TypeOK
    <3>2. DOMAIN <<>> = {}
      OBVIOUS
    <3>3. DOMAIN tx'[r] \subseteq DOMAIN movements
      BY <2>0, <3>1, <3>2
    <3>. QED  BY <1>1, <2>0, <3>1, <3>3, KeptSame, PlacedFrame DEF MoveSteps
  <2>. QED
    BY <1>1, <2>1, <2>2, <2>3, <2>4, <2>5, <2>6, <2>7, <2>8 DEF BillingStep
<1>2. ASSUME NEW r \in Requests,
             \/ TerminationStep(r) \/ AdjustDateStep(r) \/ AdjustmentStep(r)
             \/ \E c \in Contracts : UpdateContract(r, c)
      PROVE  MovesPlaced'
  <2>1. /\ OutsideBilling /\ pc'[r] \notin BillingSteps
        /\ \A s \in Requests \ {r} : pc'[s] = pc[s]
    BY <1>2, OutsideFrame
  <2>. QED
    BY <2>1 DEF OutsideBilling, billingVars, MovesPlaced, MoveSteps,
                BillingSteps
<1>3. CASE Crash
  <2>1. \A s \in Requests : pc'[s] \notin MoveSteps
    BY <1>3 DEF Crash, Ended, MoveSteps
  <2>. QED  BY <1>3, <2>1 DEF Crash, billingVars, MovesPlaced
<1>4. CASE UNCHANGED vars
  BY <1>4 DEF vars, requestVars, billingVars, MovesPlaced
<1>. QED  BY <1>1, <1>2, <1>3, <1>4 DEF Next, RequestStep

LEMMA MovementTypeStep ==
  TypeOK /\ MovesPlaced /\ [Next]_vars => MovementTypeOK'
<1>. SUFFICES ASSUME TypeOK, MovesPlaced, [Next]_vars PROVE MovementTypeOK'
  OBVIOUS
<1>0. MovementTypeOK
  BY TypeParts
<1>1. ASSUME NEW r \in Requests, movements' \in Seq(Movement),
             Kept(movements, movements'), UNCHANGED <<payments, notified>>
      PROVE  MovementTypeOK'
  BY <1>0, <1>1 DEF MovementTypeOK, Kept
<1>2. ASSUME NEW r \in Requests, BillMovement(r)
      PROVE  MovementTypeOK'
  BY <1>1, <1>2, MovementCreated DEF BillMovement
<1>3. ASSUME NEW r \in Requests, BillItem(r)
      PROVE  MovementTypeOK'
  BY <1>1, <1>3, ItemCreated DEF BillItem, At
<1>4. ASSUME NEW r \in Requests, BillLink(r)
      PROVE  MovementTypeOK'
  BY <1>1, <1>4, LinkCreated DEF BillLink, At
<1>9. ASSUME NEW r \in Requests, BillStageTimesOut(r)
      PROVE  MovementTypeOK'
  BY <1>1, <1>9, TableTimesOut DEF BillStageTimesOut
<1>10. ASSUME NEW r \in Requests, CommitPayments(r),
              UNCHANGED <<movements, notified>>
       PROVE  MovementTypeOK'
  <2>1. /\ DOMAIN tx[r] \subseteq DOMAIN movements
        /\ tx[r] \in [DOMAIN tx[r] -> {"full", "bare"}]
    BY DEF MovesPlaced, TypeOK
  <2>2. /\ DOMAIN payments' \subseteq DOMAIN movements
        /\ payments' \in [DOMAIN payments' -> {"full", "bare"}]
    BY <1>0, <1>10, <2>1 DEF CommitPayments, MovementTypeOK
  <2>. QED  BY <1>0, <1>10, <2>2 DEF MovementTypeOK
<1>11. ASSUME NEW r \in Requests, BillReply(r)
       PROVE  MovementTypeOK'
  <2>1. \A k \in DOMAIN results[r] :
          results[r][k].movement \in DOMAIN movements \cup {0}
    BY DEF MovesPlaced
  <2>2. notified' \subseteq DOMAIN movements
    BY <1>0, <1>11, <2>1 DEF BillReply, MovementTypeOK
  <2>. QED  BY <1>0, <1>11, <2>2 DEF BillReply, MovementTypeOK
<1>5. ASSUME UNCHANGED billingVars
      PROVE  MovementTypeOK'
  BY <1>0, <1>5 DEF billingVars, MovementTypeOK
<1>6. ASSUME NEW r \in Requests, BillingStep(r)
      PROVE  MovementTypeOK'
  BY <1>2, <1>3, <1>4, <1>5, <1>6, <1>9, <1>10, <1>11
  DEF BillingStep, BeginBilling, BillFind, BillPayment, BillDates,
      BillStageFails, BillCommit, BillCommitFails, billingVars
<1>7. ASSUME NEW r \in Requests,
             \/ TerminationStep(r) \/ AdjustDateStep(r) \/ AdjustmentStep(r)
             \/ \E c \in Contracts : UpdateContract(r, c)
      PROVE  MovementTypeOK'
  BY <1>5, <1>7, OutsideFrame DEF OutsideBilling
<1>8. CASE Crash \/ UNCHANGED vars
  BY <1>5, <1>8 DEF Crash, vars
<1>. QED  BY <1>6, <1>7, <1>8 DEF Next, RequestStep

LEMMA TypeStep ==
  TypeOK /\ MovesPlaced /\ [Next]_vars => TypeOK' /\ MovesPlaced'
<1>. SUFFICES ASSUME TypeOK, MovesPlaced, [Next]_vars
              PROVE  TypeOK' /\ MovesPlaced'
  OBVIOUS
<1>1. ContractTypeOK /\ MovementTypeOK /\ ControlTypeOK /\ RequestTypeOK
  BY TypeParts
<1>2. ContractTypeOK' /\ MovementTypeOK' /\ ControlTypeOK' /\ RequestTypeOK'
  BY <1>1, ContractTypeStep, MovementTypeStep, ControlTypeStep,
     RequestTypeStep
<1>3. TypeOK'
  BY <1>2
  DEF TypeOK, ContractTypeOK, MovementTypeOK, ControlTypeOK, RequestTypeOK
<1>. QED  BY <1>3, PlacedStep

LEMMA ContractInvariant == Spec => [](TypeOK /\ MovesPlaced)
BY TypeInit, TypeStep, PTL DEF Spec

(* Every variable keeps its type; a billing creates no more items than the  *)
(* template has, and pays and names only movements there are.               *)
THEOREM ContractTypeCorrect == Spec => []TypeOK
BY ContractInvariant, PTL

----------------------------------------------------------------------------
(* Adjustments                                                              *)

(* An adjustment that has its lock is alone with the contract, so the value *)
(* it reads on another connection is still the contract's when it writes.   *)
LocksHeld ==
  \A r \in Requests :
    /\ pc[r] \in {"adj.read", "adj.write"} => lock[Now(r)] = {r}
    /\ pc[r] = "adj.write" /\ Now(r) \notin operated =>
         seen[r].value = value[Now(r)]

LEMMA AdjustmentFrame ==
  ASSUME TypeOK, NEW r \in Requests, AdjustmentStep(r)
  PROVE  /\ UNCHANGED operated
         /\ CommitAdjustment(r) \/ UNCHANGED <<value, adjustments>>
BY DEF AdjustmentStep, BeginAdjustment, AdjustmentLock, AdjustmentRead,
       AdjustmentFails, contractVars, historyVars, AdjustmentCommit

LEMMA LocksStep ==
  TypeOK /\ LocksHeld /\ AdjustmentsNotLost /\ [Next]_vars
    => LocksHeld' /\ AdjustmentsNotLost'
<1>. SUFFICES ASSUME TypeOK, LocksHeld, AdjustmentsNotLost, [Next]_vars
              PROVE  LocksHeld' /\ AdjustmentsNotLost'
  OBVIOUS
<1>. DEFINE Adjusting == {"adj.read", "adj.write"}
<1>0. /\ pc \in [Requests -> PCs] /\ list \in [Requests -> Seq(Contracts)]
      /\ seen \in [Requests -> Seen] /\ lock \in [Contracts -> SUBSET Requests]
      /\ value \in [Contracts -> Nat] /\ adjustments \in [Contracts -> Nat]
      /\ operated \subseteq Contracts
      /\ \A s \in Requests : pc[s] \in Adjusting \cup {"adj.lock"}
                              => Now(s) \in Contracts
  BY TypeParts, NowInList DEF TypeOK, Ended
(* A step of r that leaves the values alone but may spoil them for good.    *)
<1>1. ASSUME NEW r \in Requests, UNCHANGED <<lock, value, adjustments>>,
             operated \subseteq operated', pc'[r] \notin Adjusting,
             \A s \in Requests \ {r} :
               pc'[s] = pc[s] /\ list'[s] = list[s] /\ seen'[s] = seen[s]
      PROVE  LocksHeld' /\ AdjustmentsNotLost'
  <2>1. LocksHeld'
    BY <1>1 DEF LocksHeld, Now
  <2>. QED  BY <1>1, <2>1 DEF AdjustmentsNotLost
<1>2. ASSUME NEW r \in Requests, BillingStep(r)
      PROVE  LocksHeld' /\ AdjustmentsNotLost'
  BY <1>1, <1>2, BillingFrame DEF InsideBilling, historyVars, BillingSteps
<1>3. ASSUME NEW r \in Requests, TerminationStep(r) \/ AdjustDateStep(r)
      PROVE  LocksHeld' /\ AdjustmentsNotLost'
  <2>1. \A s \in Requests \ {r} :
          pc'[s] = pc[s] /\ list'[s] = list[s] /\ seen'[s] = seen[s]
    BY <1>3, OutsideFrame
  <2>2. /\ UNCHANGED <<lock, value, adjustments>>
        /\ operated \subseteq operated'
        /\ pc'[r] \notin Adjusting
    BY <1>0, <1>3
    DEF TerminationStep, BeginTermination, TerminationUpdate,
        TerminationHistory, TerminationReply, TerminationFails,
        AdjustDateStep, AdjustDate, AdjustDateHistory, AdjustDateFails,
        SetDate, contractVars, historyVars, Goto, Reply
  <2>. QED  BY <1>1, <2>1, <2>2
<1>4. ASSUME NEW r \in Requests, AdjustmentStep(r)
      PROVE  LocksHeld' /\ AdjustmentsNotLost'
  <2>1. /\ \A s \in Requests \ {r} :
             pc'[s] = pc[s] /\ list'[s] = list[s] /\ seen'[s] = seen[s]
        /\ UNCHANGED operated
        /\ CommitAdjustment(r) \/ UNCHANGED <<value, adjustments>>
    BY <1>4, OutsideFrame, AdjustmentFrame
  <2>2. CASE \E c \in Contracts : BeginAdjustment(r, c)
    BY <1>0, <1>1, <2>1, <2>2
    DEF BeginAdjustment, contractVars, historyVars, Goto
  <2>3. CASE AdjustmentLock(r)
    <3>1. /\ lock[Now(r)] = {} /\ Now(r) \in Contracts /\ Now(r)' = Now(r)
          /\ lock' = [lock EXCEPT ![Now(r)] = {r}] /\ pc'[r] = "adj.read"
          /\ UNCHANGED <<value, adjustments>>
      BY <1>0, <2>3 DEF AdjustmentLock, Unlocked, At, Goto, Now, contractVars,
                        historyVars
    <3>2. ASSUME NEW s \in Requests \ {r}, pc[s] \in Adjusting
          PROVE  Now(s) \in Contracts /\ lock'[Now(s)] = {s}
      <4>1. Now(s) \in Contracts /\ lock[Now(s)] = {s}
        BY <1>0, <3>2 DEF LocksHeld
      <4>. QED  BY <1>0, <3>1, <4>1
    <3>3. LocksHeld'
      <4>1. lock'[Now(r)] = {r}
        BY <1>0, <3>1
      <4>. QED  BY <2>1, <3>1, <3>2, <4>1 DEF LocksHeld, Now
    <3>. QED  BY <2>1, <3>1, <3>3 DEF AdjustmentsNotLost
  <2>4. CASE AdjustmentRead(r)
    <3>1. /\ pc[r] = "adj.read" /\ pc'[r] = "adj.write" /\ Now(r)' = Now(r)
          /\ seen'[r].value = value[Now(r)]
          /\ UNCHANGED <<lock, value, adjustments>>
      BY <1>0, <2>4
      DEF AdjustmentRead, ColumnsOf, At, Goto, Now, contractVars, historyVars
    <3>2. LocksHeld'
      BY <2>1, <3>1 DEF LocksHeld, Now
    <3>. QED  BY <2>1, <3>1, <3>2 DEF AdjustmentsNotLost
  <2>5. CASE CommitAdjustment(r)
    <3>1. /\ pc[r] = "adj.write" /\ pc'[r] = "done" /\ Now(r) \in Contracts
          /\ value' = [value EXCEPT ![Now(r)] = seen[r].value + 1]
          /\ adjustments' = [adjustments EXCEPT ![Now(r)] = @ + 1]
          /\ lock' = [lock EXCEPT ![Now(r)] = @ \ {r}]
      <4>1. pc[r] = "adj.write" /\ Now(r) \in Contracts
        BY <1>0, <2>5 DEF CommitAdjustment
      <4>2. AdjustmentCommit(r) \/ AdjustmentFails(r)
        BY <1>4, <4>1
        DEF AdjustmentStep, BeginAdjustment, AdjustmentLock, AdjustmentRead,
            Starts, At
      <4>. QED
        BY <1>0, <2>5, <4>1, <4>2
        DEF CommitAdjustment, AdjustmentCommit, AdjustmentFails, Reply
    <3>2. /\ lock[Now(r)] = {r}
          /\ Now(r) \notin operated => seen[r].value = adjustments[Now(r)]
      BY <3>1 DEF LocksHeld, AdjustmentsNotLost
    <3>3. LocksHeld'
      <4>1. ASSUME NEW s \in Requests \ {r}, pc[s] \in Adjusting
            PROVE  Now(s) # Now(r) /\ Now(s) \in Contracts
        BY <1>0, <3>2, <4>1 DEF LocksHeld
      <4>. QED  BY <1>0, <2>1, <3>1, <4>1, SMTT(30) DEF LocksHeld, Now
    <3>4. AdjustmentsNotLost'
      BY <1>0, <2>1, <3>1, <3>2 DEF AdjustmentsNotLost
    <3>. QED  BY <3>3, <3>4
  <2>6. CASE AdjustmentFails(r) /\ ~CommitAdjustment(r)
    <3>1. /\ pc'[r] = "done" /\ Now(r) \in Contracts
          /\ lock' = [lock EXCEPT ![Now(r)] = @ \ {r}]
          /\ UNCHANGED <<value, adjustments>>
      BY <1>0, <2>6 DEF AdjustmentFails, Reply
    <3>2. ASSUME NEW s \in Requests \ {r}, pc[s] \in Adjusting
          PROVE  Now(s) \in Contracts /\ lock'[Now(s)] = {s}
      <4>1. Now(s) \in Contracts /\ lock[Now(s)] = {s}
        BY <1>0, <3>2 DEF LocksHeld
      <4>. QED  BY <1>0, <3>1, <4>1
    <3>3. LocksHeld'
      BY <2>1, <3>1, <3>2 DEF LocksHeld, Now
    <3>. QED  BY <2>1, <3>1, <3>3 DEF AdjustmentsNotLost
  <2>. QED
    BY <1>4, <2>2, <2>3, <2>4, <2>5, <2>6 DEF AdjustmentStep, AdjustmentCommit
<1>5. ASSUME NEW r \in Requests, NEW c \in Contracts, UpdateContract(r, c)
      PROVE  LocksHeld' /\ AdjustmentsNotLost'
  <2>1. /\ \A s \in Requests \ {r} :
             pc'[s] = pc[s] /\ list'[s] = list[s] /\ seen'[s] = seen[s]
        /\ pc'[r] = "done" /\ UNCHANGED <<lock, adjustments>>
    BY <1>0, <1>5, OutsideFrame DEF UpdateContract, Reply, historyVars
  <2>2. \/ UNCHANGED <<value, operated>>
        \/ /\ lock[c] = {} /\ operated' = operated \cup {c}
           /\ \A d \in Contracts \ {c} : value'[d] = value[d]
    BY <1>0, <1>5 DEF UpdateContract, Unlocked, contractVars
  <2>3. LocksHeld'
    <3>1. ASSUME NEW s \in Requests \ {r}, pc[s] \in Adjusting
          PROVE  /\ lock'[Now(s)] = {s}
                 /\ pc[s] = "adj.write" /\ Now(s) \notin operated' =>
                      seen[s].value = value'[Now(s)]
      <4>1. /\ Now(s) \in Contracts /\ lock[Now(s)] = {s}
            /\ pc[s] = "adj.write" /\ Now(s) \notin operated =>
                 seen[s].value = value[Now(s)]
        BY <1>0, <3>1 DEF LocksHeld
      <4>. QED  BY <2>1, <2>2, <4>1
    <3>. QED  BY <2>1, <3>1 DEF LocksHeld, Now
  <2>4. AdjustmentsNotLost'
    BY <2>1, <2>2 DEF AdjustmentsNotLost
  <2>. QED  BY <2>3, <2>4
<1>6. CASE Crash
  <2>1. \A s \in Requests : pc'[s] \notin Adjusting
    BY <1>6 DEF Crash, Ended
  <2>. QED
    BY <1>6, <2>1
    DEF Crash, contractVars, historyVars, LocksHeld, AdjustmentsNotLost
<1>7. CASE UNCHANGED vars
  BY <1>7 DEF vars, requestVars, contractVars, historyVars, LocksHeld, Now,
              AdjustmentsNotLost
<1>. QED
  BY <1>2, <1>3, <1>4, <1>5, <1>6, <1>7 DEF Next, RequestStep

(* No value adjustment is lost and none is without its history, though the  *)
(* value is read on another connection than the one that locks the row.     *)
THEOREM AdjustmentsStay == Spec => []AdjustmentsNotLost
<1>1. Init => LocksHeld /\ AdjustmentsNotLost
  BY DEF Init, LocksHeld, AdjustmentsNotLost
<1>. QED  BY <1>1, LocksStep, ContractInvariant, PTL DEF Spec

----------------------------------------------------------------------------
(* Months                                                                   *)

Billed(c, k) ==
  \E m \in DOMAIN movements :
    movements[m].contract = c /\ movements[m].date.month = k

(* d is a date the contract may have come to: every month before is billed. *)
Reached(c, d) ==
  /\ d.day = FirstDate[c].day
  /\ \A k \in FirstDate[c].month..(d.month - 1) : Billed(c, k)

Regular(c) == c \notin operated /\ FirstDate[c].day <= 28

SeenSteps == MoveSteps \cup {"bill.movement"}

(* Both the date in the row and the dates requests have read, however old,  *)
(* have every month before them billed; and a request that is past the      *)
(* creation of its movement has billed the month it has read as well.       *)
DatesReached ==
  /\ \A c \in Contracts : Regular(c) => Reached(c, nextDate[c])
  /\ \A r \in Requests :
       /\ pc[r] \in SeenSteps /\ Regular(Now(r)) =>
            Reached(Now(r), seen[r].date)
       /\ pc[r] \in MoveSteps =>
            /\ movements[move[r]].contract = Now(r)
            /\ movements[move[r]].date = seen[r].date

LEMMA ReachedKept ==
  ASSUME Kept(movements, movements'), NEW c, NEW d, Reached(c, d)
  PROVE  Reached(c, d)'
BY DEF Kept, Reached, Billed

LEMMA StepKeeps ==
  ASSUME TypeOK, MovesPlaced, NEW r \in Requests, BillingStep(r)
  PROVE  Kept(movements, movements')
<1>1. CASE BillMovement(r)
  BY <1>1, MovementCreated
<1>2. CASE BillItem(r)
  BY <1>2, ItemCreated DEF BillItem, At
<1>3. CASE BillLink(r)
  BY <1>3, LinkCreated DEF BillLink, At
<1>4. ASSUME UNCHANGED movements PROVE Kept(movements, movements')
  BY <1>4 DEF Kept
<1>5. CASE BillStageTimesOut(r)
  BY <1>5, TableTimesOut
<1>. QED
  BY <1>1, <1>2, <1>3, <1>4, <1>5
  DEF BillingStep, BeginBilling, BillFind, BillPayment, BillDates,
      BillStageFails, BillCommit, BillCommitFails, BillReply, billingVars

(* The other requests, when r takes a step of a billing.                    *)
LEMMA OthersReached ==
  ASSUME TypeOK, MovesPlaced, DatesReached, NEW r \in Requests, BillingStep(r),
         NEW s \in Requests \ {r}
  PROVE  /\ pc'[s] \in SeenSteps /\ Regular(Now(s))' =>
              Reached(Now(s), seen[s].date)'
         /\ pc'[s] \in MoveSteps =>
              /\ movements'[move'[s]].contract = Now(s)'
              /\ movements'[move'[s]].date = seen'[s].date
<1>1. /\ pc'[s] = pc[s] /\ list'[s] = list[s] /\ seen'[s] = seen[s]
      /\ move'[s] = move[s] /\ operated' = operated
  BY BillingFrame DEF InsideBilling
<1>2. Kept(movements, movements') /\ Now(s)' = Now(s)
  BY <1>1, StepKeeps DEF Now
<1>3. ASSUME pc[s] \in SeenSteps, Regular(Now(s))
      PROVE  Reached(Now(s), seen[s].date)'
  <2>1. Reached(Now(s), seen[s].date)
    BY <1>3 DEF DatesReached
  <2>2. (FirstDate[Now(s)])' = FirstDate[Now(s)] /\ seen'[s].date = seen[s].date
    BY <1>1, <1>2
  <2>. QED  BY <1>2, <2>1, <2>2 DEF Kept, Reached, Billed
<1>4. ASSUME pc[s] \in MoveSteps
      PROVE  /\ movements'[move[s]].contract = Now(s)
             /\ movements'[move[s]].date = seen[s].date
  BY <1>2, <1>4 DEF MovesPlaced, DatesReached, Kept
<1>. QED  BY <1>1, <1>2, <1>3, <1>4 DEF Regular

(* A request that is not a billing sets the date of no contract, or takes   *)
(* note of it.                                                              *)
LEMMA DatesOfOthers ==
  ASSUME TypeOK, NEW r \in Requests,
         \/ TerminationStep(r) \/ AdjustDateStep(r) \/ AdjustmentStep(r)
         \/ \E c \in Contracts : UpdateContract(r, c)
  PROVE  /\ operated \subseteq operated'
         /\ \A c \in Contracts : c \notin operated' => nextDate'[c] = nextDate[c]
<1>0. nextDate \in [Contracts -> Date]
  BY DEF TypeOK
<1>1. ASSUME UNCHANGED <<nextDate, operated>>
      PROVE  /\ operated \subseteq operated'
             /\ \A c \in Contracts : nextDate'[c] = nextDate[c]
  BY <1>1
<1>2. ASSUME NEW c \in Contracts, NEW d \in Dates, AdjustDate(r, c, d)
      PROVE  /\ operated \subseteq operated'
             /\ \A b \in Contracts : b \notin operated' =>
                  nextDate'[b] = nextDate[b]
  BY <1>0, <1>2 DEF AdjustDate, SetDate
<1>3. ASSUME NEW c \in Contracts, UpdateContract(r, c)
      PROVE  /\ operated \subseteq operated'
             /\ \A b \in Contracts : b \notin operated' =>
                  nextDate'[b] = nextDate[b]
  BY <1>0, <1>3 DEF UpdateContract, contractVars
<1>4. CASE TerminationStep(r) \/ AdjustmentStep(r) \/ AdjustDateHistory(r)
  BY <1>1, <1>4
  DEF TerminationStep, BeginTermination, TerminationUpdate,
      TerminationHistory, TerminationReply, TerminationFails,
      AdjustDateHistory, AdjustmentStep, BeginAdjustment, AdjustmentLock,
      AdjustmentRead, AdjustmentCommit, AdjustmentFails, contractVars
<1>5. CASE AdjustDateFails(r)
  BY <1>0, <1>5 DEF AdjustDateFails, SetDate
<1>. QED  BY <1>2, <1>3, <1>4, <1>5 DEF AdjustDateStep

LEMMA DatesStep ==
  TypeOK /\ MovesPlaced /\ DatesReached /\ [Next]_vars => DatesReached'
<1>. SUFFICES ASSUME TypeOK, MovesPlaced, DatesReached, [Next]_vars
              PROVE  DatesReached'
  OBVIOUS
<1>0. /\ pc \in [Requests -> PCs] /\ seen \in [Requests -> Seen]
      /\ move \in [Requests -> Nat] /\ nextDate \in [Contracts -> Date]
  BY DEF TypeOK
<1>1. ASSUME NEW r \in Requests, BillingStep(r)
      PROVE  DatesReached'
  <2>1. Kept(movements, movements') /\ operated' = operated
    BY <1>1, StepKeeps, BillingFrame DEF InsideBilling
  <2>2. ASSUME NEW c \in Contracts, Regular(c)', nextDate'[c] = nextDate[c]
        PROVE  Reached(c, nextDate[c])'
    <3>1. Reached(c, nextDate[c])
      BY <2>1, <2>2 DEF DatesReached, Regular
    <3>. QED  BY <2>1, <2>2, <3>1 DEF Kept, Reached, Billed
  <2>3. ASSUME UNCHANGED nextDate,
               pc'[r] \in SeenSteps /\ Regular(Now(r))' =>
                 Reached(Now(r), seen[r].date)',
               pc'[r] \in MoveSteps =>
                 /\ movements'[move'[r]].contract = Now(r)'
                 /\ movements'[move'[r]].date = seen'[r].date
        PROVE  DatesReached'
    BY <1>1, <2>2, <2>3, OthersReached DEF DatesReached
  <2>4. CASE \/ \E cs \in Lists : BeginBilling(r, cs)
             \/ BillStageFails(r) \/ BillCommit(r) \/ BillCommitFails(r)
             \/ BillReply(r) \/ (BillStageTimesOut(r) /\ UNCHANGED nextDate)
    <3>1. pc'[r] \notin SeenSteps /\ UNCHANGED nextDate
      BY <1>0, <2>4
      DEF BeginBilling, BillStageFails, BillStageTimesOut, NextContract,
          BillCommit, BillCommitFails, BillReply, Goto, Reply, SeenSteps,
          MoveSteps
    <3>. QED  BY <2>3, <3>1 DEF SeenSteps
  <2>5. CASE BillFind(r)
    <3>1. /\ pc'[r] = "bill.movement" /\ Now(r)' = Now(r)
          /\ UNCHANGED <<nextDate, movements>>
          /\ seen'[r].date = nextDate[Now(r)] /\ Now(r) \in Contracts
      BY <1>0, <2>5, TypeParts, NowInList
      DEF BillFind, ColumnsOf, Goto, At, Now, Ended, billingVars
    <3>2. Regular(Now(r))' => Reached(Now(r), seen[r].date)'
      <4>1. Regular(Now(r)) => Reached(Now(r), nextDate[Now(r)])
        BY <3>1 DEF DatesReached
      <4>. QED  BY <2>1, <3>1, <4>1 DEF Regular, Reached, Billed
    <3>. QED  BY <2>3, <3>1, <3>2 DEF MoveSteps
  <2>6. CASE BillMovement(r)
    <3>1. /\ pc[r] = "bill.movement" /\ Now(r)' = Now(r)
          /\ UNCHANGED <<nextDate, seen>>
      BY <2>6 DEF BillMovement, At, Now
    <3>2. /\ movements'[move'[r]].contract = Now(r)
          /\ movements'[move'[r]].date = seen[r].date
      <4>1. movements'[move'[r]] =
              [contract |-> Now(r), date |-> seen[r].date, items |-> 0,
               linked |-> FALSE, by |-> r]
        BY <2>6, MovementCreated
      <4>. QED  BY <4>1
    <3>3. Regular(Now(r)) => Reached(Now(r), seen[r].date)
      BY <3>1 DEF DatesReached, SeenSteps
    <3>4. Regular(Now(r))' => Reached(Now(r), seen[r].date)'
      BY <2>1, <3>1, <3>3 DEF Regular, Kept, Reached, Billed
    <3>. QED  BY <2>3, <3>1, <3>2, <3>4
  <2>7. CASE BillItem(r) \/ BillPayment(r) \/ BillLink(r)
    <3>1. /\ pc[r] \in MoveSteps /\ Now(r)' = Now(r)
          /\ UNCHANGED <<nextDate, seen, move>>
      BY <2>7 DEF BillItem, BillPayment, BillLink, At, Now, MoveSteps
    <3>2. /\ movements'[move'[r]].contract = Now(r)
          /\ movements'[move'[r]].date = seen[r].date
      BY <2>1, <3>1 DEF MovesPlaced, DatesReached, Kept
    <3>3. Regular(Now(r)) => Reached(Now(r), seen[r].date)
      BY <3>1 DEF DatesReached, SeenSteps
    <3>4. Regular(Now(r))' => Reached(Now(r), seen[r].date)'
      BY <2>1, <3>1, <3>3 DEF Regular, Kept, Reached, Billed
    <3>. QED  BY <2>3, <3>1, <3>2, <3>4
  <2>8. CASE \/ BillDates(r)
             \/ BillStageTimesOut(r) /\ pc[r] = "bill.dates" /\ MoveDate(r)
                  /\ UNCHANGED movements
    <3>. DEFINE d == seen[r].date
    <3>1. /\ pc[r] = "bill.dates" /\ UNCHANGED movements
          /\ nextDate' = [nextDate EXCEPT ![Now(r)] = MonthAfter(d)]
          /\ Now(r) \in Contracts /\ d \in Date
      BY <1>0, <2>8, TypeParts, NowInList
      DEF BillDates, MoveDate, billingVars, Ended, Seen
    <3>2. pc'[r] \notin SeenSteps
      BY <1>0, <2>8
      DEF BillDates, BillStageTimesOut, NextContract, Goto, SeenSteps, MoveSteps
    <3>3. /\ move[r] \in DOMAIN movements
          /\ movements[move[r]].contract = Now(r)
          /\ movements[move[r]].date = d
          /\ Regular(Now(r)) => Reached(Now(r), d)
      BY <3>1 DEF MovesPlaced, DatesReached, MoveSteps, SeenSteps
    <3>4. ASSUME Regular(Now(r))
          PROVE  Reached(Now(r), MonthAfter(d))
      <4>1. d.day = FirstDate[Now(r)].day /\ d.day <= 28
        BY <3>3, <3>4 DEF Reached, Regular
      <4>2. MonthAfter(d).month = d.month + 1 /\ MonthAfter(d).day = d.day
        BY <3>1, <4>1, MonthAfterRegular
      <4>3. Billed(Now(r), d.month)
        BY <3>3 DEF Billed
      <4>4. d.month \in Nat /\ FirstDate[Now(r)].month \in Nat
        BY <3>1, FirstDateAssumption DEF Date
      <4>5. ASSUME NEW k \in FirstDate[Now(r)].month .. d.month
            PROVE  Billed(Now(r), k)
        <5>1. CASE k = d.month
          BY <4>3, <5>1
        <5>2. CASE k # d.month
          <6>1. k \in FirstDate[Now(r)].month .. (d.month - 1)
            BY <4>4, <5>2
          <6>. QED  BY <3>3, <3>4, <6>1 DEF Reached
        <5>. QED  BY <5>1, <5>2
      <4>6. MonthAfter(d).month - 1 = d.month
        BY <4>2, <4>4
      <4>. QED  BY <4>1, <4>2, <4>5, <4>6 DEF Reached
    <3>5. ASSUME NEW c \in Contracts, Regular(c)'
          PROVE  Reached(c, nextDate[c])'
      <4>1. CASE c = Now(r)
        <5>1. Reached(c, MonthAfter(d))
          BY <2>1, <3>4, <3>5, <4>1 DEF Regular
        <5>2. nextDate'[c] = MonthAfter(d)
          BY <1>0, <3>1, <4>1
        <5>. HIDE DEF d
        <5>. QED  BY <3>1, <5>1, <5>2 DEF Reached, Billed
      <4>2. CASE c # Now(r)
        BY <1>0, <2>2, <3>1, <3>5, <4>2
      <4>. QED  BY <4>1, <4>2
    <3>. QED
      BY <1>1, <3>2, <3>5, OthersReached DEF DatesReached, SeenSteps
  <2>. QED
    BY <1>1, <2>4, <2>5, <2>6, <2>7, <2>8 DEF BillingStep, BillStageTimesOut
<1>2. ASSUME UNCHANGED movements, operated \subseteq operated',
             \A c \in Contracts : c \notin operated' => nextDate'[c] = nextDate[c],
             \A s \in Requests : pc'[s] \in SeenSteps =>
               /\ pc'[s] = pc[s] /\ list'[s] = list[s] /\ seen'[s] = seen[s]
               /\ move'[s] = move[s]
      PROVE  DatesReached'
  <2>1. ASSUME NEW c \in Contracts, Regular(c)'
        PROVE  Reached(c, nextDate[c])'
    <3>1. Reached(c, nextDate[c]) /\ nextDate'[c] = nextDate[c]
      BY <1>2, <2>1 DEF DatesReached, Regular
    <3>. QED  BY <1>2, <3>1 DEF Reached, Billed
  <2>2. ASSUME NEW s \in Requests, pc'[s] \in SeenSteps
        PROVE  /\ Regular(Now(s))' => Reached(Now(s), seen[s].date)'
               /\ pc'[s] \in MoveSteps =>
                    /\ movements'[move'[s]].contract = Now(s)'
                    /\ movements'[move'[s]].date = seen'[s].date
    <3>1. /\ pc'[s] = pc[s] /\ Now(s)' = Now(s) /\ seen'[s] = seen[s]
          /\ move'[s] = move[s]
      BY <1>2, <2>2 DEF Now
    <3>2. Regular(Now(s))' => Reached(Now(s), seen[s].date)
      BY <1>2, <2>2, <3>1 DEF DatesReached, Regular
    <3>3. Regular(Now(s))' => Reached(Now(s), seen[s].date)'
      BY <1>2, <3>1, <3>2 DEF Reached, Billed
    <3>. QED  BY <1>2, <2>2, <3>1, <3>3 DEF DatesReached
  <2>. QED  BY <2>1, <2>2 DEF DatesReached, SeenSteps
<1>3. ASSUME NEW r \in Requests,
             \/ TerminationStep(r) \/ AdjustDateStep(r) \/ AdjustmentStep(r)
             \/ \E c \in Contracts : UpdateContract(r, c)
      PROVE  DatesReached'
  <2>1. /\ UNCHANGED <<movements, move>> /\ pc'[r] \notin BillingSteps
        /\ \A s \in Requests \ {r} :
             pc'[s] = pc[s] /\ list'[s] = list[s] /\ seen'[s] = seen[s]
    BY <1>3, OutsideFrame DEF OutsideBilling, billingVars
  <2>2. /\ operated \subseteq operated'
        /\ \A c \in Contracts : c \notin operated' => nextDate'[c] = nextDate[c]
    BY <1>3, DatesOfOthers
  <2>3. SeenSteps \subseteq BillingSteps
    BY DEF SeenSteps, MoveSteps, BillingSteps
  <2>. QED  BY <1>2, <2>1, <2>2, <2>3
<1>4. CASE Crash
  <2>1. \A s \in Requests : pc'[s] \notin SeenSteps
    BY <1>4 DEF Crash, Ended, SeenSteps, MoveSteps
  <2>. QED  BY <1>2, <1>4, <2>1 DEF Crash, contractVars, billingVars
<1>5. CASE UNCHANGED vars
  BY <1>2, <1>5 DEF vars, contractVars, billingVars, requestVars
<1>. QED  BY <1>1, <1>3, <1>4, <1>5 DEF Next, RequestStep

LEMMA DatesInit == Init => DatesReached
<1>. SUFFICES ASSUME Init PROVE DatesReached
  OBVIOUS
<1>1. \A c \in Contracts : Reached(c, nextDate[c])
  <2>1. ASSUME NEW c \in Contracts
        PROVE  FirstDate[c].month .. (FirstDate[c].month - 1) = {}
    BY FirstDateAssumption DEF Date
  <2>. QED  BY <2>1 DEF Init, Reached
<1>. QED  BY <1>1 DEF Init, DatesReached, SeenSteps, MoveSteps

(* Billing skips no month of a contract first billed by the 28th whose date *)
(* no operator has set, however many requests bill it, from dates however   *)
(* stale, and wherever they fail.                                           *)
THEOREM BillingSkipsNoMonth == Spec => []NoMonthSkipped
<1>1. Init => DatesReached
  BY DatesInit
<1>2. DatesReached => NoMonthSkipped
  BY DEF DatesReached, Regular, Reached, Billed, NoMonthSkipped, MonthsBilled
<1>. QED  BY <1>1, <1>2, DatesStep, ContractInvariant, PTL DEF Spec

-----------------------------------------------------------------------------
(* When a month is billed twice.                                            *)

(* Between the read of a contract's date and the write of the next one a    *)
(* billing is at work on the contract.                                      *)
OneAtATime ==
  \A r, q \in Requests :
    pc[r] \in SeenSteps /\ pc[q] \in SeenSteps /\ Now(r) = Now(q) => r = q

(* A billing whose movement is linked writes the next date: neither of the  *)
(* two writes raises once the link is there, nor does the process end       *)
(* between them.                                                            *)
DatesFollow ==
  \A r \in Requests :
    /\ pc[r] = "bill.link" /\ movements'[move[r]].linked =>
         pc'[r] = "bill.dates"
    /\ pc[r] = "bill.dates" /\ pc'[r] # pc[r] =>
         nextDate'[Now(r)] = MonthAfter(seen[r].date)

Linked(c) == {m \in DOMAIN movements : movements[m].contract = c /\ movements[m].linked}

(* The month of a movement is past, or its billing is about to make it so.  *)
Passed(c, m) ==
  \/ movements[m].date.month < nextDate[c].month
  \/ \E r \in Requests : pc[r] = "bill.dates" /\ Now(r) = c /\ move[r] = m

Apart(c) ==
  /\ \A r \in Requests : pc[r] \in SeenSteps /\ Now(r) = c => seen[r].date = nextDate[c]
  /\ \A m \in Linked(c) : Passed(c, m)
  /\ \A m, n \in Linked(c) : movements[m].date.month = movements[n].date.month => m = n

MonthsApart == \A c \in Contracts \ operated : Apart(c)

LEMMA MonthAfterLater ==
  ASSUME NEW d \in Date
  PROVE  d.month \in Nat /\ MonthAfter(d).month \in Nat /\ d.month < MonthAfter(d).month
<1>1. DaysIn(d.month + 1) \in 28..31 /\ d.month \in Nat /\ d.day \in 1..31
  BY DaysInRange DEF Date
<1>. QED  BY <1>1 DEF MonthAfter, DateOf

LEMMA LinkedMonths ==
  ASSUME TypeOK, NEW c \in Contracts
  PROVE  /\ nextDate[c] \in Date /\ nextDate[c].month \in Nat
         /\ \A m \in Linked(c) : movements[m].date.month \in Nat
<1>1. \A m \in DOMAIN movements : movements[m] \in Movement
  BY DEF TypeOK
<1>. QED  BY <1>1 DEF TypeOK, Linked, Movement, Date

(* A movement's month stays past, whatever the step, as long as the date    *)
(* does not go back and dates follow.                                       *)
LEMMA PassedStays ==
  ASSUME TypeOK, MovesPlaced, DatesReached, DatesFollow, NEW c \in Contracts, TypeOK',
         NEW m \in Linked(c), Passed(c, m),
         nextDate'[c].month >= nextDate[c].month,
         movements'[m].date = movements[m].date,
         \A q \in Requests : pc[q] = "bill.dates" /\ pc'[q] = pc[q] =>
           list'[q] = list[q] /\ move'[q] = move[q]
  PROVE  Passed(c, m)'
<1>1. /\ movements[m].date.month \in Nat /\ nextDate[c].month \in Nat
      /\ nextDate'[c].month \in Nat
  BY LinkedMonths DEF TypeOK, Date
<1>2. CASE movements[m].date.month < nextDate[c].month
  BY <1>1, <1>2 DEF Passed
<1>3. ASSUME NEW q \in Requests, pc[q] = "bill.dates", Now(q) = c, move[q] = m
      PROVE  Passed(c, m)'
  <2>1. CASE pc'[q] = pc[q]
    BY <1>3, <2>1 DEF Passed, Now
  <2>2. CASE pc'[q] # pc[q]
    <3>1. nextDate'[c] = MonthAfter(seen[q].date)
      BY <1>3, <2>2 DEF DatesFollow
    <3>2. movements[m].date = seen[q].date /\ seen[q].date \in Date
      BY <1>3 DEF DatesReached, MoveSteps, TypeOK, Seen
    <3>3. movements'[m].date.month < nextDate'[c].month
      BY <3>1, <3>2, MonthAfterLater
    <3>. QED  BY <3>3 DEF Passed
  <2>. QED  BY <2>1, <2>2
<1>. QED  BY <1>2, <1>3 DEF Passed

(* A billing step links no movement but the one it has created.             *)
LEMMA LinksFrame ==
  ASSUME TypeOK, MovesPlaced, NEW r \in Requests, BillingStep(r), NEW c,
         NEW m \in Linked(c)',
         ~ (pc[r] = "bill.link" /\ InsertLink(r) /\ m = move[r])
  PROVE  m \in Linked(c) /\ movements'[m].date = movements[m].date
<1>1. CASE UNCHANGED movements
  BY <1>1 DEF Linked
<1>2. CASE pc[r] = "bill.movement" /\ InsertMovement(r)
  <2>. DEFINE n == Len(movements) + 1
  <2>1. movements'[n].linked = FALSE
    <3>1. movements'[n] =
            [contract |-> Now(r), date |-> seen[r].date, items |-> 0,
             linked |-> FALSE, by |-> r]
      BY <1>2, MovementInserted
    <3>. QED  BY <3>1
  <2>2. /\ DOMAIN movements' = DOMAIN movements \cup {n}
        /\ \A k \in DOMAIN movements : movements'[k] = movements[k]
    BY <1>2, MovementInserted
  <2>. HIDE DEF n
  <2>3. m \in DOMAIN movements' /\ movements'[m].linked /\ m # n
    BY <2>1 DEF Linked
  <2>4. m \in DOMAIN movements /\ movements'[m] = movements[m]
    BY <2>2, <2>3
  <2>. QED  BY <2>4 DEF Linked
<1>3. CASE pc[r] = "bill.items" /\ InsertItem(r)
  <2>1. /\ move[r] \in DOMAIN movements /\ movements \in Seq(Movement)
        /\ DOMAIN movements' = DOMAIN movements
        /\ \A k \in DOMAIN movements \ {move[r]} : movements'[k] = movements[k]
    BY <1>3, ItemCreated DEF MovesPlaced, MoveSteps, TypeOK
  <2>2. movements[move[r]] \in Movement
    BY <2>1
  <2>3. movements'[move[r]] =
          [movements[move[r]] EXCEPT !.items = movements[move[r]].items + 1]
    BY <1>3, <2>1 DEF InsertItem
  <2>4. /\ movements'[move[r]].contract = movements[move[r]].contract
        /\ movements'[move[r]].linked = movements[move[r]].linked
        /\ movements'[move[r]].date = movements[move[r]].date
    BY <2>2, <2>3 DEF Movement
  <2>. QED  BY <2>1, <2>4 DEF Linked
<1>4. CASE pc[r] = "bill.link" /\ InsertLink(r)
  <2>1. /\ m \in DOMAIN movements
        /\ movements' = [movements EXCEPT ![move[r]].linked = TRUE]
    BY <1>4, LinkCreated DEF InsertLink, Linked
  <2>2. movements'[m] = movements[m]
    BY <1>4, <2>1
  <2>. QED  BY <2>1, <2>2 DEF Linked
<1>. QED
  BY <1>1, <1>2, <1>3, <1>4
  DEF BillingStep, BeginBilling, BillFind, BillMovement, BillItem, BillPayment,
      BillLink, BillDates, BillStageFails, BillStageTimesOut, BillCommit,
      BillCommitFails, BillReply, At, billingVars

LEMMA ApartStep ==
  ASSUME TypeOK, TypeOK', MovesPlaced, DatesReached, OneAtATime, DatesFollow,
         NEW r \in Requests, BillingStep(r), NEW c \in Contracts, Apart(c)
  PROVE  Apart(c)'
<1>0. /\ pc \in [Requests -> PCs] /\ seen \in [Requests -> Seen]
      /\ nextDate \in [Contracts -> Date] /\ nextDate'[c].month \in Nat
  BY DEF TypeOK, Date
<1>1. \A s \in Requests \ {r} :
        /\ pc'[s] = pc[s] /\ Now(s)' = Now(s) /\ seen'[s] = seen[s]
        /\ move'[s] = move[s] /\ list'[s] = list[s]
  BY BillingFrame DEF Now
<1>2. \/ nextDate'[c] = nextDate[c]
      \/ /\ pc[r] = "bill.dates" /\ Now(r) = c /\ pc'[r] \notin SeenSteps
         /\ nextDate'[c] = MonthAfter(nextDate[c])
  <2>1. CASE UNCHANGED nextDate
    BY <2>1
  <2>2. CASE \/ BillDates(r)
             \/ BillStageTimesOut(r) /\ pc[r] = "bill.dates" /\ MoveDate(r)
    <3>1. /\ pc[r] = "bill.dates"
          /\ nextDate' = [nextDate EXCEPT ![Now(r)] = MonthAfter(seen[r].date)]
          /\ pc'[r] \notin SeenSteps
      BY <1>0, <2>2
      DEF BillDates, BillStageTimesOut, MoveDate, NextContract, Goto,
          SeenSteps, MoveSteps
    <3>2. Now(r) = c => seen[r].date = nextDate[c]
      BY <3>1 DEF Apart, SeenSteps, MoveSteps
    <3>. QED  BY <1>0, <3>1, <3>2
  <2>. QED
    BY <2>1, <2>2
    DEF BillingStep, BeginBilling, BillFind, BillMovement, BillItem, BillPayment,
        BillLink, BillStageFails, BillStageTimesOut, BillCommit,
        BillCommitFails, BillReply
<1>3. nextDate'[c].month >= nextDate[c].month
  BY <1>0, <1>2, MonthAfterLater
<1>4. \/ pc'[r] \notin SeenSteps
      \/ pc'[r] = "bill.movement" /\ seen'[r].date = nextDate[Now(r)]'
      \/ /\ pc[r] \in SeenSteps /\ seen'[r] = seen[r] /\ Now(r)' = Now(r)
         /\ UNCHANGED nextDate
  <2>1. CASE \/ \E cs \in Lists : BeginBilling(r, cs)
             \/ BillStageFails(r) \/ BillStageTimesOut(r) \/ BillCommit(r)
             \/ BillCommitFails(r) \/ BillReply(r) \/ BillDates(r)
    <3>1. pc'[r] \notin SeenSteps
      BY <1>0, <2>1
      DEF BeginBilling, BillStageFails, BillStageTimesOut, BillDates,
          NextContract, BillCommit, BillCommitFails, BillReply, Goto, Reply,
          SeenSteps, MoveSteps
    <3>. QED  BY <3>1
  <2>2. CASE BillFind(r)
    BY <1>0, <2>2 DEF BillFind, ColumnsOf, Goto, At, Now
  <2>3. CASE BillMovement(r) \/ BillItem(r) \/ BillPayment(r) \/ BillLink(r)
    BY <2>3 DEF BillMovement, BillItem, BillPayment, BillLink, At, Now, SeenSteps, MoveSteps
  <2>. QED  BY <2>1, <2>2, <2>3 DEF BillingStep
<1>5. ASSUME NEW s \in Requests, pc'[s] \in SeenSteps, Now(s)' = c
      PROVE  seen'[s].date = nextDate'[c]
  <2>1. CASE s = r
    BY <1>4, <1>5, <2>1 DEF Apart
  <2>2. CASE s # r
    <3>1. pc[s] \in SeenSteps /\ Now(s) = c /\ seen'[s].date = nextDate[c]
      BY <1>1, <1>5, <2>2 DEF Apart
    <3>2. ~ (pc[r] = "bill.dates" /\ Now(r) = c)
      BY <2>2, <3>1 DEF OneAtATime, SeenSteps, MoveSteps
    <3>. QED  BY <1>2, <3>1, <3>2
  <2>. QED  BY <2>1, <2>2
<1>6. ASSUME NEW m \in Linked(c)', ~ (BillLink(r) /\ m = move[r])
      PROVE  m \in Linked(c) /\ movements'[m].date = movements[m].date /\ Passed(c, m)'
  <2>0. pc[r] = "bill.link" /\ InsertLink(r) => BillLink(r)
    <3>. SUFFICES ASSUME pc[r] = "bill.link", InsertLink(r) PROVE BillLink(r)
      OBVIOUS
    <3>1. move[r] \in DOMAIN movements /\ movements \in Seq(Movement)
      BY DEF MovesPlaced, MoveSteps, TypeOK
    <3>2. movements'[move[r]].linked
      <4>1. movements[move[r]] \in Movement
        BY <3>1
      <4>. QED  BY <3>1, <4>1 DEF InsertLink, Movement
    <3>3. pc'[r] = "bill.dates"
      BY <3>2 DEF DatesFollow
    <3>. QED
      BY <1>0, <3>3
      DEF BillingStep, BeginBilling, Starts, BillFind, BillMovement, BillItem,
          BillPayment, BillDates, BillStageFails, BillStageTimesOut,
          NextContract, BillCommit, BillCommitFails, BillReply, At, Goto
  <2>1. m \in Linked(c) /\ movements'[m].date = movements[m].date
    BY <1>6, <2>0, LinksFrame
  <2>2. \A q \in Requests : pc[q] = "bill.dates" /\ pc'[q] = pc[q] =>
          list'[q] = list[q] /\ move'[q] = move[q]
    <3>1. pc[r] = "bill.dates" => pc'[r] # pc[r]
      BY <1>0 DEF BillingStep, BeginBilling, Starts, BillFind, BillMovement, BillItem,
        BillPayment, BillLink, BillDates, BillStageFails, BillStageTimesOut,
        BillCommit, BillCommitFails, BillReply, NextContract, Goto, At
    <3>. QED  BY <1>1, <3>1
  <2>3. Passed(c, m)
    BY <2>1 DEF Apart
  <2>. QED  BY <1>3, <2>1, <2>2, <2>3, PassedStays
<1>7. ASSUME BillLink(r), NEW m \in Linked(c)', m = move[r]
      PROVE  Passed(c, m)' /\ Now(r) = c /\ movements'[m].date = nextDate[c]
  <2>1. /\ pc[r] = "bill.link" /\ pc'[r] = "bill.dates"
        /\ move'[r] = move[r] /\ Now(r)' = Now(r)
    BY <1>0, <1>7 DEF BillLink, At, Goto, Now
  <2>2. /\ movements'[m].contract = Now(r)
        /\ movements'[m].date = seen[r].date
    <3>1. /\ move[r] \in DOMAIN movements
          /\ movements[move[r]].contract = Now(r)
          /\ movements[move[r]].date = seen[r].date
      BY <2>1 DEF MovesPlaced, DatesReached, MoveSteps
    <3>2. Kept(movements, movements')
      BY <1>7, LinkCreated DEF BillLink, At
    <3>. QED  BY <1>7, <3>1, <3>2 DEF Kept
  <2>3. Now(r) = c
    BY <1>7, <2>2 DEF Linked
  <2>4. seen[r].date = nextDate[c]
    BY <2>1, <2>3 DEF Apart, SeenSteps, MoveSteps
  <2>. QED  BY <1>7, <2>1, <2>2, <2>3, <2>4 DEF Passed
<1>8. ASSUME BillLink(r), NEW m \in Linked(c)', m = move[r], NEW n \in Linked(c)', n # m
      PROVE  movements'[n].date.month # movements'[m].date.month
  <2>1. n \in Linked(c) /\ movements'[n].date = movements[n].date
    BY <1>6, <1>8
  <2>2. pc[r] = "bill.link" /\ Now(r) = c /\ movements'[m].date = nextDate[c]
    BY <1>7, <1>8 DEF BillLink, At
  <2>3. ~ \E q \in Requests : pc[q] = "bill.dates" /\ Now(q) = c /\ move[q] = n
    BY <2>2 DEF OneAtATime, SeenSteps, MoveSteps
  <2>4. movements[n].date.month < nextDate[c].month
    BY <2>1, <2>3 DEF Apart, Passed
  <2>. QED  BY <2>1, <2>2, <2>4, LinkedMonths
<1>9. ASSUME NEW m \in Linked(c)', NEW n \in Linked(c)',
             movements'[m].date.month = movements'[n].date.month
      PROVE  m = n
  <2>1. CASE BillLink(r) /\ m = move[r]
    BY <1>8, <1>9, <2>1
  <2>2. CASE BillLink(r) /\ n = move[r]
    BY <1>8, <1>9, <2>2
  <2>3. CASE ~ (BillLink(r) /\ m = move[r]) /\ ~ (BillLink(r) /\ n = move[r])
    BY <1>6, <1>9, <2>3 DEF Apart
  <2>. QED  BY <2>1, <2>2, <2>3
<1>10. ASSUME NEW m \in Linked(c)' PROVE Passed(c, m)'
  BY <1>6, <1>7, <1>10
<1>11. \A s \in Requests : pc'[s] \in SeenSteps /\ Now(s)' = c => seen'[s].date = nextDate'[c]
  BY <1>5
<1>12. \A m \in Linked(c)' : Passed(c, m)'
  BY <1>10
<1>13. \A m, n \in Linked(c)' :
          movements'[m].date.month = movements'[n].date.month => m = n
  BY <1>9
<1>. QED  BY <1>11, <1>12, <1>13 DEF Apart

LEMMA MonthsApartStep ==
  TypeOK /\ MovesPlaced /\ DatesReached /\ OneAtATime /\ MonthsApart /\ TypeOK'
    /\ [Next]_vars /\ [DatesFollow]_vars => MonthsApart'
<1>. SUFFICES ASSUME TypeOK, MovesPlaced, DatesReached, OneAtATime, MonthsApart, TypeOK',
                     [Next]_vars, [DatesFollow]_vars, NEW c \in Contracts, c \notin operated'
              PROVE  Apart(c)'
  BY DEF MonthsApart
<1>1. ASSUME UNCHANGED movements, Apart(c), DatesFollow \/ UNCHANGED vars,
             nextDate'[c] = nextDate[c],
             \A s \in Requests : pc'[s] \in SeenSteps =>
               /\ pc'[s] = pc[s] /\ list'[s] = list[s] /\ seen'[s] = seen[s]
               /\ move'[s] = move[s]
      PROVE  Apart(c)'
  <2>1. CASE UNCHANGED vars
    BY <1>1, <2>1 DEF Apart, Linked, Passed, Now, vars, contractVars, billingVars, requestVars
  <2>2. CASE DatesFollow
    <3>1. Linked(c)' = Linked(c)
      BY <1>1 DEF Linked
    <3>2. ASSUME NEW m \in Linked(c) PROVE Passed(c, m)'
      <4>1. Passed(c, m) /\ nextDate'[c].month >= nextDate[c].month
        BY <1>1, LinkedMonths DEF Apart
      <4>2. \A q \in Requests : pc[q] = "bill.dates" /\ pc'[q] = pc[q] =>
              list'[q] = list[q] /\ move'[q] = move[q]
        BY <1>1 DEF SeenSteps, MoveSteps
      <4>. QED  BY <1>1, <2>2, <4>1, <4>2, PassedStays
    <3>3. ASSUME NEW s \in Requests, pc'[s] \in SeenSteps, Now(s)' = c
          PROVE  seen'[s].date = nextDate'[c]
      BY <1>1, <3>3 DEF Apart, Now
    <3>. QED  BY <1>1, <3>1, <3>2, <3>3 DEF Apart
  <2>. QED  BY <1>1, <2>1, <2>2
<1>2. DatesFollow \/ UNCHANGED vars
  OBVIOUS
<1>3. ASSUME NEW r \in Requests, BillingStep(r) PROVE Apart(c)'
  <2>1. c \notin operated /\ Apart(c)
    BY <1>3, BillingFrame DEF InsideBilling, MonthsApart
  <2>2. CASE DatesFollow
    BY <1>3, <2>1, <2>2, ApartStep
  <2>3. CASE UNCHANGED vars
    BY <1>1, <2>1, <2>3 DEF vars, contractVars, billingVars, requestVars
  <2>. QED  BY <1>2, <2>2, <2>3
<1>4. ASSUME NEW r \in Requests,
             \/ TerminationStep(r) \/ AdjustDateStep(r) \/ AdjustmentStep(r)
             \/ \E b \in Contracts : UpdateContract(r, b)
      PROVE  Apart(c)'
  <2>1. /\ UNCHANGED <<movements, move>> /\ pc'[r] \notin BillingSteps
        /\ \A s \in Requests \ {r} :
             pc'[s] = pc[s] /\ list'[s] = list[s] /\ seen'[s] = seen[s]
    BY <1>4, OutsideFrame DEF OutsideBilling, billingVars
  <2>2. c \notin operated /\ nextDate'[c] = nextDate[c]
    BY <1>4, DatesOfOthers
  <2>3. SeenSteps \subseteq BillingSteps
    BY DEF SeenSteps, MoveSteps, BillingSteps
  <2>. QED  BY <1>1, <1>2, <2>1, <2>2, <2>3 DEF MonthsApart
<1>5. CASE Crash
  <2>1. \A s \in Requests : pc'[s] \notin SeenSteps
    BY <1>5 DEF Crash, Ended, SeenSteps, MoveSteps
  <2>. QED  BY <1>1, <1>2, <1>5, <2>1 DEF Crash, contractVars, billingVars, MonthsApart
<1>6. CASE UNCHANGED vars
  BY <1>1, <1>6 DEF vars, contractVars, billingVars, requestVars, MonthsApart
<1>. QED  BY <1>3, <1>4, <1>5, <1>6 DEF Next, RequestStep

(* What the comment at contract-recurring.service.js:342 says of a month is *)
(* true of a contract whose date no operator has set as long as two things  *)
(* hold that the code does not see to: its billings come one after the      *)
(* other, and the next date is written when the movement has been linked.   *)
(* Nothing else bills a month twice: neither a failure at another stage,    *)
(* nor a list that names a contract twice, nor what other requests do.      *)
THEOREM OnceWhenOneAtATime ==
  Spec /\ []OneAtATime /\ [][DatesFollow]_vars => []OneBillingPerMonth
<1>1. Init => DatesReached /\ MonthsApart
  <2>1. Init => DatesReached
    BY DatesInit
  <2>2. Init => MonthsApart
    BY DEF Init, MonthsApart, Apart, Linked, SeenSteps, MoveSteps
  <2>. QED  BY <2>1, <2>2
<1>2. TypeOK /\ MovesPlaced /\ TypeOK' /\ OneAtATime /\ (DatesReached /\ MonthsApart)
        /\ [Next]_vars /\ [DatesFollow]_vars => (DatesReached /\ MonthsApart)'
  BY DatesStep, MonthsApartStep
<1>3. TypeOK /\ MonthsApart => OneBillingPerMonth
  <2>. SUFFICES ASSUME TypeOK, MonthsApart,
                       NEW m \in DOMAIN movements, NEW n \in DOMAIN movements,
                       movements[m].contract = movements[n].contract,
                       movements[m].date.month = movements[n].date.month,
                       movements[m].linked, movements[n].linked,
                       movements[m].contract \notin operated
                PROVE  m = n
    BY DEF OneBillingPerMonth
  <2>1. movements[m] \in Movement
    BY DEF TypeOK
  <2>2. movements[m].contract \in Contracts \ operated
    BY <2>1 DEF Movement
  <2>. QED  BY <2>2 DEF MonthsApart, Apart, Linked
<1>. QED  BY <1>1, <1>2, <1>3, ContractInvariant, PTL DEF Spec

-----------------------------------------------------------------------------
(* The outcome of a billing.                                                *)

(* The payment of m, with every installment, is in the transaction of r.    *)
InTx(r, m) == m \in DOMAIN tx[r] /\ tx[r][m] = "full"

(* Only a request that has ended was answered, so no later step of it can   *)
(* fail the statement its answer was given without.                         *)
Answered(r) == reply[r] # "none" => pc[r] = "done"

(* Only a billing has results.                                              *)
Fresh(r) ==
  pc[r] \notin BillingSteps \cup {"done", "dead"} => results[r] = <<>>

OwnPayments(r) == \A m \in DOMAIN tx[r] : movements[m].by = r

(* Until the last stage the movement at hand is not whole, which is how it  *)
(* differs from those the results name.                                     *)
WorkWhole(r) ==
  pc[r] \in MoveSteps =>
    /\ movements[move[r]].linked = (pc[r] = "bill.dates")
    /\ pc[r] # "bill.items" => movements[move[r]].items = ItemCount
    /\ pc[r] \in {"bill.link", "bill.dates"} /\ payment[r] /\ ~poisoned[r] =>
         InTx(r, move[r])

(* The transaction of a request is open until it settles.                   *)
Settled == {"bill.reply", "done", "dead"}

NamedWhole(r, m, status) ==
  /\ status = "success" => m # 0
  /\ m # 0 =>
       /\ m \in CreatedBy(r)
       /\ Whole(m)
       /\ status = "success" /\ ~poisoned[r] =>
            /\ pc[r] \notin Settled => InTx(r, m)
            /\ pc[r] = "bill.reply" \/ reply[r] = "ok" => Paid(m)

ResultsWhole(r) ==
  \A k \in DOMAIN results[r] :
    NamedWhole(r, results[r][k].movement, results[r][k].status)

(* COMMIT comes when the list has been dealt with.                          *)
ListDone(r) == pc[r] \in {"bill.commit", "bill.reply"} => list[r] = <<>>

Sound(r) ==
  /\ Answered(r)
  /\ ListDone(r)
  /\ Fresh(r)
  /\ OwnPayments(r)
  /\ WorkWhole(r)
  /\ ResultsWhole(r)

BillingsSound ==
  /\ \A r \in Requests : Sound(r)
  /\ \A m \in notified : Whole(m)
  /\ \A m \in DOMAIN payments : pc[movements[m].by] \in Settled
  /\ PaidTogether

----------------------------------------------------------------------------
(* What a step of r leaves alone                                            *)

LEMMA RequestFrame ==
  ASSUME TypeOK, NEW r \in Requests, BillingStep(r), NEW s \in Requests \ {r}
  PROVE  /\ pc'[s] = pc[s] /\ move'[s] = move[s] /\ tx'[s] = tx[s]
         /\ results'[s] = results[s] /\ payment'[s] = payment[s]
         /\ poisoned'[s] = poisoned[s] /\ reply'[s] = reply[s]
<1>0. /\ payment \in [Requests -> BOOLEAN]
      /\ poisoned \in [Requests -> BOOLEAN]
      /\ reply \in [Requests -> {"none", "ok", "error"}]
  BY DEF TypeOK
<1>1. /\ pc'[s] = pc[s] /\ move'[s] = move[s] /\ tx'[s] = tx[s]
      /\ results'[s] = results[s]
  BY BillingFrame
<1>2. payment'[s] = payment[s]
  BY <1>0
  DEF BillingStep, BeginBilling, BillFind, BillMovement, BillItem,
      BillPayment, BillLink, BillDates, BillStageFails, BillStageTimesOut,
      NextContract, Forget, BillCommit, BillCommitFails, BillReply
<1>3. poisoned'[s] = poisoned[s]
  BY <1>0
  DEF BillingStep, BeginBilling, BillFind, BillMovement, BillItem,
      BillPayment, BillLink, BillDates, BillStageFails, BillStageTimesOut,
      BillCommit, BillCommitFails, BillReply
<1>4. reply'[s] = reply[s]
  BY <1>0
  DEF BillingStep, BeginBilling, BillFind, BillMovement, BillItem,
      BillPayment, BillLink, BillDates, BillStageFails, BillStageTimesOut,
      NextContract, BillCommit, BillCommitFails, BillReply, Goto, Reply
<1>. QED  BY <1>1, <1>2, <1>3, <1>4

(* The movement r works on is its own, and in the table.                    *)
LEMMA WorkPlaced ==
  ASSUME TypeOK, MovesPlaced, NEW r \in Requests, pc[r] \in MoveSteps
  PROVE  /\ move[r] \in DOMAIN movements /\ movements[move[r]].by = r
         /\ movements[move[r]] \in Movement
         /\ move[r] # 0
<1>1. move[r] \in DOMAIN movements /\ movements[move[r]].by = r
  BY DEF MovesPlaced
<1>2. movements \in Seq(Movement) /\ DOMAIN movements = 1 .. Len(movements)
  BY DEF TypeOK
<1>. QED  BY <1>1, <1>2

(* A billing changes no movement but the one it works on, and that one only *)
(* while it is not yet whole.                                               *)
LEMMA TableFrame ==
  ASSUME TypeOK, MovesPlaced, NEW r \in Requests, Sound(r), BillingStep(r),
         NEW m \in DOMAIN movements
  PROVE  /\ m \in DOMAIN movements' /\ movements'[m].by = movements[m].by
         /\ movements[m].by # r => movements'[m] = movements[m]
         /\ Whole(m) => Whole(m)'
<1>0. m \in DOMAIN movements' /\ movements'[m].by = movements[m].by
  BY StepKeeps DEF Kept
<1>1. CASE pc[r] = "bill.movement" /\ InsertMovement(r)
  <2>1. movements'[m] = movements[m]
    BY <1>1, MovementInserted
  <2>. QED  BY <1>0, <2>1 DEF Whole
<1>2. CASE pc[r] = "bill.items" /\ InsertItem(r)
  <2>1. pc[r] \in MoveSteps /\ pc[r] = "bill.items"
    BY <1>2 DEF MoveSteps
  <2>2. movements[move[r]].by = r /\ ~Whole(move[r])
    BY <2>1, WorkPlaced DEF Sound, WorkWhole, Whole
  <2>3. m # move[r] => movements'[m] = movements[m]
    BY <1>2, ItemCreated
  <2>. QED  BY <1>0, <2>2, <2>3 DEF Whole
<1>3. CASE pc[r] = "bill.link" /\ InsertLink(r)
  <2>1. pc[r] \in MoveSteps /\ pc[r] = "bill.link"
    BY <1>3 DEF MoveSteps
  <2>2. movements[move[r]].by = r /\ ~Whole(move[r])
    BY <2>1, WorkPlaced DEF Sound, WorkWhole, Whole
  <2>3. m # move[r] => movements'[m] = movements[m]
    BY <1>3 DEF InsertLink, TypeOK
  <2>. QED  BY <1>0, <2>2, <2>3 DEF Whole
<1>4. CASE UNCHANGED movements
  BY <1>0, <1>4 DEF Whole
<1>. QED
  BY <1>1, <1>2, <1>3, <1>4
  DEF BillingStep, BeginBilling, BillFind, BillMovement, BillItem, BillPayment,
      BillLink, BillDates, BillStageFails, BillStageTimesOut, BillCommit,
      BillCommitFails, BillReply, At, billingVars

(* Payments are written by COMMIT.                                          *)
LEMMA WhoPays ==
  ASSUME NEW r \in Requests, BillingStep(r)
  PROVE  \/ UNCHANGED payments
         \/ /\ pc[r] = "bill.commit" /\ CommitPayments(r)
            /\ BillCommit(r) \/ BillCommitFails(r)
BY DEF BillingStep, BeginBilling, BillFind, BillMovement, BillItem,
       BillPayment, BillLink, BillDates, BillStageFails, BillStageTimesOut,
       BillCommit, BillCommitFails, BillReply, At, billingVars

(* A payment in the table is replaced by none but its own request's.        *)
LEMMA PaymentFrame ==
  ASSUME TypeOK, MovesPlaced, NEW r \in Requests, Sound(r), BillingStep(r),
         NEW m \in DOMAIN movements, movements[m].by # r
  PROVE  Paid(m) => Paid(m)'
<1>1. CASE CommitPayments(r)
  <2>1. m \notin DOMAIN tx[r]
    BY DEF Sound, OwnPayments
  <2>. QED  BY <1>1, <2>1 DEF CommitPayments, Paid
<1>2. CASE UNCHANGED payments
  BY <1>2 DEF Paid
<1>. QED  BY <1>1, <1>2, WhoPays

(* The other requests stay as sound as they were.                           *)
LEMMA OthersSound ==
  ASSUME TypeOK, MovesPlaced, NEW r \in Requests, Sound(r), BillingStep(r),
         NEW s \in Requests \ {r}, Sound(s)
  PROVE  Sound(s)'
<1>0. /\ pc'[s] = pc[s] /\ move'[s] = move[s] /\ tx'[s] = tx[s]
      /\ results'[s] = results[s] /\ payment'[s] = payment[s]
      /\ poisoned'[s] = poisoned[s] /\ reply'[s] = reply[s]
  BY RequestFrame
<1>1. Answered(s)' /\ ListDone(s)'
  BY <1>0, BillingFrame DEF Sound, Answered, ListDone
<1>5. Fresh(s)'
  BY <1>0 DEF Sound, Fresh
<1>2. OwnPayments(s)'
  <2>1. DOMAIN tx[s] \subseteq DOMAIN movements
    BY DEF MovesPlaced
  <2>. QED  BY <1>0, <2>1, TableFrame DEF Sound, OwnPayments
<1>3. WorkWhole(s)'
  <2>1. SUFFICES ASSUME pc[s] \in MoveSteps PROVE WorkWhole(s)'
    BY <1>0 DEF WorkWhole
  <2>2. move[s] \in DOMAIN movements /\ movements[move[s]].by = s
    BY <2>1, WorkPlaced
  <2>3. movements'[move[s]] = movements[move[s]]
    BY <2>2, TableFrame
  <2>. QED  BY <1>0, <2>1, <2>3 DEF Sound, WorkWhole, InTx
<1>4. ResultsWhole(s)'
  <2>1. ASSUME NEW m, NEW status, NamedWhole(s, m, status), m # 0
        PROVE  NamedWhole(s, m, status)'
    <3>1. m \in DOMAIN movements /\ movements[m].by = s /\ Whole(m)
      BY <2>1 DEF NamedWhole, CreatedBy
    <3>2. /\ m \in DOMAIN movements' /\ movements'[m].by = s /\ Whole(m)'
          /\ Paid(m) => Paid(m)'
      BY <3>1, TableFrame, PaymentFrame
    <3>3. m \in CreatedBy(s)'
      BY <3>2 DEF CreatedBy
    <3>. QED  BY <1>0, <2>1, <3>2, <3>3 DEF NamedWhole, InTx
  <2>2. ASSUME NEW k \in DOMAIN results[s]
        PROVE  NamedWhole(s, results[s][k].movement, results[s][k].status)'
    <3>. DEFINE m == results[s][k].movement
                status == results[s][k].status
    <3>1. NamedWhole(s, m, status)
      BY DEF Sound, ResultsWhole
    <3>2. results'[s][k].movement = m /\ results'[s][k].status = status
      BY <1>0
    <3>. QED
      BY <1>0, <2>1, <3>1, <3>2 DEF NamedWhole
  <2>. QED  BY <1>0, <2>2 DEF ResultsWhole
<1>. QED  BY <1>1, <1>2, <1>3, <1>4, <1>5 DEF Sound
----------------------------------------------------------------------------
(* The steps of r                                                           *)

(* Until it settles a billing's results need only its own transaction.      *)
LEMMA ResultsKept ==
  ASSUME TypeOK, MovesPlaced, NEW r \in Requests, Sound(r), BillingStep(r),
         UNCHANGED <<reply, results>>,
         pc[r] # "bill.reply", pc'[r] \notin {"bill.reply", "done"},
         ~poisoned'[r] => ~poisoned[r],
         \A m \in DOMAIN movements :
           Whole(m) /\ InTx(r, m) /\ ~poisoned'[r] => InTx(r, m)'
  PROVE  ResultsWhole(r)'
<1>0. /\ reply[r] # "ok" /\ pc[r] \notin Settled
      /\ pc'[r] # "bill.reply"
  <2>1. pc[r] \notin {"done", "dead"}
    BY BillingFrame DEF BillingSteps
  <2>. QED  BY <2>1 DEF Sound, Answered, Settled
<1>1. ASSUME NEW m, NEW status, NamedWhole(r, m, status), m # 0
      PROVE  /\ m \in CreatedBy(r)' /\ Whole(m)'
             /\ status = "success" /\ ~poisoned'[r] => InTx(r, m)'
  <2>1. /\ m \in DOMAIN movements /\ movements[m].by = r /\ Whole(m)
        /\ status = "success" /\ ~poisoned[r] => InTx(r, m)
    BY <1>0, <1>1 DEF NamedWhole, CreatedBy
  <2>2. m \in DOMAIN movements' /\ movements'[m].by = r /\ Whole(m)'
    BY <2>1, TableFrame
  <2>3. m \in CreatedBy(r)'
    BY <2>2 DEF CreatedBy
  <2>4. status = "success" /\ ~poisoned'[r] => InTx(r, m)'
    BY <2>1
  <2>. QED  BY <2>2, <2>3, <2>4
<1>2. ASSUME NEW k \in DOMAIN results[r]
      PROVE  NamedWhole(r, results[r][k].movement, results[r][k].status)'
  <2>. DEFINE m == results[r][k].movement
              status == results[r][k].status
  <2>1. NamedWhole(r, m, status)
    BY DEF Sound, ResultsWhole
  <2>2. results'[r][k].movement = m /\ results'[r][k].status = status
    OBVIOUS
  <2>3. m # 0 =>
          /\ m \in CreatedBy(r)' /\ (Whole(m))'
          /\ status = "success" /\ ~poisoned'[r] => InTx(r, m)'
    BY <1>1, <2>1, <2>2 DEF InTx, Whole
  <2>4. status = "success" => m # 0
    BY <2>1 DEF NamedWhole
  <2>. QED  BY <1>0, <2>2, <2>3, <2>4 DEF NamedWhole
<1>. QED  BY <1>2 DEF ResultsWhole

LEMMA OwnKept ==
  ASSUME TypeOK, MovesPlaced, NEW r \in Requests, Sound(r), BillingStep(r),
         DOMAIN tx'[r] \subseteq DOMAIN tx[r] \cup {move[r]},
         tx'[r] # tx[r] => pc[r] \in MoveSteps
  PROVE  OwnPayments(r)'
<1>1. ASSUME NEW m \in DOMAIN tx'[r] PROVE movements'[m].by = r
  <2>1. m \in DOMAIN movements /\ movements[m].by = r
    <3>1. CASE m \in DOMAIN tx[r]
      BY <3>1 DEF Sound, OwnPayments, MovesPlaced
    <3>2. CASE m \notin DOMAIN tx[r]
      BY <1>1, <3>2, WorkPlaced
    <3>. QED  BY <3>1, <3>2
  <2>. QED  BY <2>1, TableFrame
<1>. QED  BY <1>1 DEF OwnPayments

LEMMA ListDoneStep ==
  ASSUME TypeOK, NEW r \in Requests, Sound(r), BillingStep(r)
  PROVE  ListDone(r)'
<1>. USE DEF Goto, Reply, At, Starts
<1>0. pc \in [Requests -> PCs] /\ list \in [Requests -> Seq(Contracts)]
  BY DEF TypeOK
<1>1. CASE \E cs \in Lists : BeginBilling(r, cs)
  BY <1>0, <1>1 DEF BeginBilling, ListDone
<1>2. ASSUME NEW status, NextContract(r, status),
             pc[r] \notin Ended \cup {"bill.commit", "bill.reply"}
      PROVE  ListDone(r)'
  <2>1. list[r] \in Seq(Contracts) /\ list[r] # <<>>
    BY <1>0, <1>2 DEF TypeOK
  <2>2. Len(list[r]) = 1 => Tail(list[r]) = <<>>
    <3>1. /\ Tail(list[r]) \in Seq(Contracts)
          /\ Len(list[r]) = 1 => Len(Tail(list[r])) = 0
      BY <2>1
    <3>2. ASSUME NEW q \in Seq(Contracts), Len(q) = 0
          PROVE  q = <<>>
      BY <3>2
    <3>. QED  BY <3>1, <3>2
  <2>. QED  BY <1>0, <1>2, <2>2 DEF NextContract, ListDone
<1>3. CASE BillDates(r) \/ BillStageFails(r) \/ BillStageTimesOut(r)
  BY <1>2, <1>3
  DEF BillDates, BillStageFails, BillStageTimesOut, BillingSteps, Ended
<1>4. CASE BillCommit(r)
  BY <1>0, <1>4 DEF BillCommit, Sound, ListDone
<1>5. CASE \/ BillFind(r) \/ BillMovement(r) \/ BillItem(r)
           \/ BillPayment(r) \/ BillLink(r)
           \/ BillCommitFails(r) \/ BillReply(r)
  BY <1>0, <1>5
  DEF BillFind, BillMovement, BillItem, BillPayment, BillLink,
      BillCommitFails, BillReply, ListDone
<1>. QED  BY <1>1, <1>3, <1>4, <1>5 DEF BillingStep

(* What is left to show of a step that answers nothing.                     *)
LEMMA WorkingSound ==
  ASSUME TypeOK, MovesPlaced, NEW r \in Requests, Sound(r), BillingStep(r),
         UNCHANGED reply, pc'[r] # "done",
         OwnPayments(r)', WorkWhole(r)', ResultsWhole(r)'
  PROVE  Sound(r)'
<1>1. pc'[r] \in BillingSteps /\ pc[r] # "done"
  BY BillingFrame DEF BillingSteps
<1>. QED  BY <1>1, ListDoneStep DEF Sound, Answered, Fresh

LEMMA BeginSound ==
  ASSUME TypeOK, MovesPlaced, NEW r \in Requests, Sound(r), BillingStep(r),
         (\E cs \in Lists : BeginBilling(r, cs)) \/ BillFind(r)
  PROVE  Sound(r)'
<1>1. /\ pc[r] # "bill.reply"
      /\ pc'[r] \in {"bill.find", "bill.movement", "bill.commit"}
      /\ UNCHANGED <<reply, tx, results, poisoned, billingVars>>
  BY DEF BeginBilling, Starts, BillFind, At, Goto, TypeOK
<1>2. OwnPayments(r)' /\ WorkWhole(r)'
  BY <1>1, OwnKept DEF WorkWhole, MoveSteps
<1>3. ResultsWhole(r)'
  BY <1>1, ResultsKept DEF InTx
<1>. QED  BY <1>1, <1>2, <1>3, WorkingSound

LEMMA MovementSound ==
  ASSUME TypeOK, MovesPlaced, NEW r \in Requests, Sound(r), BillingStep(r),
         BillMovement(r)
  PROVE  Sound(r)'
<1>1. /\ pc[r] = "bill.movement"
      /\ pc'[r] = IF ItemCount = 0 THEN "bill.payment" ELSE "bill.items"
      /\ UNCHANGED <<reply, tx, results, poisoned>>
  BY DEF BillMovement, At, Goto, TypeOK
<1>2. movements'[move'[r]].items = 0 /\ movements'[move'[r]].linked = FALSE
  <2>1. movements'[move'[r]] =
          [contract |-> Now(r), date |-> seen[r].date, items |-> 0,
           linked |-> FALSE, by |-> r]
    BY MovementCreated
  <2>. QED  BY <2>1
<1>3. OwnPayments(r)' /\ WorkWhole(r)'
  BY <1>1, <1>2, OwnKept DEF WorkWhole
<1>4. ResultsWhole(r)'
  BY <1>1, ResultsKept DEF InTx
<1>. QED  BY <1>1, <1>3, <1>4, WorkingSound

LEMMA ItemSound ==
  ASSUME TypeOK, MovesPlaced, NEW r \in Requests, Sound(r), BillingStep(r),
         BillItem(r)
  PROVE  Sound(r)'
<1>1. /\ pc[r] = "bill.items" /\ pc[r] \in MoveSteps
      /\ pc'[r] = IF movements[move[r]].items + 1 = ItemCount
                   THEN "bill.payment" ELSE "bill.items"
      /\ UNCHANGED <<reply, tx, results, poisoned, move>>
  BY DEF BillItem, At, Goto, TypeOK, MoveSteps
<1>2. movements'[move[r]].items = movements[move[r]].items + 1
  BY <1>1, ItemCreated DEF BillItem
<1>3. movements'[move[r]].linked = movements[move[r]].linked
  BY <1>1, WorkPlaced DEF BillItem, InsertItem, Movement
<1>4. OwnPayments(r)' /\ WorkWhole(r)'
  BY <1>1, <1>2, <1>3, OwnKept DEF WorkWhole, Sound
<1>5. ResultsWhole(r)'
  BY <1>1, ResultsKept DEF InTx
<1>. QED  BY <1>1, <1>4, <1>5, WorkingSound

LEMMA PaymentSound ==
  ASSUME TypeOK, MovesPlaced, NEW r \in Requests, Sound(r), BillingStep(r),
         BillPayment(r)
  PROVE  Sound(r)'
<1>1. /\ pc[r] = "bill.payment" /\ pc[r] \in MoveSteps
      /\ pc'[r] = "bill.link"
      /\ UNCHANGED <<reply, results, move, movements>>
  BY DEF BillPayment, At, Goto, TypeOK, MoveSteps, billingVars
<1>2. PICK made \in {"full", "bare", "none"} :
        /\ ~poisoned'[r] => ~poisoned[r]
        /\ payment'[r] = (made = "full")
        /\ tx'[r] = IF made = "none" THEN tx[r] ELSE
             [m \in DOMAIN tx[r] \cup {move[r]} |->
                IF m = move[r] THEN made ELSE tx[r][m]]
  BY DEF BillPayment, TypeOK
<1>3. DOMAIN tx'[r] \subseteq DOMAIN tx[r] \cup {move[r]}
  BY <1>2
<1>4. /\ movements[move[r]].linked = FALSE
      /\ movements[move[r]].items = ItemCount
  BY <1>1 DEF Sound, WorkWhole
<1>5. OwnPayments(r)'
  BY <1>1, <1>3, OwnKept
<1>6. WorkWhole(r)'
  <2>1. payment'[r] => InTx(r, move[r])'
    BY <1>1, <1>2 DEF InTx
  <2>. QED  BY <1>1, <1>4, <2>1 DEF WorkWhole
<1>7. ResultsWhole(r)'
  <2>1. ASSUME NEW m, Whole(m), InTx(r, m)
        PROVE  InTx(r, m)'
    <3>1. m # move[r]
      BY <1>4, <2>1 DEF Whole
    <3>. QED  BY <1>2, <2>1, <3>1 DEF InTx
  <2>. QED  BY <1>1, <1>2, <2>1, ResultsKept
<1>. QED  BY <1>1, <1>5, <1>6, <1>7, WorkingSound

LEMMA LinkSound ==
  ASSUME TypeOK, MovesPlaced, NEW r \in Requests, Sound(r), BillingStep(r),
         BillLink(r)
  PROVE  Sound(r)'
<1>1. /\ pc[r] = "bill.link" /\ pc[r] \in MoveSteps
      /\ pc'[r] = "bill.dates"
      /\ UNCHANGED <<reply, tx, results, poisoned, payment, move>>
  BY DEF BillLink, At, Goto, TypeOK, MoveSteps
<1>2. movements'[move[r]].linked = TRUE
  BY <1>1, WorkPlaced DEF BillLink, InsertLink, Movement
<1>3. movements'[move[r]].items = ItemCount
  <2>1. movements[move[r]].items = ItemCount /\ move[r] \in DOMAIN movements
    BY <1>1, WorkPlaced DEF Sound, WorkWhole
  <2>. QED  BY <1>1, <2>1, LinkCreated DEF BillLink
<1>4. OwnPayments(r)' /\ WorkWhole(r)'
  BY <1>1, <1>2, <1>3, OwnKept DEF WorkWhole, Sound, InTx
<1>5. ResultsWhole(r)'
  BY <1>1, ResultsKept DEF InTx
<1>. QED  BY <1>1, <1>4, <1>5, WorkingSound

LEMMA NextSound ==
  ASSUME TypeOK, MovesPlaced, NEW r \in Requests, Sound(r), BillingStep(r),
         NEW status, NextContract(r, status), pc[r] \notin Settled,
         UNCHANGED <<payments, tx, poisoned>>,
         status # "error" =>
           pc[r] = "bill.dates" /\ (status = "success" => payment[r])
  PROVE  Sound(r)'
<1>. DEFINE named == IF status = "error" THEN 0 ELSE move[r]
            outcome == [status |-> status, movement |-> named]
<1>0. /\ results[r] \in Seq(Result) /\ tx'[r] = tx[r]
      /\ results'[r] = Append(results[r], outcome)
      /\ outcome.status = status /\ outcome.movement = named
  BY DEF NextContract, TypeOK
<1>1. pc'[r] \in {"bill.commit", "bill.find"} /\ UNCHANGED reply
  BY DEF NextContract, Goto, TypeOK
<1>2. OwnPayments(r)' /\ WorkWhole(r)'
  BY <1>0, <1>1, OwnKept DEF WorkWhole, MoveSteps
<1>3. ASSUME NEW m, NEW st, NamedWhole(r, m, st)
      PROVE  NamedWhole(r, m, st)'
  <2>0. reply[r] # "ok"
    BY DEF Sound, Answered, Settled
  <2>1. m \in CreatedBy(r) => m \in CreatedBy(r)'
    BY TableFrame DEF CreatedBy
  <2>2. m \in CreatedBy(r) /\ Whole(m) => Whole(m)'
    BY TableFrame DEF CreatedBy
  <2>. QED
    BY <1>0, <1>1, <1>3, <2>0, <2>1, <2>2 DEF NamedWhole, InTx, Settled
<1>4. NamedWhole(r, named, status)
  <2>1. CASE status = "error"
    BY <2>1 DEF NamedWhole
  <2>2. CASE status # "error"
    <3>1. /\ pc[r] = "bill.dates" /\ pc[r] \in MoveSteps
          /\ status = "success" => payment[r]
      BY <2>2 DEF MoveSteps
    <3>2. /\ move[r] \in DOMAIN movements /\ movements[move[r]].by = r
          /\ move[r] # 0
      BY <3>1, WorkPlaced
    <3>3. /\ Whole(move[r])
          /\ status = "success" /\ ~poisoned[r] => InTx(r, move[r])
      BY <3>1 DEF Sound, WorkWhole, Whole
    <3>4. reply[r] # "ok"
      BY <3>1 DEF Sound, Answered
    <3>. QED  BY <2>2, <3>1, <3>2, <3>3, <3>4 DEF NamedWhole, CreatedBy
  <2>. QED  BY <2>1, <2>2
<1>. HIDE DEF outcome
<1>5. ResultsWhole(r)'
  <2>1. ASSUME NEW k \in DOMAIN results'[r]
        PROVE  \E m, st :
                 /\ results'[r][k].movement = m /\ results'[r][k].status = st
                 /\ NamedWhole(r, m, st)
    <3>1. CASE k \in DOMAIN results[r]
      <4>1. results'[r][k] = results[r][k]
        BY <1>0, <3>1
      <4>. QED  BY <3>1, <4>1 DEF Sound, ResultsWhole
    <3>2. CASE k \notin DOMAIN results[r]
      <4>1. results'[r][k] = outcome
        BY <1>0, <2>1, <3>2
      <4>. QED  BY <1>0, <1>4, <4>1
    <3>. QED  BY <3>1, <3>2
  <2>2. ASSUME NEW k \in DOMAIN results'[r]
        PROVE  NamedWhole(r, results[r][k].movement, results[r][k].status)'
    <3>1. PICK m, st :
            /\ results'[r][k].movement = m /\ results'[r][k].status = st
            /\ NamedWhole(r, m, st)
      BY <2>1
    <3>2. NamedWhole(r, m, st)'
      BY <1>3, <3>1
    <3>. QED  BY <3>1, <3>2 DEF NamedWhole
  <2>. QED  BY <2>2 DEF ResultsWhole
<1>. QED  BY <1>1, <1>2, <1>5, WorkingSound

(* The transaction settles and is in the table, or the client is told that  *)
(* it failed; the answer comes last.                                        *)
LEMMA EndSound ==
  ASSUME TypeOK, MovesPlaced, NEW r \in Requests, Sound(r), BillingStep(r),
         BillCommit(r) \/ BillCommitFails(r) \/ BillReply(r)
  PROVE  Sound(r)'
<1>1. /\ pc[r] \in {"bill.commit", "bill.reply"}
      /\ \/ /\ pc[r] = "bill.commit" /\ pc'[r] = "bill.reply"
            /\ CommitPayments(r) /\ UNCHANGED reply
         \/ pc'[r] = "done" /\ reply'[r] = "error"
         \/ pc[r] = "bill.reply" /\ pc'[r] = "done" /\ UNCHANGED payments
      /\ tx'[r] = <<>> \/ tx'[r] = tx[r]
      /\ UNCHANGED <<movements, results, poisoned>>
  BY DEF BillCommit, BillCommitFails, BillReply, At, Goto, Reply, TypeOK
<1>2. reply[r] = "none"
  BY <1>1 DEF Sound, Answered
<1>4. Answered(r)' /\ Fresh(r)' /\ WorkWhole(r)' /\ ListDone(r)'
  BY <1>1, <1>2, ListDoneStep
  DEF Answered, Fresh, WorkWhole, MoveSteps, BillingSteps
<1>5. OwnPayments(r)'
  <2>1. DOMAIN tx'[r] \subseteq DOMAIN tx[r]
    BY <1>1
  <2>. QED  BY <1>1, <2>1 DEF Sound, OwnPayments
<1>6. ASSUME NEW m, NEW st, NamedWhole(r, m, st)
      PROVE  NamedWhole(r, m, st)'
  <2>1. m \in CreatedBy(r) => m \in CreatedBy(r)'
    BY <1>1 DEF CreatedBy
  <2>2. Whole(m) => Whole(m)'
    BY <1>1 DEF Whole
  <2>3. InTx(r, m) /\ ~poisoned[r] /\ CommitPayments(r) => Paid(m)'
    BY DEF CommitPayments, InTx, Paid
  <2>4. UNCHANGED payments /\ Paid(m) => Paid(m)'
    BY DEF Paid
  <2>. QED
    BY <1>1, <1>2, <1>6, <2>1, <2>2, <2>3, <2>4 DEF NamedWhole, Settled
<1>7. ResultsWhole(r)'
  <2>1. ASSUME NEW k \in DOMAIN results[r]
        PROVE  NamedWhole(r, results[r][k].movement, results[r][k].status)'
    <3>1. PICK m, st :
            /\ results'[r][k].movement = m /\ results'[r][k].status = st
            /\ NamedWhole(r, m, st)
      BY <1>1 DEF Sound, ResultsWhole
    <3>2. NamedWhole(r, m, st)'
      BY <1>6, <3>1
    <3>. QED  BY <3>1, <3>2 DEF NamedWhole
  <2>. QED  BY <1>1, <2>1 DEF ResultsWhole
<1>. QED  BY <1>4, <1>5, <1>7 DEF Sound

LEMMA BillingStepSound ==
  ASSUME TypeOK, MovesPlaced, NEW r \in Requests, Sound(r), BillingStep(r)
  PROVE  Sound(r)'
<1>1. CASE BillDates(r) \/ BillStageFails(r) \/ BillStageTimesOut(r)
  <2>1. PICK status :
          /\ NextContract(r, status)
          /\ status # "error" =>
               pc[r] = "bill.dates" /\ (status = "success" => payment[r])
    BY <1>1 DEF BillDates, BillStageFails, BillStageTimesOut, TypeOK
  <2>2. UNCHANGED <<payments, tx, poisoned>> /\ pc[r] \notin Settled
    BY <1>1
    DEF BillDates, BillStageFails, BillStageTimesOut, billingVars,
        BillingSteps, Settled
  <2>. QED  BY <2>1, <2>2, NextSound
<1>. QED
  BY <1>1, BeginSound, MovementSound, ItemSound, PaymentSound, LinkSound,
     EndSound
  DEF BillingStep
----------------------------------------------------------------------------
(* The invariant                                                            *)

LEMMA PaidBy ==
  ASSUME TypeOK, NEW m \in DOMAIN payments
  PROVE  m \in DOMAIN movements /\ movements[m].by \in Requests
<1>1. m \in DOMAIN movements /\ movements \in Seq(Movement)
  BY DEF TypeOK
<1>2. movements[m] \in Movement
  BY <1>1
<1>. QED  BY <1>1, <1>2 DEF Movement

LEMMA BillingsStepSound ==
  ASSUME TypeOK, MovesPlaced, BillingsSound, NEW r \in Requests,
         BillingStep(r)
  PROVE  BillingsSound'
<1>0. Sound(r) /\ reply[r] = "none"
  <2>1. Sound(r) /\ pc[r] # "done"
    BY BillingFrame DEF BillingsSound, BillingSteps
  <2>. QED  BY <2>1 DEF Sound, Answered
<1>1. \A s \in Requests : Sound(s)'
  BY <1>0, BillingStepSound, OthersSound DEF BillingsSound
<1>2. \A m \in notified' : m \in DOMAIN movements /\ Whole(m)
  <2>1. CASE BillReply(r)
    <3>1. ASSUME NEW m \in notified', m \notin notified
          PROVE  m \in DOMAIN movements /\ Whole(m)
      <4>1. PICK k \in DOMAIN results[r] :
              m = results[r][k].movement /\ m # 0
        BY <2>1, <3>1 DEF BillReply
      <4>2. NamedWhole(r, m, results[r][k].status)
        BY <1>0, <4>1 DEF Sound, ResultsWhole
      <4>. QED  BY <4>1, <4>2 DEF NamedWhole, CreatedBy
    <3>. QED  BY <3>1 DEF BillingsSound, TypeOK
  <2>2. CASE UNCHANGED notified
    BY <2>2 DEF BillingsSound, TypeOK
  <2>. QED
    BY <2>1, <2>2
    DEF BillingStep, BeginBilling, BillFind, BillMovement, BillItem,
        BillPayment, BillLink, BillDates, BillStageFails, BillStageTimesOut,
        BillCommit, BillCommitFails, billingVars
<1>3. \A m \in notified' : Whole(m)'
  BY <1>0, <1>2, TableFrame
<1>4. ASSUME NEW m \in DOMAIN payments', NEW q, q = movements'[m].by
      PROVE  /\ pc'[q] \in Settled
             /\ list'[q] = <<>> /\ ~poisoned'[q]
             /\ \A k \in DOMAIN results'[q] :
                  results'[q][k].status = "success" =>
                    Paid(results[q][k].movement)'
  <2>1. CASE m \in DOMAIN payments /\ movements[m].by # r
    <3>0. m \in DOMAIN movements /\ q = movements[m].by /\ q \in Requests \ {r}
      <4>1. m \in DOMAIN movements /\ movements[m].by \in Requests
        BY <2>1, PaidBy
      <4>. QED  BY <1>0, <1>4, <2>1, <4>1, TableFrame
    <3>1. /\ pc[q] \in Settled /\ list[q] = <<>> /\ ~poisoned[q]
          /\ \A k \in DOMAIN results[q] :
               results[q][k].status = "success" =>
                 Paid(results[q][k].movement)
      BY <2>1, <3>0 DEF BillingsSound, PaidTogether
    <3>2. /\ pc'[q] = pc[q] /\ list'[q] = list[q]
          /\ poisoned'[q] = poisoned[q] /\ results'[q] = results[q]
      BY <1>0, <3>0, RequestFrame, BillingFrame
    <3>3. ASSUME NEW k \in DOMAIN results[q],
                 results[q][k].status = "success"
          PROVE  Paid(results[q][k].movement)'
      <4>0. PICK n : n = results[q][k].movement
        OBVIOUS
      <4>1. NamedWhole(q, n, "success")
        BY <3>0, <3>3, <4>0 DEF BillingsSound, Sound, ResultsWhole
      <4>2. n \in DOMAIN movements /\ movements[n].by # r
        BY <3>0, <4>1 DEF NamedWhole, CreatedBy
      <4>3. Paid(n) /\ results'[q][k].movement = n
        BY <3>1, <3>2, <3>3, <4>0
      <4>4. Paid(n)'
        BY <1>0, <4>2, <4>3, PaymentFrame
      <4>. QED  BY <4>3, <4>4 DEF Paid
    <3>. QED  BY <3>1, <3>2, <3>3
  <2>2. CASE m \in DOMAIN payments /\ movements[m].by = r
    <3>0. m \in DOMAIN movements
      BY <2>2, PaidBy
    <3>1. pc[r] = "bill.reply"
      BY <2>2, BillingFrame DEF BillingsSound, Settled, BillingSteps
    <3>2. BillReply(r)
      BY <3>1
      DEF BillingStep, BeginBilling, Starts, BillFind, BillMovement, BillItem,
          BillPayment, BillLink, BillDates, BillStageFails, BillStageTimesOut,
          BillCommit, BillCommitFails, At
    <3>3. /\ pc'[r] = "done"
          /\ UNCHANGED <<list, poisoned, results, payments, movements>>
      BY <3>2 DEF BillReply, At, Reply, TypeOK
    <3>4. /\ list[r] = <<>> /\ ~poisoned[r]
          /\ \A k \in DOMAIN results[r] :
               results[r][k].status = "success" =>
                 Paid(results[r][k].movement)
      BY <2>2 DEF BillingsSound, PaidTogether
    <3>. QED  BY <1>4, <2>2, <3>3, <3>4 DEF Paid, Settled
  <2>3. CASE m \notin DOMAIN payments
    <3>1. /\ pc[r] = "bill.commit" /\ CommitPayments(r)
          /\ BillCommit(r) \/ BillCommitFails(r)
      BY <1>4, <2>3, WhoPays
    <3>2. m \in DOMAIN tx[r] /\ ~poisoned[r]
      BY <1>4, <2>3, <3>1 DEF CommitPayments
    <3>3. m \in DOMAIN movements /\ movements[m].by = r
      BY <1>0, <3>2 DEF Sound, OwnPayments, MovesPlaced
    <3>4. /\ pc'[r] \in Settled
          /\ UNCHANGED <<list, poisoned, results, movements>>
      BY <3>1 DEF BillCommit, BillCommitFails, At, Goto, Reply, Settled, TypeOK
    <3>5. list[r] = <<>>
      BY <1>0, <3>1 DEF Sound, ListDone
    <3>6. ASSUME NEW k \in DOMAIN results[r],
                 results[r][k].status = "success"
          PROVE  Paid(results[r][k].movement)'
      <4>0. PICK n : n = results[r][k].movement
        OBVIOUS
      <4>1. NamedWhole(r, n, "success")
        BY <1>0, <3>6, <4>0 DEF Sound, ResultsWhole
      <4>2. InTx(r, n)
        BY <3>1, <3>2, <4>1 DEF NamedWhole, Settled
      <4>3. results'[r][k].movement = n
        BY <3>4, <4>0
      <4>4. Paid(n)'
        BY <3>1, <3>2, <4>2 DEF CommitPayments, InTx, Paid
      <4>. QED  BY <4>3, <4>4 DEF Paid
    <3>7. q = r
      BY <1>4, <3>3, <3>4
    <3>. QED  BY <3>2, <3>4, <3>5, <3>6, <3>7
  <2>. QED  BY <2>1, <2>2, <2>3
<1>5. /\ \A m \in DOMAIN payments' : pc'[movements'[m].by] \in Settled
      /\ PaidTogether'
  BY <1>4 DEF PaidTogether
<1>. QED  BY <1>1, <1>3, <1>5 DEF BillingsSound

LEMMA OutsideReplies ==
  ASSUME TypeOK, NEW r \in Requests,
         \/ TerminationStep(r) \/ AdjustDateStep(r) \/ AdjustmentStep(r)
         \/ \E c \in Contracts : UpdateContract(r, c)
  PROVE  /\ pc[r] \notin {"done", "dead"}
         /\ reply'[r] = reply[r] \/ pc'[r] = "done"
         /\ \A s \in Requests \ {r} : reply'[s] = reply[s]
<1>. USE DEF Goto, Reply, At, Starts
<1>0. /\ pc \in [Requests -> PCs]
      /\ reply \in [Requests -> {"none", "ok", "error"}]
  BY DEF TypeOK
<1>1. CASE TerminationStep(r)
  BY <1>0, <1>1
  DEF TerminationStep, BeginTermination, TerminationUpdate,
      TerminationHistory, TerminationReply, TerminationFails, Inactivate,
      RecordTermination
<1>2. CASE AdjustDateStep(r)
  BY <1>0, <1>2
  DEF AdjustDateStep, AdjustDate, AdjustDateHistory, AdjustDateFails
<1>3. CASE AdjustmentStep(r)
  BY <1>0, <1>3
  DEF AdjustmentStep, BeginAdjustment, AdjustmentLock, AdjustmentRead,
      AdjustmentCommit, AdjustmentFails
<1>4. CASE \E c \in Contracts : UpdateContract(r, c)
  BY <1>0, <1>4 DEF UpdateContract
<1>. QED  BY <1>1, <1>2, <1>3, <1>4

LEMMA OutsideSound ==
  ASSUME TypeOK, BillingsSound, NEW r \in Requests,
         \/ TerminationStep(r) \/ AdjustDateStep(r) \/ AdjustmentStep(r)
         \/ \E c \in Contracts : UpdateContract(r, c)
  PROVE  BillingsSound'
<1>1. /\ UNCHANGED <<billingVars, move, payment, tx, poisoned, results>>
      /\ pc[r] \notin BillingSteps /\ pc'[r] \notin BillingSteps
      /\ \A s \in Requests \ {r} :
           pc'[s] = pc[s] /\ list'[s] = list[s] /\ reply'[s] = reply[s]
      /\ pc[r] \notin {"done", "dead"}
      /\ reply'[r] = reply[r] \/ pc'[r] = "done"
  BY OutsideFrame, OutsideReplies DEF OutsideBilling
<1>2. Sound(r) /\ results[r] = <<>> /\ reply[r] = "none"
  BY <1>1 DEF BillingsSound, Sound, Fresh, Answered
<1>3. Sound(r)'
  <2>1. Answered(r)' /\ Fresh(r)' /\ ListDone(r)'
    BY <1>1, <1>2 DEF Answered, Fresh, ListDone, BillingSteps
  <2>2. OwnPayments(r)' /\ WorkWhole(r)'
    BY <1>1, <1>2
    DEF Sound, OwnPayments, WorkWhole, billingVars, MoveSteps, BillingSteps
  <2>3. DOMAIN results'[r] = {}
    BY <1>1, <1>2
  <2>. QED  BY <2>1, <2>2, <2>3 DEF Sound, ResultsWhole
<1>4. ASSUME NEW s \in Requests \ {r}
      PROVE  Sound(s)'
  BY <1>1
  DEF BillingsSound, Sound, Answered, ListDone, Fresh, OwnPayments, WorkWhole,
      InTx, ResultsWhole, NamedWhole, CreatedBy, Whole, Paid, billingVars
<1>5. /\ \A m \in DOMAIN payments' : pc'[movements'[m].by] \in Settled
      /\ PaidTogether'
  <2>1. \A m \in DOMAIN payments :
          movements[m].by \in Requests /\ movements[m].by # r
    BY <1>1, PaidBy DEF BillingsSound, Settled, BillingSteps
  <2>. QED
    BY <1>1, <2>1 DEF BillingsSound, PaidTogether, Paid, billingVars
<1>. QED
  BY <1>1, <1>3, <1>4, <1>5 DEF BillingsSound, Whole, billingVars

LEMMA BillingsNextSound ==
  TypeOK /\ MovesPlaced /\ BillingsSound /\ [Next]_vars => BillingsSound'
<1>. SUFFICES ASSUME TypeOK, MovesPlaced, BillingsSound, [Next]_vars
              PROVE  BillingsSound'
  OBVIOUS
<1>1. CASE Crash
  <2>1. ASSUME NEW s \in Requests
        PROVE  Sound(s)'
    <3>1. /\ pc'[s] \in Ended /\ pc'[s] \notin MoveSteps
          /\ pc[s] \in Ended => pc'[s] = pc[s]
          /\ pc[s] \notin Ended => pc'[s] = "dead"
          /\ UNCHANGED <<billingVars, list, move, payment, tx, poisoned,
                         results, reply>>
      BY <1>1 DEF Crash, Ended, MoveSteps
    <3>2. Answered(s)' /\ Fresh(s)' /\ ListDone(s)'
      BY <3>1
      DEF BillingsSound, Sound, Answered, Fresh, ListDone, Ended, BillingSteps
    <3>3. OwnPayments(s)' /\ WorkWhole(s)'
      BY <3>1
      DEF BillingsSound, Sound, OwnPayments, WorkWhole, billingVars
    <3>4. /\ pc[s] \notin Settled \/ pc'[s] \in Settled
          /\ pc'[s] \notin Settled => pc[s] \notin Settled
          /\ pc'[s] # "bill.reply"
      BY <3>1 DEF Settled, Ended
    <3>5. ResultsWhole(s)'
      BY <3>1, <3>4
      DEF BillingsSound, Sound, ResultsWhole, NamedWhole, CreatedBy, Whole,
          InTx, Paid, billingVars
    <3>. QED  BY <3>2, <3>3, <3>5 DEF Sound
  <2>2. /\ \A m \in DOMAIN payments' : pc'[movements'[m].by] \in Settled
        /\ PaidTogether'
    <3>1. \A s \in Requests : pc[s] \in Settled => pc'[s] \in Settled
      BY <1>1 DEF Crash, Settled, Ended
    <3>2. \A m \in DOMAIN payments : movements[m].by \in Requests
      BY PaidBy
    <3>. QED
      BY <1>1, <3>1, <3>2
      DEF Crash, BillingsSound, PaidTogether, Paid, billingVars
  <2>. QED
    BY <1>1, <2>1, <2>2 DEF Crash, BillingsSound, Whole, billingVars
<1>2. CASE UNCHANGED vars
  BY <1>2
  DEF vars, requestVars, billingVars, BillingsSound, Sound, Answered,
      ListDone, Fresh, OwnPayments, WorkWhole, ResultsWhole, NamedWhole,
      CreatedBy, Whole, InTx, Paid, PaidTogether
<1>. QED
  BY <1>1, <1>2, BillingsStepSound, OutsideSound DEF Next, RequestStep

LEMMA BillingsInvariant == Spec => []BillingsSound
<1>1. Init => BillingsSound
  BY DEF Init, BillingsSound, Sound, Answered, ListDone, Fresh, OwnPayments,
         WorkWhole, MoveSteps, ResultsWhole, PaidTogether
<1>. QED  BY <1>1, BillingsNextSound, ContractInvariant, PTL DEF Spec

(* What a result names has its items and its link, and its payment when the *)
(* request is answered with success and its transaction was not failed; so  *)
(* has what a client is notified of.                                        *)
THEOREM BillingResultsWhole == Spec => []ResultsAreWhole
<1>1. BillingsSound => ResultsAreWhole
  <2>. SUFFICES ASSUME BillingsSound PROVE ResultsAreWhole
    OBVIOUS
  <2>1. ASSUME NEW r \in Requests, NEW k \in DOMAIN results[r]
        PROVE  NamedWhole(r, results[r][k].movement, results[r][k].status)
    BY DEF BillingsSound, Sound, ResultsWhole
  <2>. QED  BY <2>1 DEF BillingsSound, ResultsAreWhole, NamedWhole
<1>. QED  BY <1>1, BillingsInvariant, PTL

(* A billing leaves all of its payments or none, and none before it has     *)
(* dealt with its list or once a statement of its transaction has failed,   *)
(* whether or not it is answered, its COMMIT raises or the process ends.    *)
THEOREM BillingPaysTogether == Spec => []PaidTogether
BY BillingsInvariant, PTL DEF BillingsSound

----------------------------------------------------------------------------
(* Terminations                                                             *)

TermSteps == {"term.update", "term.history", "term.reply"}

(* What a termination is doing where it stands. From its history on the     *)
(* contract is inactive, by itself or by another, unless a PUT has come     *)
(* between.                                                                 *)
TermAt(r) ==
  /\ reply[r] # "none" => pc[r] = "done"
  /\ op[r] = "terminate" => pc[r] \in TermSteps \cup {"done", "dead"}
  /\ pc[r] \in TermSteps => \E c \in Contracts :
       /\ TerminationOf(r, c)
       /\ pc[r] # "term.update" /\ c \notin operated => ~active[c]

TermPlaced == \A r \in Requests : TermAt(r)

(* The requests that have begun: only so many can have come to a COMMIT.    *)
Begun == {r \in Requests : pc[r] # "idle"}

(* The terminations whose row the server has acknowledged.                  *)
Completed(c) ==
  {r \in Requests : TerminationOf(r, c)
     /\ (pc[r] = "term.reply" \/ reply[r] = "ok")}

Counted(c) ==
  /\ Cardinality(Completed(c)) <= terminations[c]
  /\ terminations[c] <= Cardinality(CameToCommit(c))

(* r accounts for c being inactive.                                         *)
Accounts(r, c) ==
  /\ TerminationOf(r, c)
  /\ pc[r] \in {"term.history", "term.reply", "dead"} \/ reply[r] # "none"

Explained(c) ==
  /\ Successes(c) # {} => ~active[c]
  /\ ~active[c] => \E r \in Requests : Accounts(r, c)

TermsSound ==
  /\ TermPlaced
  /\ IsFiniteSet(Begun)
  /\ \A c \in Contracts : Counted(c)
  /\ \A c \in Contracts \ operated : Explained(c)

LEMMA CommitBegun ==
  ASSUME TermPlaced, NEW c \in Contracts
  PROVE  CameToCommit(c) \subseteq Begun /\ Completed(c) \subseteq Begun
BY DEF TermPlaced, TermAt, CameToCommit, Completed, Begun

(* A step of r lets r begin, at most.                                       *)
LEMMA BegunFinite ==
  ASSUME TermsSound, NEW r \in Requests,
         \A s \in Requests \ {r} : pc'[s] = pc[s]
  PROVE  IsFiniteSet(Begun')
<1>1. IsFiniteSet(Begun \cup {r})
  BY FS_AddElement DEF TermsSound
<1>2. Begun' \subseteq Begun \cup {r}
  BY DEF Begun
<1>. QED  BY <1>1, <1>2, FS_Subset

(* A count stays right while no row is written, nothing completes, and what *)
(* has come to a COMMIT stays there.                                        *)
LEMMA CountedKept ==
  ASSUME TypeOK, TermsSound, TermPlaced', IsFiniteSet(Begun'),
         NEW c \in Contracts, terminations'[c] = terminations[c],
         Completed(c)' \subseteq Completed(c),
         CameToCommit(c) \subseteq CameToCommit(c)'
  PROVE  Counted(c)'
<1>1. IsFiniteSet(Completed(c)) /\ IsFiniteSet(CameToCommit(c)')
  <2>1. CameToCommit(c)' \subseteq Begun'
    BY CommitBegun DEF TermPlaced, TermAt, CameToCommit, Begun
  <2>2. Completed(c) \subseteq Begun
    BY CommitBegun DEF TermsSound
  <2>. QED  BY <2>1, <2>2, FS_Subset DEF TermsSound
<1>2. /\ Cardinality(Completed(c)') <= Cardinality(Completed(c))
      /\ Cardinality(Completed(c)') \in Nat /\ Cardinality(Completed(c)) \in Nat
  BY <1>1, FS_Subset, FS_CardinalityType
<1>3. /\ Cardinality(CameToCommit(c)) <= Cardinality(CameToCommit(c)')
      /\ Cardinality(CameToCommit(c)) \in Nat
      /\ Cardinality(CameToCommit(c)') \in Nat
  BY <1>1, FS_Subset, FS_CardinalityType
<1>4. terminations[c] \in Nat
  BY DEF TypeOK
<1>. QED  BY <1>2, <1>3, <1>4 DEF TermsSound, Counted

(* Where a termination stands it stays, whatever the others do.             *)
LEMMA TermAtKept ==
  ASSUME NEW r \in Requests, TermAt(r),
         op'[r] = op[r], pc'[r] = pc[r], list'[r] = list[r],
         reply'[r] = reply[r], operated \subseteq operated',
         \A c \in Contracts \ operated' : ~active[c] => ~active'[c]
  PROVE  TermAt(r)'
<1>1. /\ reply'[r] # "none" => pc'[r] = "done"
      /\ op'[r] = "terminate" => pc'[r] \in TermSteps \cup {"done", "dead"}
  BY DEF TermAt
<1>2. ASSUME pc'[r] \in TermSteps
      PROVE  \E c \in Contracts :
               /\ TerminationOf(r, c)'
               /\ pc'[r] # "term.update" /\ c \notin operated' => ~active'[c]
  <2>1. PICK c \in Contracts :
          /\ TerminationOf(r, c)
          /\ pc[r] # "term.update" /\ c \notin operated => ~active[c]
    BY <1>2 DEF TermAt
  <2>. QED  BY <2>1 DEF TerminationOf
<1>. QED  BY <1>1, <1>2 DEF TermAt

(* A request that is no termination leaves them all alone, but for a PUT.   *)
LEMMA NoTermination ==
  ASSUME TypeOK, TermsSound, NEW r \in Requests,
         op[r] # "terminate", op'[r] # "terminate", pc'[r] \notin TermSteps,
         reply'[r] = "none" \/ pc'[r] = "done",
         \A s \in Requests \ {r} :
           /\ op'[s] = op[s] /\ pc'[s] = pc[s]
           /\ list'[s] = list[s] /\ reply'[s] = reply[s],
         UNCHANGED terminations, operated \subseteq operated',
         \A c \in Contracts \ operated' : active'[c] = active[c]
  PROVE  TermsSound'
<1>1. TermPlaced'
  <2>1. TermAt(r)'
    BY DEF TermAt
  <2>2. ASSUME NEW s \in Requests \ {r}
        PROVE  TermAt(s)'
    BY TermAtKept DEF TermsSound, TermPlaced
  <2>. QED  BY <2>1, <2>2 DEF TermPlaced
<1>2. ASSUME NEW c \in Contracts
      PROVE  /\ Successes(c)' = Successes(c) /\ Completed(c)' = Completed(c)
             /\ CameToCommit(c)' = CameToCommit(c)
             /\ \A s \in Requests : Accounts(s, c) => Accounts(s, c)'
  BY DEF Successes, Completed, CameToCommit, Accounts, TerminationOf
<1>3. IsFiniteSet(Begun')
  BY BegunFinite
<1>4. ASSUME NEW c \in Contracts
      PROVE  Counted(c)'
  BY <1>1, <1>2, <1>3, CountedKept
<1>5. ASSUME NEW c \in Contracts \ operated'
      PROVE  Explained(c)'
  <2>1. Explained(c)
    BY DEF TermsSound
  <2>. QED  BY <1>2, <2>1 DEF Explained
<1>. QED  BY <1>1, <1>3, <1>4, <1>5 DEF TermsSound

(* What the requests that are no terminations change of what counts here.   *)
LEMMA OthersTerminate ==
  ASSUME TypeOK, TermsSound, NEW r \in Requests,
         \/ BillingStep(r) \/ AdjustDateStep(r) \/ AdjustmentStep(r)
         \/ \E c \in Contracts : UpdateContract(r, c)
  PROVE  TermsSound'
<1>0. /\ pc \in [Requests -> PCs] /\ list \in [Requests -> Seq(Contracts)]
      /\ op \in [Requests -> AllOps \cup {"none"}]
      /\ reply \in [Requests -> {"none", "ok", "error"}]
  BY DEF TypeOK
<1>1. CASE BillingStep(r)
  <2>1. /\ UNCHANGED <<active, operated, terminations>>
        /\ pc[r] \in BillingSteps \cup {"idle"}
        /\ pc'[r] \in BillingSteps \cup {"done"}
        /\ \A s \in Requests \ {r} : pc'[s] = pc[s] /\ list'[s] = list[s]
    BY <1>1, BillingFrame DEF InsideBilling, historyVars
  <2>2. \A s \in Requests \ {r} : reply'[s] = reply[s]
    BY <1>1, RequestFrame
  <2>3. \/ UNCHANGED op
        \/ op' = [op EXCEPT ![r] = "billing"]
    BY <1>1
    DEF BillingStep, BeginBilling, Starts, At, BillFind, BillMovement,
        BillItem, BillPayment, BillLink, BillDates, BillStageFails,
        BillStageTimesOut, NextContract, BillCommit, BillCommitFails,
        BillReply
  <2>4. reply'[r] = reply[r] \/ pc'[r] = "done"
    BY <1>0, <1>1
    DEF BillingStep, BeginBilling, Goto, Reply, BillFind, BillMovement,
        BillItem, BillPayment, BillLink, BillDates, BillStageFails,
        BillStageTimesOut, NextContract, BillCommit, BillCommitFails,
        BillReply
  <2>5. op[r] # "terminate" /\ reply[r] = "none"
    BY <2>1 DEF TermsSound, TermPlaced, TermAt, TermSteps, BillingSteps
  <2>6. op'[r] # "terminate" /\ \A s \in Requests \ {r} : op'[s] = op[s]
    BY <1>0, <2>3, <2>5
  <2>. QED
    BY <2>1, <2>2, <2>4, <2>5, <2>6, NoTermination DEF BillingSteps, TermSteps
<1>2. CASE \/ AdjustDateStep(r) \/ AdjustmentStep(r)
           \/ \E c \in Contracts : UpdateContract(r, c)
  <2>. USE DEF Starts, At, Goto, Reply
  <2>1. /\ \A s \in Requests \ {r} :
             /\ pc'[s] = pc[s] /\ list'[s] = list[s] /\ reply'[s] = reply[s]
        /\ reply'[r] = reply[r] \/ pc'[r] = "done"
    BY <1>2, OutsideFrame, OutsideReplies
  <2>2. /\ pc[r] \notin TermSteps \cup {"done", "dead"}
        /\ pc'[r] \notin TermSteps
        /\ \/ UNCHANGED op
           \/ \E o \in AllOps \ {"terminate"} : op' = [op EXCEPT ![r] = o]
    BY <1>0, <1>2
    DEF AdjustDateStep, AdjustDate, AdjustDateHistory, AdjustDateFails,
        AdjustmentStep, BeginAdjustment, AdjustmentLock, AdjustmentRead,
        AdjustmentCommit, AdjustmentFails, UpdateContract, AllOps, TermSteps
  <2>3. op[r] # "terminate" /\ reply[r] = "none"
    BY <2>2 DEF TermsSound, TermPlaced, TermAt
  <2>4. op'[r] # "terminate" /\ \A s \in Requests \ {r} : op'[s] = op[s]
    BY <1>0, <2>2, <2>3
  <2>5. /\ UNCHANGED terminations /\ operated \subseteq operated'
        /\ \A c \in Contracts \ operated' : active'[c] = active[c]
    BY <1>2
    DEF AdjustDateStep, AdjustDate, AdjustDateHistory, AdjustDateFails,
        SetDate, AdjustmentStep, BeginAdjustment, AdjustmentLock,
        AdjustmentRead, AdjustmentCommit, AdjustmentFails, UpdateContract,
        TypeOK, contractVars, historyVars
  <2>. QED  BY <2>1, <2>2, <2>3, <2>4, <2>5, NoTermination
<1>. QED  BY <1>1, <1>2

(* The contract a termination is at work on.                                *)
LEMMA TerminationAt ==
  ASSUME TermsSound, NEW r \in Requests, pc[r] \in TermSteps
  PROVE  \E c \in Contracts :
           /\ TerminationOf(r, c) /\ Now(r) = c
           /\ pc[r] # "term.update" /\ c \notin operated => ~active[c]
<1>1. PICK c \in Contracts :
        /\ TerminationOf(r, c)
        /\ pc[r] # "term.update" /\ c \notin operated => ~active[c]
  BY DEF TermsSound, TermPlaced, TermAt
<1>2. Head(<<c>>) = c
  OBVIOUS
<1>. QED  BY <1>1, <1>2 DEF TerminationOf, Now

(* A step of a termination that writes no row.                              *)
LEMMA TerminationGoesOn ==
  ASSUME TypeOK, TermsSound, NEW r \in Requests, UNCHANGED terminations,
         \/ \E c \in Contracts : BeginTermination(r, c)
         \/ TerminationUpdate(r) \/ TerminationReply(r) \/ TerminationFails(r)
  PROVE  TermsSound'
<1>0. /\ pc \in [Requests -> PCs] /\ list \in [Requests -> Seq(Contracts)]
      /\ op \in [Requests -> AllOps \cup {"none"}]
      /\ reply \in [Requests -> {"none", "ok", "error"}]
      /\ active \in [Contracts -> BOOLEAN]
  BY DEF TypeOK
<1>. USE DEF Starts, At, Goto, Reply
<1>1. /\ UNCHANGED operated
      /\ \A s \in Requests \ {r} :
           /\ op'[s] = op[s] /\ pc'[s] = pc[s]
           /\ list'[s] = list[s] /\ reply'[s] = reply[s]
      /\ pc[r] \in TermSteps \cup {"idle"}
      /\ reply[r] = "none"
      /\ reply'[r] # "none" => pc'[r] = "done"
  BY <1>0
  DEF BeginTermination, TerminationUpdate, TerminationReply, TerminationFails,
      contractVars, TermsSound, TermPlaced, TermAt, TermSteps
<1>2. PICK c \in Contracts :
        /\ TerminationOf(r, c)'
        /\ pc[r] = "idle" \/ TerminationOf(r, c)
        /\ \A d \in Contracts \ {c} : active'[d] = active[d]
        /\ ~active[c] => ~active'[c]
        /\ \/ pc[r] = "idle" /\ pc'[r] = "term.update" /\ UNCHANGED active
                /\ reply'[r] = "none"
           \/ pc[r] = "idle" /\ pc'[r] = "term.history" /\ ~active'[c]
                /\ reply'[r] = "none"
           \/ pc[r] = "term.update" /\ pc'[r] = "term.history" /\ ~active'[c]
                /\ reply'[r] = "none"
           \/ pc[r] = "term.reply" /\ pc'[r] = "done" /\ reply'[r] = "ok"
                /\ (c \notin operated => ~active'[c])
           \/ pc[r] \in {"term.update", "term.history"} /\ pc'[r] = "done"
                /\ reply'[r] = "error"
  <2>1. ASSUME NEW c \in Contracts, BeginTermination(r, c)
        PROVE  /\ TerminationOf(r, c)' /\ pc[r] = "idle"
               /\ UNCHANGED active /\ reply'[r] = "none"
               /\ \/ pc'[r] = "term.update"
                  \/ pc'[r] = "term.history" /\ ~active[c]
    <3>1. op'[r] = "terminate" /\ list'[r] = <<c>> /\ pc[r] = "idle"
      BY <1>0, <2>1 DEF BeginTermination
    <3>2. pc'[r] = IF active[c] THEN "term.update" ELSE "term.history"
      BY <1>0, <2>1 DEF BeginTermination
    <3>3. UNCHANGED active /\ reply'[r] = reply[r]
      BY <2>1 DEF BeginTermination, contractVars
    <3>. QED  BY <1>1, <3>1, <3>2, <3>3, Zenon DEF TerminationOf
  <2>2. CASE TerminationUpdate(r)
    <3>1. pc[r] = "term.update" /\ pc[r] \in TermSteps
      BY <2>2 DEF TerminationUpdate, TermSteps
    <3>2. PICK c \in Contracts : TerminationOf(r, c) /\ Now(r) = c
      BY <3>1, TerminationAt
    <3>3. active' = [active EXCEPT ![c] = FALSE] /\ reply'[r] = "none"
      BY <1>1, <2>2, <3>2 DEF TerminationUpdate, Inactivate
    <3>4. TerminationOf(r, c)' /\ pc'[r] = "term.history"
      BY <1>0, <2>2, <3>2 DEF TerminationUpdate, TerminationOf
    <3>. QED  BY <1>0, <3>1, <3>2, <3>3, <3>4
  <2>3. CASE TerminationReply(r)
    <3>1. pc[r] = "term.reply" /\ pc[r] \in TermSteps
      BY <2>3 DEF TerminationReply, TermSteps
    <3>2. PICK c \in Contracts :
            TerminationOf(r, c) /\ (c \notin operated => ~active[c])
      BY <3>1, TerminationAt
    <3>3. UNCHANGED active /\ TerminationOf(r, c)'
          /\ pc'[r] = "done" /\ reply'[r] = "ok"
      BY <1>0, <2>3, <3>2 DEF TerminationReply, TerminationOf, contractVars
    <3>. QED  BY <3>1, <3>2, <3>3
  <2>4. CASE TerminationFails(r)
    <3>1. pc[r] \in {"term.update", "term.history"} /\ pc[r] \in TermSteps
      BY <2>4 DEF TerminationFails, TermSteps
    <3>2. PICK c \in Contracts : TerminationOf(r, c) /\ Now(r) = c
      BY <3>1, TerminationAt
    <3>3. \/ UNCHANGED active
          \/ active' = [active EXCEPT ![c] = FALSE]
      BY <2>4, <3>2 DEF TerminationFails, Inactivate
    <3>4. TerminationOf(r, c)' /\ pc'[r] = "done" /\ reply'[r] = "error"
      BY <1>0, <2>4, <3>2 DEF TerminationFails, TerminationOf
    <3>. QED  BY <1>0, <3>1, <3>2, <3>3, <3>4
  <2>. QED
    <3>1. CASE \E b \in Contracts : BeginTermination(r, b)
      <4>1. PICK b \in Contracts : BeginTermination(r, b)
        BY <3>1
      <4>. QED  BY <2>1, <4>1
    <3>. QED  BY <2>2, <2>3, <2>4, <3>1
<1>3. ASSUME NEW d \in Contracts
      PROVE  /\ Completed(d)' = Completed(d)
             /\ CameToCommit(d) \subseteq CameToCommit(d)'
             /\ \A s \in Requests : Accounts(s, d) => Accounts(s, d)'
             /\ Successes(d)' \subseteq Successes(d) \cup {r}
             /\ r \in Successes(d)' => d = c /\ pc[r] = "term.reply"
  <2>1. ASSUME NEW s \in Requests \ {r}
        PROVE  /\ TerminationOf(s, d)' <=> TerminationOf(s, d)
               /\ pc'[s] = pc[s] /\ reply'[s] = reply[s]
    BY <1>1 DEF TerminationOf
  <2>2. /\ pc[r] = "idle" \/ (TerminationOf(r, d) <=> TerminationOf(r, d)')
        /\ TerminationOf(r, d)' => d = c
    <3>1. <<c>> = <<d>> => c = d
      OBVIOUS
    <3>. QED  BY <1>2, <3>1 DEF TerminationOf
  <2>3. r \in Completed(d)' <=> r \in Completed(d)
    BY <1>1, <1>2, <2>2 DEF Completed
  <2>4. /\ r \in CameToCommit(d) => r \in CameToCommit(d)'
        /\ Accounts(r, d) => Accounts(r, d)'
    BY <1>1, <1>2, <2>2 DEF CameToCommit, Accounts
  <2>5. r \in Successes(d)' => d = c /\ pc[r] = "term.reply"
    BY <1>2, <2>2 DEF Successes
  <2>6. Completed(d)' = Completed(d)
    BY <2>1, <2>3 DEF Completed
  <2>7. CameToCommit(d) \subseteq CameToCommit(d)'
    BY <2>1, <2>4 DEF CameToCommit
  <2>8. \A s \in Requests : Accounts(s, d) => Accounts(s, d)'
    BY <2>1, <2>4 DEF Accounts
  <2>9. Successes(d)' \subseteq Successes(d) \cup {r}
    BY <2>1 DEF Successes
  <2>. QED  BY <2>5, <2>6, <2>7, <2>8, <2>9
<1>4. \A d \in Contracts : ~active[d] => ~active'[d]
  BY <1>0, <1>2
<1>5. TermPlaced'
  <2>1. ASSUME NEW s \in Requests \ {r}
        PROVE  TermAt(s)'
    BY <1>1, <1>4, TermAtKept DEF TermsSound, TermPlaced
  <2>2. TermAt(r)'
    BY <1>1, <1>2 DEF TermAt, TermSteps
  <2>. QED  BY <2>1, <2>2 DEF TermPlaced
<1>6. IsFiniteSet(Begun')
  BY <1>1, BegunFinite
<1>7. ASSUME NEW d \in Contracts
      PROVE  Counted(d)'
  BY <1>3, <1>5, <1>6, CountedKept
<1>8. ASSUME NEW d \in Contracts \ operated
      PROVE  Explained(d)'
  <2>0. Explained(d)
    BY DEF TermsSound
  <2>1. Successes(d)' # {} => ~active'[d]
    <3>1. CASE r \in Successes(d)'
      BY <1>2, <1>3, <3>1
    <3>2. CASE r \notin Successes(d)'
      BY <1>3, <1>4, <2>0, <3>2 DEF Explained
    <3>. QED  BY <3>1, <3>2
  <2>2. ASSUME ~active'[d] PROVE \E s \in Requests : Accounts(s, d)'
    <3>1. CASE ~active[d]
      BY <1>3, <2>0, <3>1 DEF Explained
    <3>2. CASE active[d]
      BY <1>0, <1>2, <2>2, <3>2 DEF Accounts
    <3>. QED  BY <1>0, <3>1, <3>2
  <2>. QED  BY <2>1, <2>2 DEF Explained
<1>. QED  BY <1>1, <1>5, <1>6, <1>7, <1>8 DEF TermsSound

(* The row: one more, and one more termination that came to its COMMIT,     *)
(* whether or not the COMMIT raised.                                        *)
LEMMA TerminationRecords ==
  ASSUME TypeOK, TermsSound, NEW r \in Requests, RecordTermination(r),
         TerminationHistory(r) \/ TerminationFails(r)
  PROVE  TermsSound'
<1>0. /\ pc \in [Requests -> PCs]
      /\ reply \in [Requests -> {"none", "ok", "error"}]
      /\ terminations \in [Contracts -> Nat]
  BY DEF TypeOK
<1>1. PICK c \in Contracts :
        /\ TerminationOf(r, c) /\ Now(r) = c
        /\ c \notin operated => ~active[c]
  BY TerminationAt DEF RecordTermination, TermSteps
<1>2. /\ terminations' = [terminations EXCEPT ![c] = @ + 1]
      /\ UNCHANGED <<op, list, active, operated>>
      /\ pc[r] = "term.history" /\ reply[r] = "none"
      /\ \/ pc'[r] = "term.reply" /\ reply'[r] = "none"
         \/ pc'[r] = "done" /\ reply'[r] = "error"
      /\ \A s \in Requests \ {r} : pc'[s] = pc[s] /\ reply'[s] = reply[s]
  <2>1. pc[r] = "term.history" /\ reply[r] = "none"
    BY DEF RecordTermination, TermsSound, TermPlaced, TermAt
  <2>. QED
    BY <1>0, <1>1, <2>1
    DEF TerminationHistory, TerminationFails, RecordTermination, Inactivate,
        At, Goto, Reply, contractVars
<1>3. /\ Completed(c)' \subseteq Completed(c) \cup {r}
      /\ CameToCommit(c)' = CameToCommit(c) \cup {r}
      /\ r \notin CameToCommit(c)
  BY <1>1, <1>2 DEF Completed, CameToCommit, TerminationOf
<1>4. ASSUME NEW d \in Contracts
      PROVE  /\ d # c => /\ Completed(d)' = Completed(d)
                         /\ CameToCommit(d)' = CameToCommit(d)
             /\ Successes(d)' = Successes(d)
             /\ \A s \in Requests : Accounts(s, d) => Accounts(s, d)'
  <2>1. <<c>> = <<d>> => c = d
    OBVIOUS
  <2>. QED
    BY <1>1, <1>2, <2>1
    DEF Completed, CameToCommit, Successes, Accounts, TerminationOf
<1>5. TermPlaced'
  <2>1. ASSUME NEW s \in Requests \ {r}
        PROVE  TermAt(s)'
    BY <1>2, TermAtKept DEF TermsSound, TermPlaced
  <2>2. TermAt(r)'
    <3>1. TerminationOf(r, c)'
      BY <1>1, <1>2 DEF TerminationOf
    <3>. QED  BY <1>1, <1>2, <3>1 DEF TermAt, TermSteps
  <2>. QED  BY <2>1, <2>2 DEF TermPlaced
<1>6. IsFiniteSet(Begun')
  BY <1>2, BegunFinite
<1>7. Counted(c)'
  <2>1. IsFiniteSet(Completed(c)) /\ IsFiniteSet(CameToCommit(c))
    <3>1. Completed(c) \subseteq Begun /\ CameToCommit(c) \subseteq Begun
      BY CommitBegun DEF TermsSound
    <3>. QED  BY <3>1, FS_Subset DEF TermsSound
  <2>2. /\ Cardinality(CameToCommit(c)') = Cardinality(CameToCommit(c)) + 1
        /\ Cardinality(CameToCommit(c)) \in Nat
    BY <1>3, <2>1, FS_AddElement, FS_CardinalityType
  <2>3. /\ IsFiniteSet(Completed(c) \cup {r})
        /\ Cardinality(Completed(c) \cup {r}) <= Cardinality(Completed(c)) + 1
        /\ Cardinality(Completed(c)) \in Nat
        /\ Cardinality(Completed(c) \cup {r}) \in Nat
    <3>1. /\ IsFiniteSet(Completed(c) \cup {r})
          /\ Cardinality(Completed(c) \cup {r}) =
               IF r \in Completed(c) THEN Cardinality(Completed(c))
                                     ELSE Cardinality(Completed(c)) + 1
      BY <2>1, FS_AddElement
    <3>2. Cardinality(Completed(c)) \in Nat
      BY <2>1, FS_CardinalityType
    <3>. QED  BY <3>1, <3>2
  <2>4. /\ Cardinality(Completed(c)') <= Cardinality(Completed(c) \cup {r})
        /\ Cardinality(Completed(c)') \in Nat
    BY <1>3, <2>3, FS_Subset, FS_CardinalityType
  <2>5. terminations[c] \in Nat /\ terminations'[c] = terminations[c] + 1
    BY <1>0, <1>2
  <2>6. /\ Cardinality(Completed(c)) <= terminations[c]
        /\ terminations[c] <= Cardinality(CameToCommit(c))
    BY DEF TermsSound, Counted
  <2>. QED  BY <2>2, <2>3, <2>4, <2>5, <2>6 DEF Counted
<1>8. ASSUME NEW d \in Contracts, d # c
      PROVE  Counted(d)'
  <2>1. terminations'[d] = terminations[d]
    BY <1>0, <1>2, <1>8
  <2>. QED  BY <1>4, <1>5, <1>6, <1>8, <2>1, CountedKept
<1>9. ASSUME NEW d \in Contracts \ operated
      PROVE  Explained(d)'
  <2>1. Explained(d)
    BY DEF TermsSound
  <2>. QED  BY <1>2, <1>4, <2>1 DEF Explained
<1>. QED  BY <1>2, <1>5, <1>6, <1>7, <1>8, <1>9 DEF TermsSound

LEMMA TermsStep == TypeOK /\ TermsSound /\ [Next]_vars => TermsSound'
<1>. SUFFICES ASSUME TypeOK, TermsSound, [Next]_vars PROVE TermsSound'
  OBVIOUS
<1>1. CASE Crash
  <2>1. /\ UNCHANGED <<active, operated, terminations, op, list, reply>>
        /\ \A s \in Requests :
             pc'[s] = IF pc[s] \in Ended THEN pc[s] ELSE "dead"
    BY <1>1 DEF Crash, contractVars, historyVars
  <2>2. ASSUME NEW s \in Requests
        PROVE  TermAt(s)'
    BY <2>1 DEF TermsSound, TermPlaced, TermAt, TermSteps, Ended
  <2>3. TermPlaced' /\ IsFiniteSet(Begun')
    <3>1. Begun' \subseteq Begun
      BY <2>1 DEF Begun, Ended
    <3>. QED  BY <2>2, <3>1, FS_Subset DEF TermPlaced, TermsSound
  <2>4. ASSUME NEW c \in Contracts
        PROVE  /\ Completed(c)' \subseteq Completed(c)
               /\ CameToCommit(c) \subseteq CameToCommit(c)'
               /\ Successes(c)' = Successes(c)
               /\ \A s \in Requests : Accounts(s, c) => Accounts(s, c)'
    <3>1. \A s \in Requests :
            /\ TerminationOf(s, c)' <=> TerminationOf(s, c)
            /\ pc'[s] # "term.reply"
            /\ pc[s] \in {"term.history", "term.reply", "dead"} =>
                 pc'[s] = "dead"
      BY <2>1 DEF TerminationOf, Ended
    <3>. QED
      BY <2>1, <3>1 DEF Completed, CameToCommit, Successes, Accounts
  <2>5. ASSUME NEW c \in Contracts
        PROVE  Counted(c)'
    BY <2>1, <2>3, <2>4, CountedKept
  <2>6. ASSUME NEW c \in Contracts \ operated
        PROVE  Explained(c)'
    <3>1. Explained(c)
      BY DEF TermsSound
    <3>. QED  BY <2>1, <2>4, <3>1 DEF Explained
  <2>. QED  BY <2>1, <2>3, <2>5, <2>6 DEF TermsSound
<1>2. CASE UNCHANGED vars
  <2>1. UNCHANGED <<active, operated, terminations, op, pc, list, reply>>
    BY <1>2 DEF vars, requestVars, contractVars, historyVars
  <2>2. TermPlaced'
    BY <2>1, TermAtKept DEF TermsSound, TermPlaced
  <2>. QED
    BY <2>1, <2>2
    DEF TermsSound, Begun, Counted, Completed, CameToCommit, Explained,
        Accounts, Successes, TerminationOf
<1>3. ASSUME NEW r \in Requests, TerminationStep(r)
      PROVE  TermsSound'
  <2>1. CASE RecordTermination(r) /\ (TerminationHistory(r) \/ TerminationFails(r))
    BY <2>1, TerminationRecords
  <2>2. CASE ~RecordTermination(r)
    <3>1. UNCHANGED terminations /\ ~TerminationHistory(r)
      BY <1>3, <2>2
      DEF TerminationStep, BeginTermination, TerminationUpdate,
          TerminationHistory, TerminationReply, TerminationFails, historyVars
    <3>. QED  BY <1>3, <3>1, TerminationGoesOn DEF TerminationStep
  <2>3. CASE RecordTermination(r) /\ ~TerminationHistory(r)
                /\ ~TerminationFails(r)
    BY <1>3, <2>3
    DEF RecordTermination, TerminationStep, BeginTermination, Starts,
        TerminationUpdate, TerminationReply, At
  <2>. QED  BY <2>1, <2>2, <2>3
<1>. QED
  BY <1>1, <1>2, <1>3, OthersTerminate DEF Next, RequestStep

(* Terminations and their histories stay together, for any number of        *)
(* contracts, requests and restarts: a row for each that was answered with  *)
(* success, none but for those that came to their COMMIT, their contracts   *)
(* stay inactive, and no contract is inactive without a termination to      *)
(* account for it.                                                          *)
THEOREM TerminationsAreOnRecord == Spec => []TerminationsOnRecord
<1>1. Init => TermsSound
  <2>. SUFFICES ASSUME Init PROVE TermsSound
    OBVIOUS
  <2>1. TermPlaced
    BY DEF Init, TermPlaced, TermAt, TermSteps
  <2>2. /\ Begun = {}
        /\ \A c \in Contracts :
             Successes(c) = {} /\ Completed(c) = {} /\ CameToCommit(c) = {}
    BY DEF Init, Begun, Successes, Completed, CameToCommit, TerminationOf
  <2>3. IsFiniteSet({}) /\ Cardinality({}) = 0
    BY FS_EmptySet
  <2>4. ASSUME NEW c \in Contracts
        PROVE  Counted(c)
    <3>1. Completed(c) = {} /\ CameToCommit(c) = {} /\ terminations[c] = 0
      BY <2>2 DEF Init
    <3>. QED  BY <2>3, <3>1 DEF Counted
  <2>5. \A c \in Contracts : Explained(c)
    BY <2>2 DEF Init, Explained
  <2>. QED  BY <2>1, <2>2, <2>3, <2>4, <2>5 DEF TermsSound
<1>2. TypeOK /\ TermsSound => TerminationsOnRecord
  <2>. SUFFICES ASSUME TypeOK, TermsSound PROVE TerminationsOnRecord
    OBVIOUS
  <2>1. ASSUME NEW c \in Contracts
        PROVE  /\ Cardinality(Successes(c)) <= terminations[c]
               /\ terminations[c] <= Cardinality(CameToCommit(c))
    <3>1. Successes(c) \subseteq Completed(c)
      BY DEF Successes, Completed
    <3>2. IsFiniteSet(Completed(c))
      <4>1. Completed(c) \subseteq Begun
        BY CommitBegun DEF TermsSound
      <4>. QED  BY <4>1, FS_Subset DEF TermsSound
    <3>3. /\ Cardinality(Successes(c)) <= Cardinality(Completed(c))
          /\ Cardinality(Successes(c)) \in Nat
          /\ Cardinality(Completed(c)) \in Nat
      BY <3>1, <3>2, FS_Subset, FS_CardinalityType
    <3>4. Counted(c) /\ terminations[c] \in Nat
      BY DEF TermsSound, TypeOK
    <3>. QED  BY <3>3, <3>4 DEF Counted
  <2>2. ASSUME NEW c \in Contracts \ operated
        PROVE  /\ Successes(c) # {} => ~active[c]
               /\ ~active[c] => \E r \in Requests :
                    /\ TerminationOf(r, c)
                    /\ \/ pc[r] \in {"term.history", "term.reply", "dead"}
                       \/ reply[r] # "none"
    BY DEF TermsSound, Explained, Accounts
  <2>. QED  BY <2>1, <2>2 DEF TerminationsOnRecord
<1>. QED  BY <1>1, <1>2, TermsStep, ContractInvariant, PTL DEF Spec
-----------------------------------------------------------------------------
(* Requests come to an end.                                                 *)

(* A contract is locked by one adjustment, which has not ended and whose    *)
(* next step, unlike the step of those who wait, needs no lock.             *)
LocksInUse ==
  \A c \in Contracts : \A r \in lock[c] :
    lock[c] = {r} /\ pc[r] \in {"adj.read", "adj.write"} /\ Now(r) = c

LEMMA InUseStep == TypeOK /\ LocksInUse /\ [Next]_vars => LocksInUse'
<1>. SUFFICES ASSUME TypeOK, LocksInUse, [Next]_vars, NEW c \in Contracts,
                     NEW r \in lock'[c]
              PROVE  lock'[c] = {r} /\ pc'[r] \in {"adj.read", "adj.write"} /\ Now(r)' = c
  BY DEF LocksInUse
<1>0. /\ pc \in [Requests -> PCs] /\ list \in [Requests -> Seq(Contracts)]
      /\ lock \in [Contracts -> SUBSET Requests]
  BY DEF TypeOK
<1>1. ASSUME r \in lock[c], lock'[c] = lock[c], pc'[r] = pc[r], list'[r] = list[r]
      PROVE  lock'[c] = {r} /\ pc'[r] \in {"adj.read", "adj.write"} /\ Now(r)' = c
  BY <1>1 DEF LocksInUse, Now
<1>2. ASSUME NEW q \in Requests, BillingStep(q)
      PROVE  lock'[c] = {r} /\ pc'[r] \in {"adj.read", "adj.write"} /\ Now(r)' = c
  <2>1. lock' = lock /\ pc[q] \in BillingSteps \cup {"idle"}
        /\ \A s \in Requests \ {q} : pc'[s] = pc[s] /\ list'[s] = list[s]
    BY <1>2, BillingFrame DEF InsideBilling
  <2>2. r \in Requests /\ r # q
    BY <1>0, <2>1 DEF LocksInUse, BillingSteps
  <2>. QED  BY <1>1, <2>1, <2>2
<1>3. ASSUME NEW q \in Requests,
             \/ TerminationStep(q) \/ AdjustDateStep(q) \/ AdjustmentStep(q)
             \/ \E b \in Contracts : UpdateContract(q, b)
      PROVE  lock'[c] = {r} /\ pc'[r] \in {"adj.read", "adj.write"} /\ Now(r)' = c
  <2>1. \A s \in Requests \ {q} : pc'[s] = pc[s] /\ list'[s] = list[s]
    BY <1>3, OutsideFrame
  <2>2. CASE lock' = lock /\ pc[q] \notin {"adj.read", "adj.write"}
    <3>1. r \in Requests /\ r # q
      BY <1>0, <2>2 DEF LocksInUse
    <3>. QED  BY <1>1, <2>1, <2>2, <3>1
  <2>3. CASE AdjustmentLock(q)
    <3>1. /\ lock' = [lock EXCEPT ![Now(q)] = {q}] /\ lock[Now(q)] = {}
          /\ pc[q] = "adj.lock" /\ pc'[q] = "adj.read" /\ list' = list
      BY <1>0, <2>3 DEF AdjustmentLock, At, Goto, Unlocked
    <3>2. CASE c = Now(q)
      BY <1>0, <3>1, <3>2 DEF Now
    <3>3. CASE c # Now(q)
      <4>1. lock'[c] = lock[c] /\ r \in Requests /\ r # q
        BY <1>0, <3>1, <3>3 DEF LocksInUse
      <4>. QED  BY <1>1, <2>1, <4>1
    <3>. QED  BY <3>2, <3>3
  <2>4. CASE AdjustmentRead(q)
    <3>1. pc[q] = "adj.read" /\ pc'[q] = "adj.write" /\ list' = list /\ lock' = lock
      BY <1>0, <2>4 DEF AdjustmentRead, At, Goto
    <3>2. r = q => lock'[c] = {r} /\ pc'[r] = "adj.write" /\ Now(r)' = c
      BY <3>1 DEF LocksInUse, Now
    <3>. QED  BY <1>0, <1>1, <2>1, <3>1, <3>2
  <2>5. CASE AdjustmentCommit(q) \/ AdjustmentFails(q)
    <3>1. lock' = [lock EXCEPT ![Now(q)] = @ \ {q}]
      BY <2>5 DEF AdjustmentCommit, AdjustmentFails
    <3>2. r \in lock[c] /\ r \in Requests /\ (r # q => lock'[c] = lock[c])
      BY <1>0, <3>1 DEF LocksInUse
    <3>3. r # q
      BY <1>0, <3>1, <3>2 DEF LocksInUse
    <3>. QED  BY <1>1, <2>1, <3>2, <3>3
  <2>6. AdjustmentStep(q) =>
          \/ lock' = lock /\ pc[q] \notin {"adj.read", "adj.write"}
          \/ AdjustmentLock(q) \/ AdjustmentRead(q) \/ AdjustmentCommit(q)
          \/ AdjustmentFails(q)
    BY DEF AdjustmentStep, BeginAdjustment, Starts
  <2>7. TerminationStep(q) \/ AdjustDateStep(q) \/ (\E b \in Contracts : UpdateContract(q, b))
          => lock' = lock /\ pc[q] \notin {"adj.read", "adj.write"}
    BY DEF TerminationStep, BeginTermination, TerminationUpdate,
      TerminationHistory, TerminationReply, TerminationFails, AdjustDateStep,
      AdjustDate, AdjustDateHistory, AdjustDateFails, UpdateContract, Starts, At
  <2>. QED  BY <1>3, <2>2, <2>3, <2>4, <2>5, <2>6, <2>7
<1>4. CASE Crash
  BY <1>4 DEF Crash
<1>5. CASE UNCHANGED vars
  <2>1. UNCHANGED <<lock, pc, list>>
    BY <1>5 DEF vars, requestVars
  <2>. QED  BY <1>1, <2>1
<1>. QED  BY <1>2, <1>3, <1>4, <1>5 DEF Next, RequestStep

(* Nobody waits for a lock that its holder has forgotten, or for one whose  *)
(* holder waits itself: no failure, answer or restart leaves a contract     *)
(* locked (contract-recurring.service.js:866-1011).                         *)
THEOREM LocksAreInUse == Spec => []LocksInUse
<1>1. Init => LocksInUse
  BY DEF Init, LocksInUse
<1>. QED  BY <1>1, InUseStep, ContractInvariant, PTL DEF Spec

(* The steps a request has to take for the contract it works on, at most.   *)
StepsLeft(r) ==
  CASE pc[r] = "bill.find" -> ItemCount + 8
    [] pc[r] = "bill.movement" -> ItemCount + 7
    [] pc[r] = "bill.items" -> ItemCount - movements[move[r]].items + 5
    [] pc[r] = "bill.payment" -> 5
    [] pc[r] = "bill.link" -> 4
    [] pc[r] \in {"bill.dates", "term.update", "adj.lock"} -> 3
    [] pc[r] \in {"bill.commit", "term.history", "adj.read"} -> 2
    [] pc[r] \in {"bill.reply", "term.reply", "date.history", "adj.write"} -> 1
    [] OTHER -> 0

(* It has fewer contracts to go, or as many and fewer steps.                *)
Nearer(r) ==
  \/ Len(list'[r]) < Len(list[r])
  \/ Len(list'[r]) = Len(list[r]) /\ StepsLeft(r)' < StepsLeft(r)

(* Every step of a request under way brings it nearer to its end, and no    *)
(* step of another takes it back.                                           *)
StepsAdvance ==
  [][\A r \in Requests : pc[r] # "idle" =>
       \/ Nearer(r)
       \/ UNCHANGED <<pc[r], list[r], StepsLeft(r)>> /\ ~ RequestStep(r)]_vars

Alike(r) == UNCHANGED <<pc[r], list[r], StepsLeft(r)>>

LEMMA ListNext ==
  ASSUME TypeOK, NEW r \in Requests,
         pc[r] \notin Ended \cup {"bill.commit", "bill.reply"},
         list' = [list EXCEPT ![r] = Tail(@)]
  PROVE  Nearer(r)
<1>1. list[r] \in Seq(Contracts) /\ list[r] # <<>> /\ list'[r] = Tail(list[r])
  BY DEF TypeOK
<1>2. Len(Tail(list[r])) < Len(list[r])
  BY <1>1
<1>. QED  BY <1>1, <1>2 DEF Nearer

LEMMA BillingNearer ==
  ASSUME TypeOK, MovesPlaced, NEW r \in Requests, BillingStep(r), pc[r] # "idle"
  PROVE  Nearer(r)
<1>. USE ItemAssumption
<1>0. /\ pc \in [Requests -> PCs] /\ move \in [Requests -> Nat]
      /\ Len(list[r]) \in Nat
  BY DEF TypeOK
<1>1. CASE BillFind(r)
  <2>1. pc[r] = "bill.find" /\ pc'[r] = "bill.movement" /\ list' = list
    BY <1>0, <1>1 DEF BillFind, At, Goto
  <2>. QED  BY <1>0, <2>1 DEF Nearer, StepsLeft
<1>2. CASE BillMovement(r)
  <2>1. /\ pc[r] = "bill.movement" /\ pc'[r] \in {"bill.payment", "bill.items"} /\ list' = list
    BY <1>0, <1>2 DEF BillMovement, At, Goto
  <2>2. movements'[move'[r]].items = 0
    <3>1. movements'[move'[r]] =
            [contract |-> Now(r), date |-> seen[r].date, items |-> 0,
             linked |-> FALSE, by |-> r]
      BY <1>2, MovementCreated
    <3>. QED  BY <3>1
  <2>. QED  BY <1>0, <2>1, <2>2 DEF Nearer, StepsLeft
<1>3. CASE BillItem(r)
  <2>1. /\ pc[r] = "bill.items" /\ list' = list /\ move' = move
        /\ pc'[r] = IF movements[move[r]].items + 1 = ItemCount THEN "bill.payment"
                                                                ELSE "bill.items"
    BY <1>0, <1>3 DEF BillItem, At, Goto
  <2>2. /\ movements'[move[r]].items = movements[move[r]].items + 1
        /\ movements[move[r]].items < ItemCount /\ movements[move[r]].items \in Nat
    <3>1. /\ move[r] \in DOMAIN movements /\ movements[move[r]].items < ItemCount
      BY <2>1 DEF MovesPlaced, MoveSteps
    <3>2. movements[move[r]] \in Movement
      BY <3>1 DEF TypeOK
    <3>. QED
      BY <1>3, <2>1, <3>1, <3>2, ItemCreated DEF BillItem, Movement
  <2>. QED  BY <1>0, <2>1, <2>2 DEF Nearer, StepsLeft
<1>4. CASE BillPayment(r)
  <2>1. pc[r] = "bill.payment" /\ pc'[r] = "bill.link" /\ list' = list
    BY <1>0, <1>4 DEF BillPayment, At, Goto
  <2>. QED  BY <1>0, <2>1 DEF Nearer, StepsLeft
<1>5. CASE BillLink(r)
  <2>1. pc[r] = "bill.link" /\ pc'[r] = "bill.dates" /\ list' = list
    BY <1>0, <1>5 DEF BillLink, At, Goto
  <2>. QED  BY <1>0, <2>1 DEF Nearer, StepsLeft
<1>6. CASE BillDates(r) \/ BillStageFails(r) \/ BillStageTimesOut(r)
  <2>1. /\ pc[r] \notin Ended \cup {"bill.commit", "bill.reply"}
        /\ list' = [list EXCEPT ![r] = Tail(@)]
    BY <1>6 DEF BillDates, BillStageFails, BillStageTimesOut, NextContract,
                Ended, BillingSteps
  <2>. QED  BY <2>1, ListNext
<1>7. CASE BillCommit(r) \/ BillCommitFails(r) \/ BillReply(r)
  <2>1. /\ list' = list
        /\ \/ pc[r] = "bill.commit" /\ pc'[r] \in {"bill.reply", "done"}
           \/ pc[r] = "bill.reply" /\ pc'[r] = "done"
    BY <1>0, <1>7 DEF BillCommit, BillCommitFails, BillReply, At, Goto, Reply
  <2>. QED  BY <1>0, <2>1 DEF Nearer, StepsLeft
<1>. QED
  BY <1>1, <1>2, <1>3, <1>4, <1>5, <1>6, <1>7 DEF BillingStep, BeginBilling, Starts

LEMMA OutsideNearer ==
  ASSUME TypeOK, NEW r \in Requests, pc[r] # "idle",
         \/ TerminationStep(r) \/ AdjustDateStep(r) \/ AdjustmentStep(r)
         \/ \E c \in Contracts : UpdateContract(r, c)
  PROVE  Nearer(r)
<1>0. pc \in [Requests -> PCs] /\ Len(list[r]) \in Nat
  BY DEF TypeOK
<1>1. /\ list' = list
      /\ \/ pc[r] \in {"term.update", "term.history", "term.reply",
                       "date.history", "adj.lock", "adj.read", "adj.write"}
            /\ pc'[r] \in {"done", "unanswered"}
         \/ pc[r] = "term.update" /\ pc'[r] = "term.history"
         \/ pc[r] = "term.history" /\ pc'[r] = "term.reply"
         \/ pc[r] = "adj.lock" /\ pc'[r] = "adj.read"
         \/ pc[r] = "adj.read" /\ pc'[r] = "adj.write"
  <2>1. CASE TerminationStep(r)
    BY <1>0, <2>1 DEF TerminationStep, BeginTermination, TerminationUpdate,
      TerminationHistory, TerminationReply, TerminationFails, Starts, At, Goto,
      Reply
  <2>2. CASE AdjustDateStep(r)
    BY <1>0, <2>2 DEF AdjustDateStep, AdjustDate, AdjustDateHistory, AdjustDateFails,
      Starts, At, Goto, Reply
  <2>3. CASE AdjustmentStep(r)
    BY <1>0, <2>3 DEF AdjustmentStep, BeginAdjustment, AdjustmentLock, AdjustmentRead,
      AdjustmentCommit, AdjustmentFails, Starts, At, Goto, Reply
  <2>4. ~ \E c \in Contracts : UpdateContract(r, c)
    BY DEF UpdateContract, Starts
  <2>. QED  BY <2>1, <2>2, <2>3, <2>4
<1>. QED  BY <1>0, <1>1 DEF Nearer, StepsLeft

(* Another request's billing adds items to its own movement only.           *)
LEMMA ItemsOfOthers ==
  ASSUME TypeOK, MovesPlaced, NEW q \in Requests, BillingStep(q),
         NEW m \in DOMAIN movements, movements[m].by # q
  PROVE  movements'[m].items = movements[m].items
<1>1. CASE UNCHANGED movements
  BY <1>1
<1>2. CASE pc[q] = "bill.movement" /\ InsertMovement(q)
  BY <1>2, MovementInserted
<1>3. CASE pc[q] = "bill.items" /\ InsertItem(q)
  <2>1. movements[move[q]].by = q
    BY <1>3 DEF MovesPlaced, MoveSteps
  <2>. QED  BY <1>3, <2>1, ItemCreated
<1>4. CASE pc[q] = "bill.link" /\ InsertLink(q)
  BY <1>4, LinkCreated
<1>. QED
  BY <1>1, <1>2, <1>3, <1>4
  DEF BillingStep, BeginBilling, BillFind, BillMovement, BillItem, BillPayment,
      BillLink, BillDates, BillStageFails, BillStageTimesOut, BillCommit,
      BillCommitFails, BillReply, At, billingVars

LEMMA StepNearer ==
  ASSUME TypeOK, MovesPlaced, [Next]_vars, NEW r \in Requests, pc[r] # "idle"
  PROVE  Nearer(r) \/ (Alike(r) /\ ~ RequestStep(r)) \/ UNCHANGED vars
<1>0. pc \in [Requests -> PCs] /\ Len(list[r]) \in Nat /\ (pc[r] \in MoveSteps =>
        move[r] \in DOMAIN movements /\ movements[move[r]].by = r)
  BY DEF TypeOK, MovesPlaced
<1>1. RequestStep(r) => Nearer(r)
  BY BillingNearer, OutsideNearer DEF RequestStep
<1>2. ASSUME NEW q \in Requests \ {r}, RequestStep(q) PROVE Alike(r)
  <2>1. CASE BillingStep(q)
    <3>1. pc'[r] = pc[r] /\ list'[r] = list[r] /\ move'[r] = move[r]
      BY <2>1, BillingFrame
    <3>2. pc[r] = "bill.items" => movements'[move[r]].items = movements[move[r]].items
      BY <1>0, <2>1, ItemsOfOthers DEF MoveSteps
    <3>. QED  BY <3>1, <3>2 DEF Alike, StepsLeft
  <2>2. CASE ~ BillingStep(q)
    <3>1. \/ TerminationStep(q) \/ AdjustDateStep(q) \/ AdjustmentStep(q)
          \/ \E c \in Contracts : UpdateContract(q, c)
      BY <1>2, <2>2 DEF RequestStep
    <3>2. pc'[r] = pc[r] /\ list'[r] = list[r] /\ UNCHANGED <<movements, move>>
      BY <3>1, OutsideFrame DEF OutsideBilling, billingVars
    <3>. QED  BY <3>2 DEF Alike, StepsLeft
  <2>. QED  BY <2>1, <2>2
<1>3. CASE Crash
  <2>1. /\ UNCHANGED <<list, move, movements>>
        /\ pc'[r] = IF pc[r] \in Ended THEN pc[r] ELSE "dead"
    BY <1>3 DEF Crash, billingVars
  <2>2. ASSUME pc[r] \in Ended PROVE Alike(r)
    BY <2>1, <2>2 DEF Alike, StepsLeft
  <2>3. ASSUME pc[r] \notin Ended PROVE Nearer(r)
    <3>1. StepsLeft(r)' = 0
      BY <2>1, <2>3 DEF StepsLeft
    <3>2. StepsLeft(r) > 0
      <4>1. CASE pc[r] = "bill.items"
        <5>1. /\ move[r] \in DOMAIN movements /\ movements[move[r]].items < ItemCount
          BY <4>1 DEF MovesPlaced, MoveSteps
        <5>2. movements[move[r]] \in Movement
          BY <5>1 DEF TypeOK
        <5>. QED  BY <4>1, <5>1, <5>2, ItemAssumption DEF StepsLeft, Movement
      <4>2. CASE pc[r] # "bill.items"
        BY <1>0, <2>3, <4>2, ItemAssumption DEF StepsLeft, PCs, BillingSteps, Ended
      <4>. QED  BY <4>1, <4>2
    <3>. QED  BY <1>0, <2>1, <3>1, <3>2 DEF Nearer
  <2>. QED  BY <1>1, <2>2, <2>3
<1>. QED  BY <1>1, <1>2, <1>3 DEF Next

(* A request is under way for as many steps as it has contracts and stages, *)
(* whatever fails: no failure takes it back to an earlier stage, and the    *)
(* item loop ends at the number of items. So it comes to its end if only    *)
(* its steps are taken, which is what EveryRequestEnds adds                 *)
(* (contract-recurring.service.js:53-196, 330-380, 866-1011).               *)
THEOREM EveryStepAdvances == Spec => StepsAdvance
<1>1. TypeOK /\ MovesPlaced /\ [Next]_vars =>
        [\A r \in Requests : pc[r] # "idle" =>
           \/ Nearer(r)
           \/ UNCHANGED <<pc[r], list[r], StepsLeft(r)>> /\ ~ RequestStep(r)]_vars
  BY StepNearer DEF Alike
<1>. QED  BY <1>1, ContractInvariant, PTL DEF Spec, StepsAdvance
=============================================================================
