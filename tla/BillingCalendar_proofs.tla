------------------------ MODULE BillingCalendar_proofs ------------------------
(* Proofs about BillingCalendar, for any first dates, due days, days of     *)
(* billing and number of bills: its dates are dates of the calendar, they   *)
(* lie ahead of a bill that is not late, they come in order, and they skip  *)
(* one month at most.                                                       *)
EXTENDS BillingCalendar, TLAPS

(* The dates of JavaScript.                                                 *)
LEMMA DaysInRange == ASSUME NEW m \in Int PROVE DaysIn(m) \in 28..31
BY DEF DaysIn

LEMMA DateOfValid ==
  ASSUME NEW m \in Nat, NEW d \in 1..31
  PROVE  /\ ValidDate(DateOf(m, d))
         /\ DateOf(m, d).month \in {m, m + 1}
         /\ d <= 28 => DateOf(m, d) = [month |-> m, day |-> d]
<1>1. DaysIn(m) \in 28..31 /\ DaysIn(m + 1) \in 28..31 /\ m + 1 \in Nat
  BY DaysInRange
<1>2. CASE d <= DaysIn(m)
  BY <1>1, <1>2 DEF DateOf, ValidDate, Date
<1>3. CASE ~ (d <= DaysIn(m))
  <2>1. d - DaysIn(m) \in 1..3
    BY <1>1, <1>3
  <2>2. DateOf(m, d) = [month |-> m + 1, day |-> d - DaysIn(m)]
    BY <1>3 DEF DateOf
  <2>. QED  BY <1>1, <1>3, <2>1, <2>2 DEF ValidDate, Date
<1>. QED  BY <1>1, <1>2, <1>3

LEMMA MonthAfterValid ==
  ASSUME NEW d \in Date
  PROVE  /\ ValidDate(MonthAfter(d))
         /\ MonthAfter(d).month \in {d.month + 1, d.month + 2}
         /\ d.day <= 28 => MonthAfter(d) = [month |-> d.month + 1, day |-> d.day]
<1>1. d.month + 1 \in Nat /\ d.day \in 1..31 /\ (d.month + 1) + 1 = d.month + 2
  BY DEF Date
<1>. QED  BY <1>1, DateOfValid DEF MonthAfter

(* The due date is the due day of the month billed, or a month after it.    *)
LEMMA DueDateValid ==
  ASSUME NEW date \in Date, NEW today \in Date, dueDay \in 1..31
  PROVE  /\ ValidDate(DueDate(date, today))
         /\ today.month <= date.month => ~NotAfter(DueDate(date, today), today)
         /\ dueDay <= 28 =>
              /\ DueDate(date, today).month \in {date.month, date.month + 1}
              /\ DueDate(date, today).day = dueDay
<1> DEFINE base == DateOf(date.month, dueDay)
<1>1. /\ ValidDate(base) /\ base.month \in {date.month, date.month + 1}
      /\ dueDay <= 28 => base = [month |-> date.month, day |-> dueDay]
  BY DateOfValid DEF Date
<1>2. /\ ValidDate(MonthAfter(base))
      /\ MonthAfter(base).month \in {base.month + 1, base.month + 2}
      /\ base.day <= 28 =>
           MonthAfter(base) = [month |-> base.month + 1, day |-> base.day]
  BY <1>1, MonthAfterValid DEF ValidDate
<1>3. DueDate(date, today) =
        IF NotAfter(base, today) THEN MonthAfter(base) ELSE base
  BY DEF DueDate
<1>4. base.month \in Nat /\ date.month \in Nat /\ today.month \in Nat
  BY <1>1 DEF ValidDate, Date
<1> HIDE DEF base
<1>5. ASSUME today.month <= date.month
      PROVE  ~NotAfter(DueDate(date, today), today)
  <2>1. CASE NotAfter(base, today)
    <3>1. MonthAfter(base).month > today.month
      BY <1>1, <1>2, <1>4, <1>5
    <3>. QED  BY <1>2, <1>3, <1>4, <2>1, <3>1 DEF NotAfter
  <2>. QED  BY <1>3, <2>1
<1>6. ASSUME dueDay <= 28
      PROVE  /\ DueDate(date, today).month \in {date.month, date.month + 1}
             /\ DueDate(date, today).day = dueDay
  BY <1>1, <1>2, <1>3, <1>4, <1>6
<1>. QED  BY <1>1, <1>2, <1>3, <1>5, <1>6

----------------------------------------------------------------------------
(* The bills, and where the dates of a contract stand to one another: each  *)
(* bill moves the next date at least one month on.                          *)
BillRecord == [date : Date, on : Date, due : Date]

Dated ==
  /\ bills \in Seq(BillRecord)
  /\ \A k \in DOMAIN bills : bills[k].due = DueDate(bills[k].date, bills[k].on)
  /\ \A k \in DOMAIN bills :
       nextDate.month >= bills[k].date.month + (Len(bills) + 1 - k)
  /\ \A j, k \in DOMAIN bills :
       j < k => bills[k].date.month >= bills[j].date.month + (k - j)

IInv == TypeOK /\ Dated

LEMMA Start == Init => IInv
<1> SUFFICES ASSUME Init PROVE IInv
  OBVIOUS
<1>1. bills \in Seq(BillRecord) /\ DOMAIN bills = {}
  BY DEF Init
<1>2. ValidDate(nextDate) /\ dueDay \in 1..31
  BY FirstDatesAssumption, DueDaysAssumption DEF Init
<1>. QED  BY <1>1, <1>2 DEF IInv, TypeOK, Dated

LEMMA Step == IInv /\ [Next]_vars => IInv'
<1> SUFFICES ASSUME IInv, [Next]_vars PROVE IInv'
  OBVIOUS
<1>1. ASSUME NEW today \in Days, Bill(today) PROVE IInv'
  <2> DEFINE bill == [date |-> nextDate, on |-> today,
                      due |-> DueDate(nextDate, today)]
             n == Len(bills)
  <2>1. /\ nextDate \in Date /\ today \in Date /\ dueDay \in 1..31
        /\ bills \in Seq(BillRecord) /\ n \in Nat /\ DOMAIN bills = 1..n
    BY <1>1, DaysAssumption DEF IInv, TypeOK, Dated, ValidDate
  <2>2. ValidDate(DueDate(nextDate, today)) /\ ValidDate(MonthAfter(nextDate))
        /\ MonthAfter(nextDate).month \in {nextDate.month + 1, nextDate.month + 2}
    BY <2>1, DueDateValid, MonthAfterValid
  <2>3. bill \in BillRecord
    BY <2>1, <2>2 DEF BillRecord, ValidDate
  <2>4. /\ bills' = Append(bills, bill) /\ nextDate' = MonthAfter(nextDate)
        /\ dueDay' = dueDay
    BY <1>1 DEF Bill, UpdateBillingDates
  <2>5. /\ bill.date = nextDate /\ bill.on = today
        /\ bill.due = DueDate(nextDate, today)
    OBVIOUS
  <2> HIDE DEF bill
  <2>6. /\ bills' \in Seq(BillRecord) /\ DOMAIN bills' = 1..(n + 1)
        /\ Len(bills') = n + 1 /\ bills'[n + 1] = bill
        /\ \A k \in 1..n : bills'[k] = bills[k]
    BY <2>1, <2>3, <2>4
  <2> HIDE DEF n
  <2>7. \A k \in 1..n : bills[k].date.month \in Nat
    <3>1. \A k \in 1..n : bills[k] \in BillRecord
      BY <2>1
    <3>. QED  BY <3>1 DEF BillRecord, Date
  <2>8. nextDate.month \in Nat /\ nextDate'.month \in Nat
        /\ nextDate'.month >= nextDate.month + 1
    BY <2>1, <2>2, <2>4 DEF ValidDate, Date
  <2>9. \A k \in 1..n : nextDate.month >= bills[k].date.month + (n + 1 - k)
    BY <2>1 DEF IInv, Dated, n
  <2>10. TypeOK'
    <3>1. ASSUME NEW k \in 1..(n + 1)
          PROVE  ValidDate(bills'[k].date) /\ ValidDate(bills'[k].due)
      <4>1. CASE k = n + 1
        BY <2>2, <2>5, <2>6, <4>1 DEF IInv, TypeOK
      <4>2. CASE k \in 1..n
        BY <2>1, <2>6, <4>2 DEF IInv, TypeOK
      <4>. QED  BY <2>1, <4>1, <4>2
    <3>. QED  BY <2>1, <2>2, <2>4, <2>6, <3>1 DEF TypeOK, ValidDate
  <2>11. ASSUME NEW k \in 1..(n + 1)
         PROVE  (bills[k].due = DueDate(bills[k].date, bills[k].on))'
    <3>1. bills'[k].due = DueDate(bills'[k].date, bills'[k].on)
      <4>1. CASE k = n + 1
        BY <2>5, <2>6, <4>1
      <4>2. CASE k \in 1..n
        BY <2>1, <2>6, <4>2 DEF IInv, Dated
      <4>. QED  BY <2>1, <4>1, <4>2
    <3>. QED  BY <2>4, <3>1 DEF DueDate
  <2>12. ASSUME NEW k \in 1..(n + 1)
         PROVE  nextDate'.month >= bills'[k].date.month + ((n + 1) + 1 - k)
    <3>1. CASE k = n + 1
      BY <2>1, <2>5, <2>6, <2>8, <3>1
    <3>2. CASE k \in 1..n
      <4>1. nextDate.month >= bills[k].date.month + (n + 1 - k)
        BY <2>9, <3>2
      <4>2. nextDate'.month >= bills[k].date.month + ((n + 1) + 1 - k)
        BY <2>1, <2>7, <2>8, <3>2, <4>1
      <4>. QED  BY <2>6, <3>2, <4>2
    <3>. QED  BY <2>1, <3>1, <3>2
  <2>13. ASSUME NEW j \in 1..(n + 1), NEW k \in 1..(n + 1), j < k
         PROVE  bills'[k].date.month >= bills'[j].date.month + (k - j)
    <3>1. j \in 1..n
      BY <2>1, <2>13
    <3>2. CASE k = n + 1
      <4>1. bills'[k].date = nextDate /\ bills'[j] = bills[j]
        BY <2>5, <2>6, <3>1, <3>2
      <4>2. nextDate.month >= bills[j].date.month + (n + 1 - j)
        BY <2>9, <3>1
      <4>3. n + 1 - j = k - j
        BY <2>1, <3>2
      <4>4. nextDate.month >= bills[j].date.month + (k - j)
        BY <4>2, <4>3
      <4>. QED  BY <4>1, <4>4
    <3>3. CASE k \in 1..n
      BY <2>1, <2>6, <2>13, <3>1, <3>3 DEF IInv, Dated
    <3>. QED  BY <2>1, <3>2, <3>3
  <2>14. Dated'
    BY <2>6, <2>11, <2>12, <2>13 DEF Dated
  <2>. QED  BY <2>10, <2>14 DEF IInv
<1>2. CASE UNCHANGED vars
  BY <1>2 DEF vars, IInv, TypeOK, Dated, DueDate
<1>. QED  BY <1>1, <1>2 DEF Next

LEMMA CalendarInvariant == Spec => []IInv
  BY Start, Step, PTL DEF Spec

----------------------------------------------------------------------------
(* No date of a contract or of a bill is one the calendar lacks.            *)
THEOREM TypeCorrect == Spec => []TypeOK
<1>1. IInv => TypeOK
  BY DEF IInv
<1>. QED  BY <1>1, CalendarInvariant, PTL

(* A bill made no later than in the month of its billing date is not yet    *)
(* due.                                                                     *)
THEOREM DueDatesLieAhead == Spec => []DueInTheFuture
<1>1. IInv => DueInTheFuture
  <2> SUFFICES ASSUME IInv, NEW k \in DOMAIN bills,
                      bills[k].on.month <= bills[k].date.month
               PROVE  ~NotAfter(bills[k].due, bills[k].on)
    BY DEF DueInTheFuture
  <2>1. bills[k] \in BillRecord /\ dueDay \in 1..31
        /\ bills[k].due = DueDate(bills[k].date, bills[k].on)
    BY DEF IInv, TypeOK, Dated
  <2>. QED  BY <2>1, DueDateValid DEF BillRecord
<1>. QED  BY <1>1, CalendarInvariant, PTL

(* The bills of a contract with a due day every month has come due in the   *)
(* order they are made, at most two of them on one day, and each names the  *)
(* month before the one it is due in.                                       *)
THEOREM DueDatesInOrder == Spec => []DueInOrder
<1>1. IInv => DueInOrder
  <2> SUFFICES ASSUME IInv, dueDay <= 28
               PROVE  /\ \A j, k \in DOMAIN bills :
                           /\ j < k => NotAfter(bills[j].due, bills[k].due)
                           /\ j + 1 < k => bills[j].due # bills[k].due
                      /\ \A k \in DOMAIN bills :
                           Reference(bills[k].due) = bills[k].due.month - 1
    BY DEF DueInOrder
  <2>1. ASSUME NEW k \in DOMAIN bills
        PROVE  /\ bills[k].date.month \in Nat /\ bills[k].due.month \in Nat
               /\ bills[k].due.month \in {bills[k].date.month,
                                          bills[k].date.month + 1}
               /\ bills[k].due.day = dueDay
               /\ k \in Nat
    <3>1. /\ bills[k] \in BillRecord /\ dueDay \in 1..31 /\ k \in Nat
          /\ bills[k].due = DueDate(bills[k].date, bills[k].on)
      BY DEF IInv, TypeOK, Dated
    <3>. QED  BY <3>1, DueDateValid DEF BillRecord, Date
  <2>2. dueDay \in 1..31
    BY DEF IInv, TypeOK
  <2>3. ASSUME NEW j \in DOMAIN bills, NEW k \in DOMAIN bills, j < k
        PROVE  /\ NotAfter(bills[j].due, bills[k].due)
               /\ j + 1 < k => bills[j].due # bills[k].due
    <3>1. bills[k].date.month >= bills[j].date.month + (k - j)
      BY <2>3 DEF IInv, Dated
    <3>2. /\ bills[k].due.month >= bills[j].due.month
          /\ j + 1 < k => bills[k].due.month > bills[j].due.month
      BY <2>1, <2>3, <3>1
    <3>. QED  BY <2>1, <2>2, <3>2 DEF NotAfter
  <2>4. ASSUME NEW k \in DOMAIN bills
        PROVE  Reference(bills[k].due) = bills[k].due.month - 1
    <3> DEFINE m == bills[k].due.month - 1
    <3>1. m \in Int /\ bills[k].due.day = dueDay
      BY <2>1
    <3>2. dueDay <= DaysIn(m)
      BY <2>2, <3>1, DaysInRange
    <3>. QED  BY <3>1, <3>2 DEF Reference, MonthBefore, DateOf
  <2>5. ASSUME NEW j \in DOMAIN bills, NEW k \in DOMAIN bills, j + 1 < k
        PROVE  j < k
    BY <2>1, <2>5
  <2>. QED  BY <2>3, <2>4, <2>5
<1>. QED  BY <1>1, CalendarInvariant, PTL
----------------------------------------------------------------------------
(* The billing dates of a contract, from the one it was created with: day   *)
(* by day of the month it keeps, or, once a month was too short for it, one *)
(* of the first three days from there on.                                   *)
Monthly(first, n, d) ==
  \/ d = [month |-> first.month + n, day |-> first.day]
  \/ first.day > 28 /\ d.month = first.month + n + 1 /\ d.day \in 1..3

(* A month may be skipped, when the day is one that a month does not have   *)
(* (contract-recurring.service.js:343-345), but only one in all the life of *)
(* a contract, because the date it moves to is one that every month has.    *)
SkipsOneMonthAtMost ==
  /\ \A k \in DOMAIN bills : Monthly(bills[1].date, k - 1, bills[k].date)
  /\ bills # <<>> => Monthly(bills[1].date, Len(bills), nextDate)

LEMMA MonthlyStart == ASSUME NEW d \in Date PROVE Monthly(d, 0, d)
<1>1. d.month \in Nat /\ d = [month |-> d.month, day |-> d.day]
  BY DEF Date
<1>2. d.month + 0 = d.month
  BY <1>1
<1>. QED  BY <1>1, <1>2 DEF Monthly

LEMMA MonthlyNext ==
  ASSUME NEW first \in Date, NEW n \in Nat, NEW d \in Date, Monthly(first, n, d)
  PROVE  Monthly(first, n + 1, MonthAfter(d))
<1>1. /\ first.month \in Nat /\ first.day \in 1..31
      /\ d.month \in Nat /\ d.day \in 1..31
  BY DEF Date
<1>2. /\ MonthAfter(d).month \in Nat
      /\ MonthAfter(d).month \in {d.month + 1, d.month + 2}
      /\ d.day <= 28 => MonthAfter(d) = [month |-> d.month + 1, day |-> d.day]
  BY MonthAfterValid DEF ValidDate, Date
<1>3. \/ MonthAfter(d) = [month |-> d.month + 1, day |-> d.day]
      \/ d.day > 28 /\ MonthAfter(d).month = d.month + 2
           /\ MonthAfter(d).day \in 1..3
  <2>1. DaysIn(d.month + 1) \in 28..31 /\ (d.month + 1) + 1 = d.month + 2
    BY <1>1, DaysInRange
  <2>. QED  BY <1>1, <2>1 DEF MonthAfter, DateOf
<1>4. CASE d = [month |-> first.month + n, day |-> first.day]
  <2>1. d.month = first.month + n /\ d.day = first.day
    BY <1>4
  <2>2. d.month + 1 = first.month + (n + 1)
        /\ d.month + 2 = first.month + (n + 1) + 1
    BY <1>1, <2>1
  <2>. QED  BY <1>3, <2>1, <2>2 DEF Monthly
<1>5. CASE first.day > 28 /\ d.month = first.month + n + 1 /\ d.day \in 1..3
  <2>1. MonthAfter(d) = [month |-> d.month + 1, day |-> d.day]
    BY <1>1, <1>2, <1>5
  <2>2. d.month + 1 = first.month + (n + 1) + 1
    BY <1>1, <1>5
  <2>. QED  BY <1>5, <2>1, <2>2 DEF Monthly
<1>. QED  BY <1>4, <1>5 DEF Monthly

LEMMA SkipsStep ==
  IInv /\ SkipsOneMonthAtMost /\ [Next]_vars => SkipsOneMonthAtMost'
<1> SUFFICES ASSUME IInv, SkipsOneMonthAtMost, [Next]_vars
             PROVE  SkipsOneMonthAtMost'
  OBVIOUS
<1>1. ASSUME NEW today \in Days, Bill(today)
      PROVE  SkipsOneMonthAtMost'
  <2> DEFINE bill == [date |-> nextDate, on |-> today,
                      due |-> DueDate(nextDate, today)]
             n == Len(bills)
  <2>1. /\ bills' = Append(bills, bill) /\ nextDate' = MonthAfter(nextDate)
        /\ bills \in Seq(BillRecord) /\ n \in Nat /\ DOMAIN bills = 1..n
        /\ nextDate \in Date
    BY <1>1 DEF Bill, UpdateBillingDates, IInv, TypeOK, Dated, ValidDate
  <2>2. bill \in BillRecord /\ bill.date = nextDate
    <3>1. DueDate(nextDate, today) \in Date /\ today \in Date
      BY <2>1, DueDateValid, DaysAssumption DEF IInv, TypeOK, ValidDate
    <3>. QED  BY <2>1, <3>1 DEF BillRecord
  <2> HIDE DEF bill
  <2>3. /\ bills' \in Seq(BillRecord) /\ DOMAIN bills' = 1..(n + 1)
        /\ Len(bills') = n + 1 /\ bills'[n + 1] = bill
        /\ \A k \in 1..n : bills'[k] = bills[k]
    BY <2>1, <2>2
  <2>4. CASE n = 0
    <3>1. DOMAIN bills' = {1} /\ bills'[1].date = nextDate /\ Len(bills') = 1
      BY <2>1, <2>2, <2>3, <2>4
    <3>2. Monthly(nextDate, 0, nextDate) /\ Monthly(nextDate, 1, MonthAfter(nextDate))
      BY <2>1, MonthlyStart, MonthlyNext
    <3>. QED  BY <2>1, <3>1, <3>2 DEF SkipsOneMonthAtMost
  <2>5. CASE n > 0
    <3>1. bills # <<>> /\ 1 \in 1..n
      BY <2>1, <2>5
    <3> DEFINE first == bills[1].date
    <3>2. first \in Date /\ bills'[1].date = first
      <4>1. bills[1] \in BillRecord /\ bills'[1] = bills[1]
        BY <2>1, <2>3, <3>1
      <4>. QED  BY <4>1 DEF BillRecord
    <3>3. Monthly(first, n, nextDate)
      BY <3>1 DEF SkipsOneMonthAtMost
    <3> HIDE DEF first, n
    <3>4. Monthly(first, n + 1, MonthAfter(nextDate))
      BY <2>1, <3>2, <3>3, MonthlyNext
    <3>5. ASSUME NEW k \in 1..(n + 1)
          PROVE  Monthly(first, k - 1, bills'[k].date)
      <4>1. CASE k = n + 1
        <5>1. k - 1 = n
          BY <2>1, <4>1
        <5>. QED  BY <2>2, <2>3, <3>3, <4>1, <5>1
      <4>2. CASE k \in 1..n
        BY <2>1, <2>3, <4>2 DEF SkipsOneMonthAtMost, first
      <4>. QED  BY <2>1, <4>1, <4>2
    <3>. QED  BY <2>1, <2>3, <3>2, <3>4, <3>5 DEF SkipsOneMonthAtMost
  <2>. QED  BY <2>1, <2>4, <2>5
<1>2. CASE UNCHANGED vars
  BY <1>2 DEF vars, SkipsOneMonthAtMost
<1>. QED  BY <1>1, <1>2 DEF Next

(* A contract is billed for every month but one at most, on the same day of *)
(* the month but for one change, however many bills are made.               *)
THEOREM OneMonthSkippedAtMost == Spec => []SkipsOneMonthAtMost
<1>1. Init => SkipsOneMonthAtMost
  BY DEF Init, SkipsOneMonthAtMost
<1>. QED  BY <1>1, CalendarInvariant, SkipsStep, PTL DEF Spec
=============================================================================
