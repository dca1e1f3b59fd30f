---------------------------- MODULE BillingCalendar ----------------------------
(* When the bills of one recurring contract are due, and for which month, as *)
(* days pass and an operator bills it on some of them: the dates of          *)
(* contract-recurring.service.js, one bill after the other. What happens     *)
(* when bills are made at the same time is in ContractBilling.               *)
EXTENDS Calendar, Sequences

CONSTANTS
  FirstDates,  \* the next_billing_date it may be set to before its first bill
  DueDays,     \* the due_day it may have
  Days,        \* the days on which it may be billed
  MaxBills     \* how often it is billed

ASSUME FirstDatesAssumption == \A d \in FirstDates : ValidDate(d)
ASSUME DueDaysAssumption == DueDays \subseteq 1..31
ASSUME DaysAssumption == Days \subseteq Date
ASSUME MaxBillsAssumption == MaxBills \in Nat

VARIABLES
  nextDate,  \* contracts_recurring.next_billing_date
  dueDay,    \* contracts_recurring.due_day
  bills      \* its billings: the date billed, the due date, the day of billing

vars == <<nextDate, dueDay, bills>>

(* A contract is created without a next_billing_date, and not billed until  *)
(* adjust-billing-date or a PUT has set one.                                *)
Init ==
  /\ nextDate \in FirstDates
  /\ dueDay \in DueDays
  /\ bills = <<>>

(* Mutant: a due date of today is not late.                                 *)
DueDateToday(date, today) ==
  LET base == DateOf(date.month, dueDay)
  IN IF NotAfter(base, today) /\ base # today THEN MonthAfter(base) ELSE base

(* Mutant: the month is advanced here and by the branch of 'next current'.  *)
DueDateTwice(date, today) ==
  LET base == DateOf(date.month, dueDay)
  IN IF NotAfter(base, today) THEN MonthAfter(MonthAfter(base)) ELSE base

(* The due day of the month billed or, once it is past, one month later.    *)
(* Midnight of today is not after now. The contract's billing_reference is  *)
(* read under another name, so that its 'next current' never counts.        *)
DueDate(date, today) ==
  LET base == DateOf(date.month, dueDay)
  IN IF NotAfter(base, today) THEN MonthAfter(base) ELSE base

(* The month printed on the bill.                                           *)
Reference(due) == MonthBefore(due).month

(* One month on, from the date that was billed.                             *)
UpdateBillingDates == nextDate' = MonthAfter(nextDate)

Bill(today) ==
  /\ Len(bills) < MaxBills
  /\ \A k \in DOMAIN bills : NotAfter(bills[k].on, today)
  /\ bills' = Append(bills, [date |-> nextDate, on |-> today,
                             due |-> DueDate(nextDate, today)])
  /\ UpdateBillingDates
  /\ UNCHANGED dueDay

Next == \E today \in Days : Bill(today)

Spec == Init /\ [][Next]_vars

----------------------------------------------------------------------------
(* Every variable keeps its type: no date is ever one the calendar lacks.   *)
TypeOK ==
  /\ ValidDate(nextDate)
  /\ dueDay \in 1..31
  /\ \A k \in DOMAIN bills : ValidDate(bills[k].date) /\ ValidDate(bills[k].due)

(* A contract billed no later than in the month of its billing date gives a *)
(* bill that is not yet due, whatever its due day and the length of the     *)
(* months in between (contract-recurring.service.js:1114-1119). Billed      *)
(* later it may give one that is overdue: the month is advanced only once.  *)
DueInTheFuture ==
  \A k \in DOMAIN bills :
    bills[k].on.month <= bills[k].date.month
      => ~NotAfter(bills[k].due, bills[k].on)

(* The bills of a contract with a due day every month has come due in the   *)
(* order they are made, at most two on one day, though a bill made after    *)
(* its due day is due when the next one is (line 1117), and each names the  *)
(* month before the one it is due in (line 1149).                           *)
DueInOrder ==
  dueDay <= 28 =>
    /\ \A j, k \in DOMAIN bills :
         /\ j < k => NotAfter(bills[j].due, bills[k].due)
         /\ j + 1 < k => bills[j].due # bills[k].due
    /\ \A k \in DOMAIN bills :
         Reference(bills[k].due) = bills[k].due.month - 1
=============================================================================
