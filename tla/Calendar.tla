------------------------------- MODULE Calendar -------------------------------
(* The dates of recurring billing as JavaScript's Date computes with them.  *)
(* Months are numbered from January 2000; the rule of four for leap years   *)
(* holds up to 2099.                                                        *)
EXTENDS Integers

DaysIn(m) ==
  CASE m % 12 \in {3, 5, 8, 10} -> 30
    [] m % 12 = 1 -> IF m % 48 = 1 THEN 29 ELSE 28
    [] OTHER -> 31

Date == [month : Nat, day : 1..31]

ValidDate(d) == d \in Date /\ d.day <= DaysIn(d.month)

NotAfter(a, b) ==
  \/ a.month < b.month
  \/ a.month = b.month /\ a.day <= b.day

(* Mutant: the day is taken as it is.                                       *)
DateUnchecked(m, d) == [month |-> m, day |-> d]

(* new Date(year, m, d): a day the month does not have is a day of the next *)
DateOf(m, d) ==
  IF d <= DaysIn(m) THEN [month |-> m, day |-> d]
                    ELSE [month |-> m + 1, day |-> d - DaysIn(m)]

(* date.setMonth(date.getMonth() + 1), and - 1                              *)
MonthAfter(date) == DateOf(date.month + 1, date.day)
MonthBefore(date) == DateOf(date.month - 1, date.day)
=============================================================================
