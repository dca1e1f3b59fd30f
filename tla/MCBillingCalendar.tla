--------------------------- MODULE MCBillingCalendar ---------------------------
(* Instances of BillingCalendar for TLC: the first months of 2024.          *)
EXTENDS BillingCalendar

Edges == {1, 10, 28, 29, 30, 31}
January == {[month |-> 288, day |-> d] : d \in Edges}
Winter == {d \in [month : 287..290, day : Edges] : d.day <= DaysIn(d.month)}
=============================================================================
