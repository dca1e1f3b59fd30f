SPECIFICATION Spec
CONSTANTS
  FirstDates <- January
  DueDays = {1, 10, 28, 29, 30, 31}
  Days <- Winter
  MaxBills = 4
INVARIANTS
  TypeOK
  DueInTheFuture
  DueInOrder
CHECK_DEADLOCK FALSE
