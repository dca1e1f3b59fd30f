SPECIFICATION FairSpec
CONSTANTS
  c1 = c1
  r1 = r1
  r2 = r2
  Contracts <- OneContract
  Requests <- TwoRequests
  Ops = {"billing", "terminate", "adjustDate", "adjustment", "put"}
  Lists <- OneOrTwo
  ItemCount = 1
  FirstDate <- January28
  Dates <- March
  MaxBilled = 2
  MaxCrashes = 1
INVARIANTS
  TypeOK
  AdjustmentsNotLost
  NoMonthSkipped
  ResultsAreWhole
  TerminationsOnRecord
  PaidTogether
PROPERTIES
  EveryRequestEnds
CHECK_DEADLOCK FALSE
