SPECIFICATION Spec
CONSTANTS
  c1 = c1
  r1 = r1
  r2 = r2
  Contracts <- OneContract
  Requests <- TwoRequests
  Ops = {"billing"}
  Lists <- OneByOne
  ItemCount = 1
  FirstDate <- January28
  Dates <- March
  MaxBilled = 2
  MaxCrashes = 0
INVARIANTS
  OneBillingPerMonth
CHECK_DEADLOCK FALSE
