SPECIFICATION Spec
CONSTANTS
  r1 = r1
  r2 = r2
  r3 = r3
  N = 1
  Requests <- ThreeRequests
  Ops = {"generate", "cancelBoletos"}
  MaxCrashes = 0
INVARIANTS
  CancelsEveryBoleto
CHECK_DEADLOCK FALSE
