SPECIFICATION Spec
CONSTANTS
  r1 = r1
  r2 = r2
  r3 = r3
  N = 1
  Requests <- OneRequest
  Ops = {"boletos"}
  MaxCrashes = 0
INVARIANTS
  OneBoletoPerInstallment
CHECK_DEADLOCK FALSE
