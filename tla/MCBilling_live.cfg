SPECIFICATION FairSpec
CONSTANTS
  r1 = r1
  r2 = r2
  r3 = r3
  N = 2
  Requests <- OneRequest
  Ops = {"cancel", "boletos", "generate", "pay", "cancelBoletos", "putMovement", "putBoleto"}
  MaxCrashes = 1
INVARIANTS
  CreationAllOrNothing
  RequestsEmitOnlyCommitted
PROPERTIES
  EveryRequestAnswered
  TimersRun
CHECK_DEADLOCK FALSE
