SPECIFICATION Spec
CONSTANTS
  r1 = r1
  r2 = r2
  r3 = r3
  N = 1
  Requests <- ThreeRequests
  Ops = {"cancel", "boletos", "generate", "pay", "cancelBoletos", "putMovement", "putBoleto"}
  MaxCrashes = 1
SYMMETRY RequestSymmetry
INVARIANTS
  TypeOK
  EmissionAtMostOnce
  CancelledMeansCancelledAtBank
  CleanCancelReachesBank
  PaymentRecorded
  BoletoCancelledOnDemand
PROPERTIES
  BoletoSpec
CHECK_DEADLOCK FALSE
