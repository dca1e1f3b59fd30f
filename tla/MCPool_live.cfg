SPECIFICATION FairSpec
CONSTANTS
  k1 = k1
  k2 = k2
  r1 = r1
  r2 = r2
  r3 = r3
  Clients <- TwoClients
  Requests <- ThreeRequests
  Handlers = {"read", "payment", "dueDate", "billing"}
  Nested = 3
INVARIANTS
  TypeOK
  ClientsAccounted
  StallNeedsTransactions
PROPERTIES
  EveryRequestAnswered
CHECK_DEADLOCK FALSE
