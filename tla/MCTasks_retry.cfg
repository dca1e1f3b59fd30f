SPECIFICATION FairSpec
CONSTANTS
  w = w
  r1 = r1
  r2 = r2
  Requests <- TwoRequests
  Worker = w
  MaxTask = 3
  MaxEdge = 4
  InitialStatus <- InitialStatuses
  InitialEdges <- InitialDependencies
  RequestStatuses <- Statuses
  BatchSize = 2
  MaxRetries = 2
  MaxFaults = 0
PROPERTY RetryHappens
CHECK_DEADLOCK FALSE
