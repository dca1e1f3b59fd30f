SPECIFICATION FairSpec
CONSTANTS
  w = w
  r1 = r1
  r2 = r2
  Requests <- TwoRequests
  Worker = w
  MaxTask = 4
  MaxEdge = 5
  InitialStatus <- InitialStatuses
  InitialEdges <- InitialDependencies
  RequestStatuses <- Statuses
  BatchSize = 2
  MaxRetries = 2
  MaxFaults = 1
INVARIANTS TypeOK StatusIsLogged CycleNeedsRace
PROPERTIES AttemptIsOwed QueueSpec PendingIsTaken
CHECK_DEADLOCK FALSE
