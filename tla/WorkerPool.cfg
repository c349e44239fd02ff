SPECIFICATION FairSpec
CONSTANTS
  Jobs = {j1, j2, j3}
  Workers = {w1, w2}
  QueueDepth = 1
  NoJob = NoJob
INVARIANTS
  CancelTableExact
PROPERTIES
  AcceptedIsReported
  ShutdownReturns
  ImplementsJobService
CHECK_DEADLOCK FALSE
