SPECIFICATION FairSpec
CONSTANTS
  Calls = {a, b}
  Deadlines = {a}
  Large = {b}
  Work = 3
  EventBuffer = 1
  SubBuffer = 1
INVARIANTS
  LatestEventArrives
PROPERTIES
  ImplementsRpcService
  NobodyIsLeftWaiting
CHECK_DEADLOCK FALSE
