SPECIFICATION FairSpec
CONSTANTS
  Numbers = {1, 2, 3}
  Jobs = {1}
  MaxAsks = 2
  Batches = {1, 2}
  Keys = 3
  Doubled = 2
  Deletions = 1
  HistoryCap = 3
INVARIANTS
  RunsOncePerAsking
  BatchIsAnswered
PROPERTIES
  UserGetsOut
CHECK_DEADLOCK FALSE
