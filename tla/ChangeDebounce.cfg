SPECIFICATION DebounceFairSpec
CONSTANTS
  Writes = {w1, w2, w3, w4}
  Timers = {t1, t2, t3}
  NoTimer = NoTimer
INVARIANTS
  NoChangeLost
PROPERTIES
  NoEventInsideWindow
  WritesAreAnnounced
CHECK_DEADLOCK FALSE
