SPECIFICATION Spec
CONSTANTS
  Screens = {"catalog", "edges", "lists", "stats", "labels", "patent", "editor"}
  Faults = 1
  Reopenings = 1
  Busy = FALSE
INVARIANTS
  CursorsStayInside
  SettledScreensAreFresh
  LoadingIsAnswered
  LandsOnTheAnchor
PROPERTY
  UndoBringsItBack
CHECK_DEADLOCK FALSE
