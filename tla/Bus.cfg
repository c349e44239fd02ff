SPECIFICATION BusSpec
CONSTANTS
  Events = {e1, e2, e3}
  Subscribers = {s1, s2}
  SubBuffer = 1
  NoSub = NoSub
SYMMETRY Symmetry
INVARIANTS
  EverySubscriberServed
  StreamInOrder
CHECK_DEADLOCK FALSE
