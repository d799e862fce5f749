SPECIFICATION FairSpec
CONSTANTS
  Workers = {w1, w2}
  Submitters = {s1, s2}
  Cap = 2
  MaxSubmits = 3
  Nobody = nobody
INVARIANTS
  RingExact
  LossNeedsWrap
PROPERTIES
  TaskTaken
  ShutdownReturns
CHECK_DEADLOCK FALSE
