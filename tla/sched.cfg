SPECIFICATION FairSpec
CONSTANTS
  MaxTasks = 2
  MaxClock = 2
  MaxInterval = 1
  MaxDelay = 1
  MaxRepeats = 2
INVARIANTS
  ListKept
PROPERTIES
  DueSubmitted
  StopReturns
CHECK_DEADLOCK FALSE
