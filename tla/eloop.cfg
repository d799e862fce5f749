SPECIFICATION FairSpec
CONSTANTS
  MaxJobs = 2
  MaxTimers = 2
  MaxMade = 3
  MaxDelay = 1
  MaxDepth = 2
  MaxMail = 1
  JobCap = 1
INVARIANTS
  WorkKept
  IdleExitSound
PROPERTIES
  ClearedNeverFires
  TimersFire
  LoopEnds
CHECK_DEADLOCK FALSE
