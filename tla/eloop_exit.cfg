SPECIFICATION Spec
CONSTANTS
  MaxJobs = 0
  MaxTimers = 2
  MaxMade = 2
  MaxDelay = 1
  MaxDepth = 2
  MaxMail = 0
  JobCap = 1
INVARIANTS
  RunsUntilNoPending
CHECK_DEADLOCK FALSE
