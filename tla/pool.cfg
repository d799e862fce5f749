SPECIFICATION FairSpec
CONSTANTS
  N = 2
  Clients = {c1, c2}
  Waiters = {c1}
  Tasks = {t1}
  Terminate = Terminate
  None = None
  Victims <- Victims2
  StartMayFail = TRUE
  AllocMayFail = TRUE
  Spurious = TRUE
  CallerFrees = FALSE
INVARIANTS
  
  
  NoLostWakeup
  
  NoLostDone

  
CHECK_DEADLOCK FALSE
