SPECIFICATION FairSpec
CONSTANTS
  MaxWorkers = 2
  InCap = 2
  OutCap = 2
  MatchCap = 1
  MaxMsgs = 3

  
PROPERTIES
  AcceptedTaken
  TerminateStops
  PostedDelivered
CHECK_DEADLOCK FALSE
