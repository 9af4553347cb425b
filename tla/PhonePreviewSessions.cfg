SPECIFICATION FairSpec
CONSTANTS
  MaxSessions = 2
  MaxVersion = 1
  MaxPolls = 2
  MaxLoads = 2
PROPERTIES
  ShowsNewestOfEverySession
CHECK_DEADLOCK FALSE
