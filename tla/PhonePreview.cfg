SPECIFICATION FairSpec
CONSTANTS
  MaxSessions = 2
  MaxVersion = 2
  MaxPolls = 2
  MaxLoads = 2
INVARIANTS
  PhotosNeedThePin
  NeverBelievesNewer
PROPERTIES
  ShowsNewest
CHECK_DEADLOCK FALSE
