SPECIFICATION Spec
CONSTANTS
  MaxSessions = 2
  MaxQueue = 2
INVARIANTS
  CommandsKeepTheirSession
  OnlyLatePoolsFault
  OneLatePhoto
  NobodyWaitsForGood
PROPERTIES
  LifecycleReturns
CHECK_DEADLOCK FALSE
