SPECIFICATION FairSpec
CONSTANTS
  MaxGeneration = 4
INVARIANTS
  ReadinessAgrees
PROPERTIES
  LiveViewIsLastResort
  ShotAnswered
CHECK_DEADLOCK FALSE
