SPECIFICATION FairSpec
CONSTANTS
  MaxInbox = 3
INVARIANTS
  ReadyMeansNetwork
  RadiosRestored
PROPERTIES
  NetworkComesUp
