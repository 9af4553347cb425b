SPECIFICATION FairSpec
CONSTANTS
  Connections = {c1, c2}
  MaxClients = 1
  MaxInput = 1
  ReplyParts = 2
  IdleTimeout = 0
  RetryDelay = 1
  c1 = c1
  c2 = c2
PROPERTIES
  ClientsLeave
  StopEnds
  ListenerFollows
