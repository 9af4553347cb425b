SPECIFICATION Spec
CONSTANTS
  Connections = {c1, c2, c3}
  MaxClients = 2
  MaxInput = 2
  ReplyParts = 1
  IdleTimeout = 0
  RetryDelay = 1
  c1 = c1
  c2 = c2
  c3 = c3
SYMMETRY Symmetry
INVARIANTS
  TypeOK
  HandledOnce
PROPERTIES
  NoInnocentClosed
