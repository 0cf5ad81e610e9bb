SPECIFICATION FairSpec
CONSTANTS
  Calls = {c1, c2}
  Connections = {k1}
  SelfEnding = {c1}
  MaxStatements = 2
  None = None
INVARIANTS
  ConnectionIsOwned
  IdleConnectionsAreClean
PROPERTIES
  KeepsTransactions
  EveryCallEnds
CHECK_DEADLOCK FALSE
