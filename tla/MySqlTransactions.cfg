SPECIFICATION FairSpec
CONSTANTS
  Calls = {c1, c2, c3}
  Connections = {k1, k2}
  Asking = {c2}
  Deadlocking = {c3}
  SelfEnding = {c1}
  MaxStatements = 1
  None = None
INVARIANTS
  ConnectionIsOwned
PROPERTIES
  KeepsTransactions
  EveryCallEnds
CHECK_DEADLOCK FALSE
