SPECIFICATION Spec
CONSTANTS
  Calls = {c1, c2}
  SelfEnding = {c2}
  MaxStatements = 2
INVARIANTS
  NothingIsLeftOpen
PROPERTIES
  KeepsTransactions
CHECK_DEADLOCK FALSE
