SPECIFICATION FairSpec
CONSTANT MaxMessages = 4
INVARIANTS
  CloseStopsTheStream
PROPERTIES
  KeepsOrder
  NothingStaysBehind
CHECK_DEADLOCK FALSE
