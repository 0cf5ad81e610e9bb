SPECIFICATION AllSpec
CONSTANT Requests <- MCRequests
INVARIANTS
  PassedAssertionsAreEarned
  EveryResultIsReadable
PROPERTIES
  KeepsPromise
  TimedCallsEnd
CHECK_DEADLOCK FALSE
