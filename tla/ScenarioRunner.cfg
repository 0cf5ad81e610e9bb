SPECIFICATION FairSpec
CONSTANTS
  NumSteps = 5
  Kind <- MC_Kind
  MaxAttempts <- MC_MaxAttempts
  AbortReasons = {"scenarioTimeout", "skip", "abort"}
INVARIANTS
  ReleasedBeforeVerdict
  PassedStepsAreOwned
  FirstFailureDecides
  ContextIsThePassedSteps
PROPERTIES
  NoOverlap
  KeepsPromise
  Terminates
