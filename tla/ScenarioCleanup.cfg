SPECIFICATION Spec
CONSTANTS
  NumSteps = 5
  Kind <- MC_Kind
  MaxAttempts <- MC_MaxAttempts
  AbortReasons = {"scenarioTimeout", "skip", "abort"}
INVARIANT CleanupsAreInvoked
