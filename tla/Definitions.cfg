SPECIFICATION DefinitionsSpec
CONSTANTS
  Roots <- MC_Roots
  Calls <- MC_Calls
  MaxCalls = 2
  MaxDefinitions = 2
  Tree <- MC_Tree
  Spellings <- MC_Spellings
  PathSets <- MC_PathSets
  Inputs <- MC_Inputs
INVARIANTS
  StepsAreThoseOfTheChain
  EachWantedScenarioOnce
CHECK_DEADLOCK FALSE
