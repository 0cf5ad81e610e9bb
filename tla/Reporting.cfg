SPECIFICATION ReportingSpec
CONSTANTS
  NumScenarios = 3
  MaxConcurrency = 2
  MaxFailures = 2
  ReporterFails = TRUE
INVARIANTS
  OneResultEach
  BatchesDoNotOverlap
  ReportHasNoHoles
  SummaryAgrees
PROPERTIES
  NoStartAfterFailures
  NoStartAfterBreak
  RunCompletes
  LossIsNoticed
CHECK_DEADLOCK FALSE
