CONSTANTS
  ExitCodes = {0, 1}
  MaxLines = 3
  MaxIterations = 2
SPECIFICATION PipelineSpec
INVARIANTS
  ReportsNest
  FedByPredecessor
  OutputIsOfLastRun
PROPERTIES
  ImplementsRun
