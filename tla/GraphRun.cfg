CONSTANTS
  ExitCodes = {0, 1}
  MaxNodes = 3
SPECIFICATION Spec
INVARIANTS
  ReportsNest
  FedByParent
  SinksAreRendered
PROPERTIES
  ImplementsRun
