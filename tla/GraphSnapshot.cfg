CONSTANTS
  Names <- MCNames
  Argv <- MCArgv
  MaxNodes = 3
  MaxEdges = 3
SPECIFICATION FairSnapshotSpec
INVARIANTS
  TypeOK
  SlicesMatchDocument
  ScheduleIsSafe
PROPERTIES
  TextIsLoaded
  ImplementsLoad
