CONSTANTS
  ExitCodes = {0, 1}
  Leader = leader
  Descendants = {}
  CanDetach = {}
  PipeCapacity = 2
  ReadSize = 1
  MaxInput = 2
SPECIFICATION FairSpec
INVARIANTS
  NoOutputLost
PROPERTIES
  ImplementsContract
  FullPipeIsDrained
  StoppedGroupDies
  TimeoutIsArmed
  DeadCommandReturns
