CONSTANTS
  ExitCodes = {0, 1}
  Leader = leader
  Descendants = {}
  CanDetach = {}
  PipeCapacity = 1
  ReadSize = 1
  MaxInput = 2
SPECIFICATION FairSpec
PROPERTIES
  TimeoutIsArmed
