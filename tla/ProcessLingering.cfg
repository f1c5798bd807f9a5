CONSTANTS
  ExitCodes = {0, 1}
  Leader = leader
  Descendants = {child}
  CanDetach = {}
  PipeCapacity = 1
  ReadSize = 1
  MaxInput = 0
SPECIFICATION FairSpec
PROPERTIES
  StoppedGroupDies
