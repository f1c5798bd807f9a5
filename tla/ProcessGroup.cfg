CONSTANTS
  ExitCodes = {0, 1}
  Leader = leader
  Descendants = {child}
  CanDetach = {child}
  PipeCapacity = 1
  ReadSize = 2
  MaxInput = 0
SPECIFICATION FairSpec
INVARIANTS
  TypeOK
  ResultIsOfReapedChild
  KillIsLastResort
PROPERTIES
  SignalsHitOwnGroup
  KillEndsRun
