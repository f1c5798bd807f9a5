CONSTANTS
  ExitCodes = {0, 1}
  MaxLines = 2
SPECIFICATION Spec
INVARIANTS
  StartedProcessIsClosed
