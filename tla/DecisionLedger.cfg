CONSTANTS
  Processes = {p1, p2}
  MaxEdits = 1
SPECIFICATION Spec
SYMMETRY ProcessSymmetry
INVARIANTS
  TypeOK
  LinksAreExact
  EventsTellState
  IndexIsWhole
  UpdatesStick
PROPERTY AuditIsComplete
