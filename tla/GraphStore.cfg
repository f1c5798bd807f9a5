CONSTANTS
  Processes = {p1, p2, p3}
  Graphs = {g}
  MaxExpected = 1
SPECIFICATION FairSpec
INVARIANTS
  TypeOK
  SchemaIsVersioned
  AppliedOnce
  StoreIsReady
  SavesAreSerial
PROPERTIES
  EveryCallEnds
  ImplementsRegister
