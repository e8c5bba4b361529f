\* The life of the whole program with two devices.
SPECIFICATION Spec
CONSTANTS
  UniqueIDs = {d1, d2}
  NoID = NoID
INVARIANTS
  TypeOK
  ObjectsOutliveUse
  WaitedForRuns
PROPERTIES
  ExitsUnlessStranded
CHECK_DEADLOCK FALSE
