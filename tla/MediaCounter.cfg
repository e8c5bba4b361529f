\* Two devices that come and go.
SPECIFICATION Spec
CONSTANTS
  UniqueIDs = {d1, d2}
  NoID = NoID
  MaxCount = 2
INVARIANTS
  TypeOK
  FilesAccounted
PROPERTIES
  Recorded
CHECK_DEADLOCK FALSE
