\* Two connections, bodies around the size of the buffer.
SPECIFICATION Spec
CONSTANTS
  Connections = {c1, c2}
  Infos = {i1, i2}
  NULL = NULL
  MAX_BUFFER_SIZE = 3
  MaxBody = 4
INVARIANTS
  TypeOK
  OneInfoPerRequest
  BodyParsedToZero
