\* Headers of two, three and four cells, packets of up to six, chunks of up
\* to three, and a buffer in which the largest packet leaves room for a
\* chunk less one: 6 - 1 + 3 = 8.
SPECIFICATION Spec
CONSTANTS
  PASS_THROUGH_HEADER_SIZE = 2
  AUDIO_HEADER_SIZE = 3
  VIDEO_HEADER_SIZE = 4
  BufferSize = 8
  MaxChunk = 3
  Bodies <- SmallBodies
  MaxPackets = 3
  MaxSessions = 1
INVARIANTS
  TypeOK
  InBounds
  DeliveredAsSent
  NothingHeldBack
PROPERTIES
  LoopEnds
CHECK_DEADLOCK FALSE
