\* An audio header cut after its second cell.
SPECIFICATION Spec
CONSTANTS
  PASS_THROUGH_HEADER_SIZE = 2
  AUDIO_HEADER_SIZE = 3
  VIDEO_HEADER_SIZE = 4
  BufferSize = 8
  MaxChunk = 3
  Bodies <- SmallBodies
  MaxPackets = 3
  MaxSessions = 1
INVARIANT SplitHeadersHarmless
CHECK_DEADLOCK FALSE
