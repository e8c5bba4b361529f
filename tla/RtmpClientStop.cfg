\* Stop while the publishing thread is not waiting and has read everything.
SPECIFICATION Spec
CONSTANTS
  SpuriousWakeups = FALSE
  MaxQueue = 2
  MaxVideo = 3
  MaxAudio = 2
PROPERTIES StopTerminates
CHECK_DEADLOCK FALSE
