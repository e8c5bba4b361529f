\* Both publishing loops: overflow (two places for three fragments of each
\* kind), drops in the middle of a frame, audio in several fragments, every
\* order of the threads.
SPECIFICATION Spec
CONSTANTS
  SpuriousWakeups = FALSE
  MaxQueue = 2
  MaxVideo = 3
  MaxAudio = 3
INVARIANTS
  TypeOK
  EmptyDequesNotRead
  ContextOpenWhileWritten
  
  StoppedMeansQuiet
PROPERTIES
  VideoServed
  StopReleasesWaiter
CHECK_DEADLOCK FALSE
