\* Two threads that notify twice each, a queue that is full with two messages.
SPECIFICATION Spec
CONSTANTS
  Producers = {p1, p2}
  SpuriousWakeups = FALSE
  MaxQueue = 1
  MaxMessages = 2
INVARIANTS
  TypeOK
  InOrder
  MessagePresent
PROPERTIES
  Exclusive
  NotifiedIsSent
  StopEnds
CHECK_DEADLOCK FALSE
