\* Devices that connect, send and disconnect at any time, and Stop.
SPECIFICATION Spec
CONSTANT SpuriousWakeups = FALSE
INVARIANTS
  TypeOK
  NoDataAfterStop
  MisuseOnlyOnError
PROPERTIES
  DisconnectReported
  AcceptsAgain
  StopEnds
CHECK_DEADLOCK FALSE
