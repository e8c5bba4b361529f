\* Two devices on four ports, two attempts: attempts fail and succeed, ports
\* are exhausted by deallocations, and other processes hold any set of ports.
SPECIFICATION Spec
CONSTANTS
  UniqueIDs = {d1, d2}
  NoID = NoID
  MIN_PORT_NUMBER = 1
  MAX_PORT_NUMBER = 4
  MAX_TRY_COUNT = 2
INVARIANTS
  TypeOK
  AllocatorPartitions
  RegistriesAgree
  OnePublisherPerID
  UsedPortsAccounted
PROPERTIES
  ImplementsPortService
\* The program stops where behaviour becomes undefined.
CHECK_DEADLOCK FALSE
