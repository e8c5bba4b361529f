\* After one failed attempt every further attempt of the same GetPort fails.
SPECIFICATION Spec
CONSTANTS
  UniqueIDs = {d1, d2}
  NoID = NoID
  MIN_PORT_NUMBER = 1
  MAX_PORT_NUMBER = 4
  MAX_TRY_COUNT = 2
PROPERTIES RetryCanSucceed
\* The program stops where behaviour becomes undefined.
CHECK_DEADLOCK FALSE
