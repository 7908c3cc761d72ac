SPECIFICATION Spec
CONSTANTS
  Path = "query"
  MaxRetries = 2
  ConnectTimeout = 1
  PhaseTimeout = 6
  MaxBackoff = 1
  MaxParts = 3
INVARIANTS
  TypeOK
  TimeIsAccounted
CHECK_DEADLOCK FALSE
