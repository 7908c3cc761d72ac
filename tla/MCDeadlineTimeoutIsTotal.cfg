SPECIFICATION Spec
CONSTANTS
  Path = "transact"
  MaxRetries = 2
  ConnectTimeout = 1
  PhaseTimeout = 6
  MaxBackoff = 1
  MaxParts = 3
INVARIANTS
  TimeoutIsTotal
CHECK_DEADLOCK FALSE
