SPECIFICATION Spec
CONSTANTS
  Requests <- Asked
  Limit = 1
  Timeout = 1
  Capacity = 2
  MaxSessions = 2
  MaxSends = 3
INVARIANTS
  CoastsAfterDisconnect
CHECK_DEADLOCK FALSE
