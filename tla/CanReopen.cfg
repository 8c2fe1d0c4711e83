SPECIFICATION Spec
CONSTANTS
  Callers = {c1, c2}
  kMaxTxQueue = 2
  EagerReopen = TRUE
  MaxOpens = 2
  MaxSends = 3
INVARIANTS
  OneWriteInFlight
CHECK_DEADLOCK FALSE
