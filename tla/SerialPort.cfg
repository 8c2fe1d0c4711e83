SPECIFICATION MCSpec
CONSTANTS
  Callers = {c1, c2}
  Capacity = 3
  MaxLen = 2
  MaxOpens = 2
  MaxBytes = 3
  Items = {1, 2}
  N = 4
  Words = 8
  MaxBurst = 4
INVARIANTS
  PortTypeOK
  OneOfEach
  StallsOnlyAfterAbort
  NoSilentDeath
PROPERTIES
  ImplementsPipe
  CloseReturns
  RingIsQueue
CHECK_DEADLOCK FALSE
