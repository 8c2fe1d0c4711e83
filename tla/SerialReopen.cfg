SPECIFICATION Spec
CONSTANTS
  Callers = {c1}
  Capacity = 3
  MaxLen = 2
  MaxOpens = 2
  MaxBytes = 3
INVARIANTS
  NoStall
CHECK_DEADLOCK FALSE
