SPECIFICATION Spec
CONSTANTS
  Callers = {c1}
  Commands <- MotionCommands
  Versions = {"v1"}
  Expected = "v1"
  CounterMod = 8
  MaxDelta = 2
  Timeout = 1
  Capacity = 1
  FirstDraws = {0}
  MaxSends = 4
  MaxIssued = 4
  MaxRestarts = 0
INVARIANTS
  NoSilentResume
CHECK_DEADLOCK FALSE
