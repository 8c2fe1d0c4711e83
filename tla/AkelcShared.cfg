SPECIFICATION GroupSpec
CONSTANTS
  Motors <- TwoMotors
  Targets = {0, 1}
  Lossy = FALSE
  GroupFresh = 1
INVARIANTS
  LeavesNoneRunning
CHECK_DEADLOCK FALSE
