SPECIFICATION WheelSpec
CONSTANTS
  MotorIds = {1, 2}
  Turns = 2
  WheelFresh = 1
  MaxWire = 2
  MaxOpens = 2
INVARIANTS
  ModeConfirmed
CHECK_DEADLOCK FALSE
