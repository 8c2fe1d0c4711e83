SPECIFICATION MCSpec
CONSTANTS
  Requests <- VescRequests
  Limit = 1
  Timeout = 1
  Capacity = 2
  MaxSessions = 2
  MaxSends = 3
  Servos = {1, 2}
  Chains <- OneOrTwo
  NewIds = {3}
  Fresh = 0
  MotorIds = {1, 2}
  Turns = 2
  WheelFresh = 0
  MaxWire = 1
  MaxOpens = 2
  Motors <- TwoMotors
  Targets = {0, 1, 40000}
  Lossy = TRUE
  GroupFresh = 1
  Amounts <- WireAmounts
  Drives = {1, 100}
  Damage <- WireDamage
INVARIANTS
  MotorsTypeOK
  HealthIsTrue
  MotorsObey
  MotorFramesMean
  IdFollows
PROPERTIES
  SilentWhenDisconnected
  StopTakesEffect
  CallsReturn
  GroupCommands
CHECK_DEADLOCK FALSE
