SPECIFICATION MCSpec
CONSTANTS
  c1 = c1
  c2 = c2
  Callers = {c1, c2}
  Commands <- BaseCommands
  Versions = {"v1", "v2"}
  Expected = "v1"
  CounterMod = 8
  MaxDelta = 2
  Timeout = 1
  Capacity = 2
  FirstDraws = {0, 6, 7}
  MaxSends = 4
  MaxIssued = 4
  MaxRestarts = 1
  Numbers <- CodecNumbers
  Bytes = {0, 1, 2, 4, 255}
  Counts = {0, 255}
  Flips <- CodecFlips
INVARIANTS
  TypeOK
  CommandsAgree
  FramesAgree
PROPERTIES
  ToleratesLoss
  CommandsInOrder
  BaseStops
CHECK_DEADLOCK FALSE
