SPECIFICATION Spec
CONSTANTS
  FrameLen = 2
  Room = 3
  ids <- TwoMotors
  Strangers = {3}
  Speeds = {0, 1}
  Requests = {"mode"}
  Provisioned = {2}
  TxRoom = 1
  Timeout = 0
  MaxSessions = 2
  MaxSends = 2
  MaxAir = 2
  MaxNoise = 1
INVARIANTS
  TypeOK
  HeardThisSession
  StopHalts
PROPERTIES
  FramesAreHandled
CHECK_DEADLOCK FALSE
