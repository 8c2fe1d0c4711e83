SPECIFICATION MCSpec
CONSTANTS
  FrameLen = 5
  Timeout = 1
  Fields = {"acc", "gyr"}
  Payloads <- ImuPayloads
  MaxLen = 2
  ImuFresh = 0
  MaxFrames = 3
  MaxDamage = 2
  Keys = {"a", "b", "c"}
  Known = {"a", "c"}
  Room = 2
  Flips <- FewFlips
INVARIANTS
  InputsTypeOK
  ReadingsAreTrue
  FramesAreMeant
PROPERTIES
  LossReachesConsumer
  SilentWhenDisconnected
  StepRegained
  HotUnplugNoticed
CHECK_DEADLOCK FALSE
