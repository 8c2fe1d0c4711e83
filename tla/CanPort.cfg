SPECIFICATION FairSpec
CONSTANTS
  Callers = {c1, c2}
  kMaxTxQueue = 1
  EagerReopen = FALSE
  MaxOpens = 2
  MaxSends = 2
INVARIANTS
  TypeOK
  OneOfEach
  NoStall
  FaultsAreTrue
PROPERTIES
  ImplementsLink
  FrameLeaves
  CloseReturns
CHECK_DEADLOCK FALSE
