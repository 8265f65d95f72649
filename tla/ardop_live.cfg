SPECIFICATION FairSpec
CONSTANTS
  MaxWrites = 1
  MaxNoise = 3
  MaxFaults = 1
  TxCap = 1
  LineCap = 1
  RecvCap = 1
  IsTCP = FALSE
  MayDie = FALSE
PROPERTIES
  CloseReturns
  ControlLoopLive
  EofReleases
CHECK_DEADLOCK FALSE
