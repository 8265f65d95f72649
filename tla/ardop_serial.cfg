SPECIFICATION Spec
CONSTANTS
  MaxWrites = 3
  MaxNoise = 0
  MaxFaults = 3
  TxCap = 2
  LineCap = 2
  RecvCap = 2
  IsTCP = FALSE
  MayDie = TRUE
INVARIANTS
  TypeOK
  FlushCoversCounted
CHECK_DEADLOCK FALSE
