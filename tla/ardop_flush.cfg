SPECIFICATION Spec
CONSTANTS
  MaxWrites = 3
  MaxNoise = 0
  MaxFaults = 0
  TxCap = 2
  LineCap = 2
  RecvCap = 3
  IsTCP = TRUE
  MayDie = FALSE
INVARIANTS
  FlushMeansDrained
CHECK_DEADLOCK FALSE
