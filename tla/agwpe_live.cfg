CONSTANTS
    Directions = {FALSE}
    DataCap = 1
    MaxFrame = 1
    MaxRemote = 2
    MaxWrites = 0
    Reads = TRUE
SPECIFICATION Spec
INVARIANTS OnlyDropsLose DialMissesNothing
PROPERTIES CloseReturns EofReaches
