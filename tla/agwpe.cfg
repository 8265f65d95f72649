CONSTANTS
    Directions = {TRUE}
    DataCap = 1
    MaxFrame = 1
    MaxRemote = 1
    MaxWrites = 2
    Reads = TRUE
SPECIFICATION Spec
INVARIANT FlushMeansDrained
