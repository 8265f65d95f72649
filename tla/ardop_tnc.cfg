CONSTANTS
    Modes = {"dial", "listen"}
    IsTCP = TRUE
    DataCap = 1
    MaxLinks = 2
    MaxData = 3
SPECIFICATION Spec
INVARIANTS TypeOK NoHoles ReadsOwnLink
PROPERTY EofReaches
