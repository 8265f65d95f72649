CONSTANTS
    Alphabet = 2
    N = 16
    F = 3
    Threshold = 1
    MaxFreq = 9
    Space = 1
    MaxWrites = 10
    Starts <- MCStarts
    MaxDamaged = 3
    ReadSizes = {1, 2}
SPECIFICATION Spec
INVARIANTS RoundTrip CloseVouches SearchTree CodesSound
