CONSTANTS
    Master = "listener"
    MaxFaults = 1
SPECIFICATION Spec
INVARIANTS NothingSwallowed HandshakeAgreed FailsForAReason
PROPERTY LoginEnds
