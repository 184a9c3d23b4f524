SPECIFICATION Spec

CONSTANTS
    HandshakeTimeout = 2
    FetchTimeout = 3
    MinDelay = 1
    MaxDelay = 2
    Deadlines = {0, 1, 4, 9, 14}
    MaxStall = 2
    MaxTime = 26

INVARIANTS TypeOK EndsInTime ByDeadline CancelNoticed
