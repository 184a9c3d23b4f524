SPECIFICATION FairSpec
CONSTANTS
    Subs = {s1, s2}
    MaxBars = 2
    MaxInbox = 1
INVARIANTS
    TypeOK
    NoSocketLeft
    DeliveredInOrder
PROPERTIES
    CloseIsFinal
    CloseReturns
    KeepsStreaming
CHECK_DEADLOCK FALSE
