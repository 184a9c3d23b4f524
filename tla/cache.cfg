SPECIFICATION Spec

CONSTANTS
    day = day
    hour = hour
    minute = minute
    odd = odd
    d1 = d1
    d2 = d2
    Nothing = Nothing
    Keys <- MCKeys
    Data <- MCData
    TTL <- MCTTL
    CacheSize = 2
    MaxTime = 4

SYMMETRY MCSymmetry

INVARIANTS TypeOK IndexMatchesList
PROPERTIES EvictsOnlyOldest ImplementsTTLMap

CHECK_DEADLOCK FALSE
