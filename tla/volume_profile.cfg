SPECIFICATION Spec

CONSTANTS
    Bins = 4
    Lookback = 3
    Prices = {0, 1, 2, 3, 4, 5}
    Volumes = {0, 12, 36}

INVARIANTS EveryBarCounted AreaHoldsTarget
