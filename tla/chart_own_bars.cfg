SPECIFICATION Spec

CONSTANTS
    MaxFetches = 3
    MaxFrames = 2

INVARIANT DocOwnBars

CHECK_DEADLOCK FALSE
