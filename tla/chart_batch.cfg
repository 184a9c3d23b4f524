SPECIFICATION Spec

CONSTANTS
    MaxFetches = 3
    MaxFrames = 2

PROPERTY DocBatchDecides

CHECK_DEADLOCK FALSE
