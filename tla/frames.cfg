SPECIFICATION Spec

CONSTANTS
    Bodies <- MCBodies
    Offs <- MCOffs
    MaxFrames = 3

INVARIANTS WrongLengthIsContained PongEchoesFirst
