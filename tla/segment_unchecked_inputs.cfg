CONSTANTS
    Tile = 3
    WorkGroupSize = 2
    Inputs <- MCUncheckedInputs
    Garbage <- MCGarbage
    SegmentIdBits = 4
SPECIFICATION Spec
INVARIANT HostValidatesInputs
CHECK_DEADLOCK FALSE
