CONSTANTS
    Tile = 3
    WorkGroupSize = 2
    Inputs <- MCInputs
    Garbage <- MCGarbage
    SegmentIdBits = 4
SPECIFICATION Spec
INVARIANTS TypeOK KernelSum InBoundsWrites
PROPERTIES SegmentSumRefined
CHECK_DEADLOCK FALSE
