CONSTANTS
    Inputs <- MCInputs
    Faults <- MCFaults
    Unset = Unset
SPECIFICATION Spec
INVARIANTS PrimitiveReturnComplete
CHECK_DEADLOCK FALSE
