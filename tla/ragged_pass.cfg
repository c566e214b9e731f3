CONSTANTS
    Inputs <- MCInputs
    Default = Default
    Unset = Unset
SPECIFICATION Spec
INVARIANTS TypeOK FillCorrect
CHECK_DEADLOCK FALSE
