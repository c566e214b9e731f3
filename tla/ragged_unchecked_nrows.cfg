CONSTANTS
    Inputs <- MCUncheckedNRowsInputs
    Default = Default
    Unset = Unset
SPECIFICATION Spec
INVARIANT NRowsValidated
CHECK_DEADLOCK FALSE
