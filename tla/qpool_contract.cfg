CONSTANTS
    Inputs <- MCContractInputs
    Faults <- MCFaults
    Unset = Unset
SPECIFICATION Spec
INVARIANT ReturnContract
CHECK_DEADLOCK FALSE
