SPECIFICATION Spec
CONSTANTS
    Capacity = 2
    Modulus = 4
    kBatch = 2
    Inputs <- MCInputs
    MaxRuns = 1
INVARIANT
    CycleKeepsSlots
CHECK_DEADLOCK FALSE
