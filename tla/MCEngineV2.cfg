SPECIFICATION Spec
CONSTANTS
    Capacity = 2
    Modulus = 4
    kBatch = 2
    Inputs <- MCInputs
    MaxRuns = 2
INVARIANTS
    PoolOutlivesThreads
    FramesAccounted
PROPERTIES
    AbandonedOnlyAtStop
    StopReturns
\* An engine that was stopped for good.
CHECK_DEADLOCK FALSE
