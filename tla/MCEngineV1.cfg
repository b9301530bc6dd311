SPECIFICATION MCSpec
CONSTANTS
    Capacity = 2
    BATCH = 2
    SeqModulus = 16
    Inputs <- MCInputs
    BadDatagram = BadDatagram
    MaxRuns = 2
INVARIANTS
    SlotsConserved
    FramesIntact
    FramesAccounted
    NoLostEdge
PROPERTY StopReturns
\* An engine that was stopped for good, or terminated.
CHECK_DEADLOCK FALSE
