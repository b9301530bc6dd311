SPECIFICATION Spec
CONSTANTS
    Packets <- MCPackets
    Later <- MCLater
    expected_dst_port = 8888
    SeqModulus = 8
    MaxFrames = 10
INVARIANTS
    ReadsInside
    WellFormedDecoded
    EveryFrameCounted
    GapsBalance
    GapsAreMissing
    NoneProcessedTwice
PROPERTY
    ExpectedAdvances
\* The last of the frames is decoded.
CHECK_DEADLOCK FALSE
