SPECIFICATION MCSpec
CONSTANTS
    m1 = m1
    m2 = m2
    m3 = m3
    Mbufs = {m1, m2, m3}
    burst = 2
    p1 = p1
    p2 = p2
    Packet = {p1, p2}
    Nothing = Nothing
    MaxPackets = 4
    MaxRuns = 2
INVARIANTS
    MbufsConserved
    SourceCleanedUp
    ProcessedInOrder
PROPERTY
    StopEndsRun
\* An engine whose runs have ended.
CHECK_DEADLOCK FALSE
