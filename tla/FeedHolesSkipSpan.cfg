SPECIFICATION Spec
CONSTANTS
    B = 2
    SeqModulus = 256
    Versions = {1, 2}
    count = 5
    burst_size = 3
    gap_mod = 5
    gap_span = 2
    Seeds <- MCSeeds
    symbol_count = 3
    PriceRange = 100
    SizeRange = 6
    Samples <- MCSamples
    kMaxSendRetries = 1
    MaxCalls = 2
    MaxFaults = 2
INVARIANT HolesSkipSpan
CHECK_DEADLOCK FALSE
