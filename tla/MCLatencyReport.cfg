\* A run of four frames and one of three.
CONSTANTS
    Latencies <- MCLatencies
    kLatencyBucketWidthNs = 2
    kLatencyBucketCount = 2
    MaxFrames = 4
    MaxRuns = 2
SPECIFICATION ReportSpec
INVARIANT SamplesConserved
INVARIANT MaxTold
INVARIANT QuietReportExact
\* No more frames, and the engine stopped for good.
CHECK_DEADLOCK FALSE
