SPECIFICATION QueueSpec
CONSTANTS
    p1 = p1
    p2 = p2
    c1 = c1
    c2 = c2
    v1 = v1
    v2 = v2
    Producers = {p1, p2}
    Consumers = {c1, c2}
    Closer = Closer
    Values = {v1, v2}
    kCapacity = 2
    MaxCalls = 4
INVARIANTS
    BufferHoldsQueue
    NoConsumerForgotten
    NoProducerForgotten
PROPERTY
    CloseReleasesAll
CHECK_DEADLOCK FALSE
