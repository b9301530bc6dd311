SPECIFICATION MCSpec
CONSTANTS
    Conns <- MCConns
    Fds <- MCFds
    MAX_FD = 2
    kWireSize = 2
    BUF_SIZE = 3
    Capacity = 2
    MaxBytes <- MCMaxBytes
    MaxStarts = 2
INVARIANTS
    FramesWhole
    FramesAccounted
    SlotsConserved
    NoConnForgotten
PROPERTY
    StopReturns
CHECK_DEADLOCK FALSE
