SPECIFICATION MCSpec
SYMMETRY PayloadSymmetry
CHECK_DEADLOCK FALSE
CONSTANTS
    ReadPayload = c
    Ts = {1, 2, 3}
    TupleId = {1, 2}
    Payload = {a, b}
    Cap = 2
    MaxWrites = 3
    MaxRounds = 1
    MaxCrashes = 2
    Reads = 0
    LogFirst = TRUE
    IoFails = FALSE
    InOrder = TRUE
INVARIANTS
    FileHoldsWritten
    ChainSound
    ReadsRightBesideWriters
    CleanIsOnDiskBesideWriters
