CONSTANTS
    Worker = {1, 2}
    Session = {1, 2}
    Home <- MCHome
    Row = {1, 2}
    PartitionOf <- MCPartitionOfTwo
    WorkerOf <- MCWorkerOf
    MaxTx <- MCMaxTx
    MaxCalls <- MCMaxCalls
    MaxFaults = 1
    TtlFires = TRUE
SPECIFICATION MCSpec
INVARIANTS
    NoUpdateLost
    AppliedOnce
    AckedIsApplied
    LocksTracked
    TakesOwnAnswer
    NoAnswerLeft
CHECK_DEADLOCK FALSE
