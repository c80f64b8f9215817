CONSTANTS
    Worker = {1, 2}
    Session = {1, 2}
    Home <- MCHome
    Row = {1, 2}
    PartitionOf <- MCPartitionOfTwo
    WorkerOf <- MCWorkerOf
    MaxTx <- MCMaxTx
    MaxCalls <- MCMaxCalls
    MaxFaults = 0
    TtlFires = FALSE
SPECIFICATION Spec
INVARIANT AckedApplied
CHECK_DEADLOCK FALSE
