SPECIFICATION MCSpec
CONSTANTS
    Worker = {1, 2}
    Session = {1, 2}
    Home <- MCHome
    Row = {1, 2, 3}
    PartitionOf <- MCPartitionOf
    WorkerOf <- MCWorkerOf
    MaxTx <- MCMaxTx
    MaxCalls <- MCMaxCalls
    MaxFaults = 0
    TtlFires = TRUE
    k1 = k1
    BlindBase = BlindBase
PROPERTY EveryRequestReturns
CHECK_DEADLOCK FALSE
