SPECIFICATION Spec
CHECK_DEADLOCK FALSE
CONSTANTS
    Ts = {1, 2, 3}
    TupleId = {1, 2}
    Payload = {a}
    Cap = 2
    MaxWrites = 3
    MaxRounds = 1
    MaxCrashes = 1
    Reads = 0
    LogFirst = FALSE
    IoFails = FALSE
    InOrder = TRUE
INVARIANTS
    NeverRefused
