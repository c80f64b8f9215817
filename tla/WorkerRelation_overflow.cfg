SPECIFICATION Spec
CONSTANTS
    Key = {1, 2}
    Xid = {1, 2, 3}
    Batch <- MCBatch
    Foreign <- MCForeign
    StripeOf <- MCStripeOf
    Amount <- MCAmount
    Start = 3
    Limit = 3
    Window = 2
    WalFirst = TRUE
    MaxFaults = 0
    MaxCrashes = 1
    MaxBoth = 1
INVARIANT NeverRefused
CHECK_DEADLOCK FALSE
