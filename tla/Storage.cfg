SPECIFICATION MCSpec
CONSTANTS
    Session = {s1, s2}
    Row = {r1}
    e1 = e1
    Key = {1, 2}
    Xid = {1, 2, 3}
    Batch <- MCBatch
    Foreign <- MCForeign
    StripeOf <- MCStripeOf
    Amount <- MCAmount
    Start = 3
    Limit = 3
    Window = 2
    WalFirst = TRUE
    MaxFaults = 1
    MaxCrashes = 2
    MaxBoth = 2
INVARIANTS
    LatestIsLogged
    OneTupleId
    ReadsNewestVisible
    RefusedOnlyByLog
    NoStripeCycle
    SealedHasContent
    ReferencedHasRow
CHECK_DEADLOCK FALSE
