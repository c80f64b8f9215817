SPECIFICATION MCSpec
CONSTANTS
    e1 = e1
    e2 = e2
    e3 = e3
    e4 = e4
    Entry = {e1, e2, e3, e4}
    Direct = {}
    Parts <- OnePart
    Slot = {s1, s2}
    MaxBatch = 2
    ChunkSize = 2
    Periodic = FALSE
    PowerLoss = TRUE
    IoFails = FALSE
    MaxCrashes = 2
CHECK_DEADLOCK FALSE
INVARIANTS
    CommittedSurvives
    WatermarkDurable
    PeriodicTracked
PROPERTY
    CommitReturns
