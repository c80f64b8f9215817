SPECIFICATION FairSpec
CONSTANTS
    Session = {s1, s2}
    Row = {r1}
    Entry = {e1, e2}
    IsDirectory = TRUE
    MaxTs = 2
    MaxOid = 1
    MaxFds = 1
    GcRuns = TRUE
    MaxCrashes = 1
CHECK_DEADLOCK FALSE
PROPERTY
    AbortedReclaimed
