SPECIFICATION Spec
CONSTANTS
    Worker = {1, 2}
    DdlSession = {"d1"}
    StmtSession = {"q1"}
    Home <- MCHome
    Name = {"t", "u"}
    Rule = {"r"}
    FsName = {"f"}
    Partition = {"p"}
    PlanCacheShardCapacity = 1
    MaxDdl = 3
    MaxPlace = 1
    MaxFaults = 1
    MaxCrashes = 1
CHECK_DEADLOCK FALSE
INVARIANT DdlDurableAlways
