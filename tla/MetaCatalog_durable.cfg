SPECIFICATION Spec
CONSTANTS
    Worker = {1, 2}
    DdlSession = {"d1", "d2"}
    StmtSession = {"q1"}
    Home <- MCHomeEach
    Name = {"t", "u"}
    Rule = {"r"}
    FsName = {"f"}
    Partition = {"p"}
    PlanCacheShardCapacity = 1
    MaxDdl = 3
    MaxPlace = 1
    MaxFaults = 0
    MaxCrashes = 1
CHECK_DEADLOCK FALSE
INVARIANT DdlDurable
