SPECIFICATION MCSpec
CONSTANTS
    File = {f1}
    MaxFd = 2
    MaxLen = 1
    IoSizes = {1}
    Worker = {w1, w2, w3}
    MayFail = {w1, w2, w3}
    Conn = {c1}
    MaxWork = 1
    Budget = 1
CHECK_DEADLOCK FALSE
INVARIANT
    ServesOnlyRecovered
PROPERTIES
    MinimumFree
    WokenIsPolled
    ShutdownCompletes
