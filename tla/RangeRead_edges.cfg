SPECIFICATION Spec
CONSTANTS
    Tuple <- MCTuple
    Less <- MCLess
    Tables <- MCSplit
    Width = 2
    Value = {2}
    OtherValue = {1}
    MaxWrites = 0
    MaxDeltas = 0
    MaxOthers = 1
    MaxReads = 1
INVARIANT ScanRight
CHECK_DEADLOCK FALSE
