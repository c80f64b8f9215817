SPECIFICATION Spec
CONSTANTS
    Tuple <- MCTuple
    Less <- MCLess
    Tables <- MCCreated
    Width = 2
    Value = {2}
    OtherValue = {1}
    MaxWrites = 0
    MaxDeltas = 0
    MaxOthers = 1
    MaxReads = 0
INVARIANT RowsReachable
CHECK_DEADLOCK FALSE
