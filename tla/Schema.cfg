SPECIFICATION MCSpec
CONSTANTS
    Tuple <- MCTuple
    Less <- MCLess
    Tables <- MCTables
    Width = 2
    Value = {2}
    OtherValue = {1}
    MaxWrites = 2
    MaxDeltas = 1
    MaxOthers = 2
    MaxReads = 1
    d1 = d1
    d2 = d2
SYMMETRY MCSymmetry
INVARIANTS
    OneRowPerKey
    InnerRowsRight
    CatalogsAgree
    PlanFresh
    DdlDurable
CHECK_DEADLOCK FALSE
