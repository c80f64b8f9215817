SPECIFICATION MCSpec
CONSTANTS
    Session = {s1, s2}
    Row = {r1}
    Kv = {k1}
    MaxTs = 3
    Blind = Blind
    TtlFires = FALSE
    Autocommit = FALSE
    IoFails = FALSE
    Dead = {TRUE, FALSE}
SYMMETRY MCSymmetry
CHECK_DEADLOCK FALSE
INVARIANTS
    RowNoLostUpdate
    CheckStillHolds
    LogExplainsVersions
