SPECIFICATION MCSpec
CONSTANTS
    k1 = k1
    k2 = k2
    Oid = {t1, t2}
    FifoOid = {t1, t2, t3}
    Key = {k1, k2}
    NoOwner = NoOwner
    Requests <- MCRequests
    Nested = TRUE
    TtlFires = TRUE
    Timeouts = TRUE
INVARIANTS
    NoLostWakeup
PROPERTIES
    ImplementsLockTable
    FifoGrantOrder
    FifoLockSomeReturns
    DeadlineReturns
