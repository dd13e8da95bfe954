SPECIFICATION Spec

CONSTANTS
    t1 = t1
    t2 = t2
    w1 = w1
    None = None
    Type = {t1, t2}
    Worker = {w1}
    ItemsOf <- MCItemsOf
    TimeoutLimit = 1
    FaultLimit = 1

CHECK_DEADLOCK FALSE

INVARIANTS
    LifecycleInv

PROPERTIES
    DeletionsNotSent
    RowsComplete
    ShutdownCompletes
