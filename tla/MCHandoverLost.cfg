CONSTANTS
    ra = ra
    rb = rb
    na = na
    Resource = {ra, rb}
    MaxVersion = 1
    Namespace = {na}
    NamespaceOf <- MCNamespaceOf
    FaultLimit = 0
    ResyncLimit = 0
    SelectLimit = 0
    MayStop = TRUE
SPECIFICATION HandoverSpec
INVARIANT
    NothingLost
CHECK_DEADLOCK FALSE
