CONSTANTS
    ra = ra
    rb = rb
    na = na
    Resource = {ra, rb}
    MaxVersion = 1
    Namespace = {na}
    NamespaceOf <- MCNamespaceOf
    FaultLimit = 1
    ResyncLimit = 1
    SelectLimit = 0
    MayStop = TRUE
SPECIFICATION HandoverSpec
INVARIANTS
    HandoverTypeOK
    ListRepairs
    SuccessorCatchesUp
PROPERTIES
    PredecessorEnds
CHECK_DEADLOCK FALSE
