CONSTANTS
    ra = ra
    rb = rb
    na = na
    nb = nb
    Resource = {ra, rb}
    MaxVersion = 2
    Namespace = {na, nb}
    NamespaceOf <- MCNamespaceOf
    FaultLimit = 0
    ResyncLimit = 0
    SelectLimit = 0
    MayStop = FALSE
SPECIFICATION Spec
INVARIANT
    NoGhost
CHECK_DEADLOCK FALSE
