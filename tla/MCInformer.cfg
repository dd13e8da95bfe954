CONSTANTS
    ra = ra
    rb = rb
    na = na
    nb = nb
    Resource = {ra, rb}
    MaxVersion = 2
    Namespace = {na, nb}
    NamespaceOf <- MCNamespaceOf
    FaultLimit = 1
    ResyncLimit = 1
    SelectLimit = 1
    MayStop = TRUE
SPECIFICATION FairSpec
INVARIANTS
    InformerInv
    NothingMissed
PROPERTIES
    VersionsInOrder
    ResyncLists
    StopStops
