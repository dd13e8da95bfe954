CONSTANTS
    pol = pol
    rel = rel
    NoOwner = NoOwner
    UID <- MCUID
    Version = {1, 2}
    Time = {1, 2}
    KindOf <- MCKindOf
    PropsOf <- MCPropsOf
    RelOf <- MCRelOf
    OwnerOf <- MCOwnerOf
    RevisionOf <- MCRevisionOf
    PurgeLimit = 1
    EventLimit = 4
    NetworkFaultLimit = 2
    IndexerFaultLimit = 1
SPECIFICATION SenderSpec
INVARIANT
    DiffReachesEdgeTypes
