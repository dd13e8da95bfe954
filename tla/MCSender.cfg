CONSTANTS
    pol = pol
    rel = rel
    NoOwner = NoOwner
    UID <- MCUID
    Version = {1, 2, 3}
    Time = {1}
    KindOf <- MCKindOf
    PropsOf <- MCPropsOf
    RelOf <- MCRelOf
    OwnerOf <- MCOwnerOf
    RevisionOf <- MCRevisionOf
    PurgeLimit = 1
    EventLimit = 4
    NetworkFaultLimit = 2
    IndexerFaultLimit = 1
SPECIFICATION FairSenderSpec
INVARIANTS
    RecInv
    SenderInv
    DiffReachesCurrent
    DiffTotalsExact
PROPERTIES
    EventuallyInSync
    ImplementsReplicaSync
