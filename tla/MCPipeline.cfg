CONSTANTS
    ra = ra
    rb = rb
    NoOwner = NoOwner
    UID <- MCUID
    Version = {1, 2, 3}
    Time = {1, 2}
    KindOf <- MCKindOf
    PropsOf <- MCPropsOf
    RelOf <- MCRelOf
    OwnerOf <- MCOwnerOf
    RevisionOf <- MCRevisionOf
    PurgeLimit = 2
    Workers = 2
    Untransformable <- MCUntransformable
    MayReturn = {}
    PropsAt <- RedundantProps
SPECIFICATION PipeSpec
INVARIANTS
    PipeInv
    RememberedStaysDeleted
    HoldsLatest
