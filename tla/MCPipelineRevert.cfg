CONSTANTS
    ra = ra
    rb = rb
    NoOwner = NoOwner
    UID <- MCUID
    Version = {1, 2, 3}
    Time = {1, 2}
    KindOf <- MCKindOf
    PropsOf <- MCPropsOf
    RelOf <- MCRelOf
    OwnerOf <- MCOwnerOf
    RevisionOf <- MCRevisionOf
    PurgeLimit = 2
    Workers = 1
    Untransformable <- MCUntransformable
    MayReturn = {}
    PropsAt <- RevertedProps
SPECIFICATION PipeSpec
INVARIANT
    HoldsLatest
