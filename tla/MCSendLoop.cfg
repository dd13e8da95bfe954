CONSTANTS
    old = old
    modern = modern
    IntLimit = 256
    Second = 4
    Millisecond = 4
    MaxBackoff = 20
    RetryJitter = 3
    RetryLimit = 6
    Exp2 <- MCExp2
    Versions = 3
    ProfileAt <- MCProfiles
    NoProfile = NoProfile
    FaultLimit = 1
SPECIFICATION FairSpec
INVARIANTS
    LoopInv
    CycleBacksOff
PROPERTIES
    HotReloadWhenSynced
    CancelStops
CHECK_DEADLOCK FALSE
