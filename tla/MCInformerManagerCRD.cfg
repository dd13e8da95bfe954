CONSTANTS
    ga = ga
    gb = gb
    key = key
    GVR = {ga, gb}
    Key = {key}
    KeyTargets <- MCKeyTargets
    CRDLimit = 2
    ReloadLimit = 0
    DiscoveryFaultLimit = 0
SPECIFICATION FairManagerSpec
PROPERTY
    InformersFollowCRDs
CHECK_DEADLOCK FALSE
