CONSTANTS
    ga = ga
    gb = gb
    key = key
    GVR = {ga, gb}
    Key = {key}
    KeyTargets <- MCKeyTargets
    CRDLimit = 1
    ReloadLimit = 2
    DiscoveryFaultLimit = 1
SPECIFICATION FairManagerSpec
INVARIANTS
    ManagerInv
PROPERTIES
    RulesReachInformers
    ExclusionsReachInformers
CHECK_DEADLOCK FALSE
