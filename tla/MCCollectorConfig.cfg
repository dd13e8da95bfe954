CONSTANTS
    Type <- MCType
    ConfigType <- Own
    DefaultConfig <- MCDefaultConfig
    HubOnly <- MCHubOnly
    DeployedInHub = FALSE
    CRSpec <- AllSpecs
    ChangeLimit = 2
    FaultLimit = 1
    BreakLimit = 1
SPECIFICATION FairSpec
INVARIANTS
    ConfigInv
    ConfigFollowsCR
PROPERTY
    ListedUnderConfig
CHECK_DEADLOCK FALSE
