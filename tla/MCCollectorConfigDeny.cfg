CONSTANTS
    Type <- MCType
    ConfigType <- Own
    DefaultConfig <- MCDefaultConfig
    HubOnly <- MCHubOnly
    DeployedInHub = FALSE
    CRSpec <- DenySpecs
    ChangeLimit = 2
    FaultLimit = 0
    BreakLimit = 0
SPECIFICATION Spec
INVARIANT
    CRAlwaysReloaded
CHECK_DEADLOCK FALSE
