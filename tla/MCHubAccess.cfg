SPECIFICATION AccessSpec

CONSTANTS
    Unset = Unset
    Bad = Bad
    Envs <- MCEnvs
    Files <- MCFiles
    Chosen <- MCChosen
    Locals = {"ok", "not found"}
    RotationLimit = 2
    HubFaultLimit = 1

CHECK_DEADLOCK FALSE

INVARIANTS
    AccessInv

PROPERTIES
    SenderRecovers
    LeaseRecovers
