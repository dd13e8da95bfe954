SPECIFICATION AccessSpec

CONSTANTS
    Unset = Unset
    Bad = Bad
    Envs <- MCEnvs
    Files <- MCFiles
    Chosen <- MCChosen
    Locals = {"ok", "not found"}
    RotationLimit = 1
    HubFaultLimit = 1

CHECK_DEADLOCK FALSE

INVARIANT NoFalseMismatch
