SPECIFICATION Spec
CONSTANTS
    w1 = w1
    w2 = w2
    Worker = {w1, w2}
    Config <- MCConfig
    Columns <- MCColumns
    Object <- MCObject
    Generic <- MCGeneric
    Gatekeeper = FALSE
    CollectConditions = FALSE
    CollectColumns = FALSE
    CollectAnnotations = FALSE
    DeployedInHub = FALSE
    ReloadLimit = 1
    EditLimit = 3
    ChangeLimit = 1
SYMMETRY Symmetry
INVARIANTS
    ExtractionInv
    UnderConfig
    ColumnsOnlyAdd
    StoredAsDeclared
CHECK_DEADLOCK FALSE
