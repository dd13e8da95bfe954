SPECIFICATION EdgesSpec

CONSTANTS
    None = None
    Plain = Plain
    UID <- MCUID
    KindOf <- MCKind
    GroupOf <- MCGroup
    NamespaceOf <- MCNamespace
    NameOf <- MCName
    GroupRank <- MCGroupRank
    ContentsOf <- MCContents
    Within <- MCWithin
    Clusters <- MCClusters
    EventLimit = 7

CHECK_DEADLOCK FALSE

INVARIANTS
    EdgesInv
    EdgesFromNodes
