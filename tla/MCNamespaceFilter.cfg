SPECIFICATION FilterSpec

CONSTANTS
    Nothing = Nothing
    Everywhere = Everywhere
    Unparsable = Unparsable
    i1 = i1
    i2 = i2
    Namespaces = Namespaces
    NamespaceName = {"a", "b"}
    Label = {"l"}
    Selectors <- MCSelectors
    Informer = {i1, i2}
    TTL = 2
    ChangeLimit = 2
    FilterFaultLimit = 1

INVARIANTS
    FilterInv

PROPERTIES
    OneRefreshPerTTL
    SelectionApplied
