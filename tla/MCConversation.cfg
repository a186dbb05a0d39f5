SPECIFICATION FairSpec
CONSTANTS
    c1 = c1
    c2 = c2
    c3 = c3
    o1 = o1
    o2 = o2
    Convs = {c1, c2, c3}
    Root = c1
    Branch = c2
    Ops = {o1, o2}
    MaxOps = 2
    MaxClock = 6
    MaxFaults = 1
    MaxDepth = 2
    MaxInherited = 2
    PageLimit = 1
    Ms <- MCMs
    IdRank <- MCIdRank
CHECK_DEADLOCK FALSE
INVARIANTS
    CatalogueMatches
    NeverLater
    Chronological
    ScopeIsTree
    ListReachesAll
PROPERTIES
    PurgedStays
    DeletedIsPurged
