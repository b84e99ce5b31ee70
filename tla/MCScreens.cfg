CONSTANTS
    v1 = v1
    v2 = v2
    v3 = v3
    all = all
    one = one
    None = None
    Videos = {v1, v2, v3}
    Lists <- MCLists
    Stores <- MCStores
    Queries = {all, one}
    Matches <- MCMatches
    Saved <- MCSaved
    Page = 5
    MaxActs = 2
    MaxBatch = 2
SPECIFICATION Spec
INVARIANTS
    TypeOK
    SelectionFits
PROPERTIES
    DropLands
CHECK_DEADLOCK FALSE
