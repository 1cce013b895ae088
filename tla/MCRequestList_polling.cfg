SPECIFICATION FairSpec
CONSTANTS
    l1 = l1
    l2 = l2
    l3 = l3
    Filters = {"all", "allowed"}
    All = "all"
    Loads = {l1, l2, l3}
    MaxChanges = 2
INVARIANT
    TypeOK
PROPERTIES
    StaysWithFilter
    StaysWithRows
    Converges
    CatchesUp
CHECK_DEADLOCK FALSE
