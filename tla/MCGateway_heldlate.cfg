SPECIFICATION FairSpec
CONSTANTS
    r1 = r1
    r2 = r2
    h1 = h1
    h2 = h2
    h3 = h3
    t1 = t1
    t2 = t2
    Requests = {r1}
    Resolvers = {h1}
    Tenants = {t1}
    ToolOutcomes = {"returns"}
    MayFail = FALSE
    None = None
PROPERTY
    ApprovedNotHeldAgain
CHECK_DEADLOCK FALSE
