SPECIFICATION DetailFairSpec
CONSTANTS
    r1 = r1
    r2 = r2
    h1 = h1
    h2 = h2
    h3 = h3
    t1 = t1
    t2 = t2
    p1 = p1
    p2 = p2
    Requests = {r1}
    Resolvers = {h1, h2}
    Tenants = {t1, t2}
    Pages = {p1}
    ToolOutcomes = {"returns", "throws"}
    MayFail = FALSE
    MayLose = TRUE
    None = None
INVARIANTS
    PagesTypeOK
    DetailCausal
    GrantedIsShown
    HeldStaysOffered
PROPERTIES
    PageSettles
    ApprovedIsServed
    EveryCallSettled
CHECK_DEADLOCK FALSE
