SPECIFICATION GovernedSpec
CONSTANTS
    r1 = r1
    r2 = r2
    h1 = h1
    h2 = h2
    p1 = p1
    p2 = p2
    p3 = p3
    t1 = t1
    t2 = t2
    Requests = {r1}
    Resolvers = {h1, h2}
    Policies = {p1, p2}
    Tenants = {t1, t2}
    ToolOutcomes = {"returns", "throws"}
    MayFail = TRUE
    None = None
    Bodies <- MCBodies
SYMMETRY Symmetry
INVARIANTS
    GovernedTypeOK
    DecisionFresh
    BlockStopsCalls
    Inv
PROPERTY
    Implements
CHECK_DEADLOCK FALSE
