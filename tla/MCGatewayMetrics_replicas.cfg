SPECIFICATION MeteredSpec
CONSTANTS
    r1 = r1
    r2 = r2
    h1 = h1
    h2 = h2
    n1 = n1
    n2 = n2
    t1 = t1
    Requests = {r1, r2}
    Resolvers = {h1, h2}
    Tenants = {t1}
    Replicas = {n1, n2}
    ToolOutcomes = {"returns", "throws"}
    MayFail = TRUE
    None = None
SYMMETRY Symmetry
INVARIANTS
    MeteredTypeOK
    CountersBacked
    CountersComplete
    Inv
    CounterInv
CHECK_DEADLOCK FALSE
