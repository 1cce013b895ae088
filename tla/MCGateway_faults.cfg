SPECIFICATION Spec
CONSTANTS
    r1 = r1
    r2 = r2
    h1 = h1
    h2 = h2
    h3 = h3
    t1 = t1
    t2 = t2
    Requests = {r1, r2}
    Resolvers = {h1, h2, h3}
    Tenants = {t1, t2}
    ToolOutcomes = {"returns", "throws"}
    MayFail = TRUE
    None = None
SYMMETRY Symmetry
INVARIANTS
    TypeOK
    NoneStranded
    ExecutedOnlyIfAuthorised
    ExecutedAtMostOnce
    RecordsTruthful
    RepliesTruthful
PROPERTY
    ApprovalProtocol
CHECK_DEADLOCK FALSE
