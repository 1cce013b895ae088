SPECIFICATION Spec
CONSTANTS
    c1 = c1
    c2 = c2
    c3 = c3
    c4 = c4
    Calls = {c1, c2, c3, c4}
    Window = 2
    Max = 1
    Ttl = 2
    InFlight = 3
    MaxTime = 5
    Wired = TRUE
    MayFail = TRUE
    Prompt = {"expire"}
    None = None
SYMMETRY Symmetry
INVARIANTS
    TypeOK
    LimitedOnlyWhenFull
    NoneForgotten
    OverrunBounded
PROPERTY
    AdmitsBelowLimit
CHECK_DEADLOCK FALSE
