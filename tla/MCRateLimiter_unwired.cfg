SPECIFICATION Spec
CONSTANTS
    c1 = c1
    c2 = c2
    c3 = c3
    c4 = c4
    Calls = {c1, c2}
    Window = 2
    Max = 1
    Ttl = 2
    InFlight = 1
    MaxTime = 4
    Wired = FALSE
    MayFail = FALSE
    Prompt = {"trim", "count", "add", "expire"}
    None = None
SYMMETRY Symmetry
INVARIANTS
    LimitEnforced
CHECK_DEADLOCK FALSE
