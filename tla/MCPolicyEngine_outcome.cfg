SPECIFICATION Spec
CONSTANTS
    t1 = t1
    t2 = t2
    x = x
    y = y
    a1 = a1
    a2 = a2
    s1 = s1
    None = None
    Absent = Absent
    NotNumeric = NotNumeric
    Tables <- MCTables
    Calls <- MCCalls
INVARIANTS
    TypeOK
    LoopInv
    FiredIsTop
    FailClosed
    TopRejectionReported
PROPERTY
    AnswersAsDecided
CHECK_DEADLOCK FALSE
