SPECIFICATION Spec
CONSTANTS
    Null = Null
    Families = {f1, f2}
    Tokens = {t1, t2, t3, t4}
    Requests = {q1, q2}
    IdleTimeout = 2
    MaxSession = 3
    Horizon = 3
    MaxChanges = 1
SYMMETRY MCSymmetry
INVARIANTS
    Inv
    OneLiveToken
PROPERTIES
    MissOnlyCrossings
    ImplementsSessionBook
CHECK_DEADLOCK FALSE
