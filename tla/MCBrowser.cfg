SPECIFICATION MCSpec
CONSTANTS
    Null = Null
    a1 = a1
    a2 = a2
    t1 = t1
    t2 = t2
    addr = addr
    s1 = s1
    s2 = s2
    ill = ill
    d1 = d1
    d2 = d2
    c1 = c1
    Tabs = {a1, a2}
    Families = {f1}
    Tokens = {t1, t2}
    Requests <- MCRequests
    HasLocks = TRUE
    MaxFaults = 1
    IdleTimeout = 1
    MaxSession = 1
    Horizon = 0
    MaxChanges = 0
SYMMETRY Symmetry
INVARIANTS
    PanelInv
    NoFalseReuse
    BrowserIsTrue
PROPERTIES
    StepsAreTrue
CHECK_DEADLOCK FALSE
