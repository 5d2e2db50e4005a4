SPECIFICATION MCSpec
CONSTANTS
    Null = Null
    j1 = j1
    j2 = j2
    OwnJobs = {j1, j2}
    OtherJobs = {}
    MaxVisits = 1
    MaxFaults = 0
    f1 = f1
    f2 = f2
    p1 = p1
    p2 = p2
    bad = bad
    excel = excel
    home = home
    away = away
    c1 = c1
    c2 = c2
    d1 = d1
    cc = cc
    v1 = v1
    v2 = v2
    code = code
    total = total
    district = district
    a1 = a1
    a2 = a2
INVARIANTS
    Inv
PROPERTIES
    RememberedUntilOver
    NeverStuck
CHECK_DEADLOCK FALSE
