SPECIFICATION MCSpec
CONSTANTS
    Null = Null
    land = land
    r1 = r1
    r2 = r2
    res26 = res26
    res27 = res27
    p1 = p1
    d1 = d1
    a = a
    Requests = {r1, r2}
    Jobs = {j1}
    Counters = {res26, res27}
    Kinds <- MCKinds
    KindOf <- MCKindOf
    Groups = {g1, g2}
INVARIANTS
    BackendIsTrue
PROPERTIES
    ImplementsNumberBook
    RequestsEnd
    FirmEventually
    ExpiredAreSwept
CHECK_DEADLOCK FALSE
