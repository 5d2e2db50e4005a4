SPECIFICATION MCSpec
CONSTANTS
    Null = Null
    land = land
    Rows = {r1, r2}
    Periods = {p1, p2}
    PropertyOf <- MCPropertyOf
    Risk = {p2}
    Requests = {q1, q2}
    Settled = {}
SYMMETRY MCSymmetry
INVARIANTS
    OneCurrentEach
    FirmStands
    PagesAreTrue
PROPERTIES
    DecidedStands
    AuditTrail
CHECK_DEADLOCK FALSE
