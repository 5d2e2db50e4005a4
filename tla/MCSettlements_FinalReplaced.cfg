SPECIFICATION RowsSpec
CONSTANTS
    Null = Null
    land = land
    Rows = {r1, r2}
    Periods = {p1}
    PropertyOf <- MCPropertyOf
    Risk = {}
    Requests = {q1, q2}
    Settled = {"PAGADA"}
PROPERTIES
    FinalNeverReplaced
CHECK_DEADLOCK FALSE
