SPECIFICATION MCSpec
CONSTANTS
    r1 = r1
    r2 = r2
    A = A
    B = B
    Null = Null
    Rows = {r1, r2}
    Towns = {A, B}
    TownOf <- AllOfA
    MaxBatch = 1
    MaxId = 2
    MaxSwitches = 1
    MaxConfirms = 2
    MaxFaults = 1
INVARIANTS
    Inv
PROPERTIES
    EveryChangeAllowed
    LeftOutAskedAgain
    NeverLocked
CHECK_DEADLOCK FALSE
