SPECIFICATION Spec
CONSTANTS
    Null = Null
    Zip = Zip
    Jobs = {j1}
    Batches = {b1, b2}
    Slots = {s1, s2}
    MaxAttempts = 2
    MaxFaults = 3
    RevertsFail = TRUE
SYMMETRY MCSymmetry
INVARIANTS
    Inv
    NothingForgotten
    NeededBlobsExist
PROPERTIES
    ImplementsJobLifecycle
CHECK_DEADLOCK FALSE
