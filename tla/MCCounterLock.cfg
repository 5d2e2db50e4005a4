SPECIFICATION Spec
CONSTANTS
    Null = Null
    res26 = res26
    res27 = res27
    po26 = po26
    Counters = {res26, po26}
    Kinds <- MCKinds
    KindOf <- MCKindOf
    Requests = {r1, r2, r3}
    Jobs = {j1, j2}
    Groups = {g1, g2}
SYMMETRY MCSymmetry
INVARIANTS
    Contiguous
PROPERTIES
    RevertUndoesOnlyItsJob
    IssuedForGood
CHECK_DEADLOCK FALSE
