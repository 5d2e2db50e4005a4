SPECIFICATION MCSpec
CONSTANTS
    Null = Null
    blank = blank
    full = full
    par = par
    r0a = r0a
    r1a = r1a
    r1b = r1b
    r2a = r2a
    r2b = r2b
    q1 = q1
    q2 = q2
    slot = slot
    batch = batch
    path = path
    r1 = r1
    r2 = r2
    Requests = {r1, r2}
    a = a
    b = b
    Contents = {a, b}
    d1 = d1
    Drafts = {d1}
    Marked <- MCMarked
    MaxVersion = 2
    MaxFaults = 1
INVARIANTS
    Inv
    OneActive
    FileKept
    PartIsTrue
    MarkingKept
PROPERTIES
    DraftKeptUntilSaved
CHECK_DEADLOCK FALSE
