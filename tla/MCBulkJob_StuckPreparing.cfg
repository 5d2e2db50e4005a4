SPECIFICATION FairSpec
CONSTANTS
    Null = Null
    Zip = Zip
    Jobs = {j1}
    Batches = {b1}
    Slots = {s1, s2}
    MaxAttempts = 2
    MaxFaults = 2
    RevertsFail = TRUE
PROPERTIES
    JobsEnd
CHECK_DEADLOCK FALSE
