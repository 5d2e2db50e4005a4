SPECIFICATION FairSpec
CONSTANTS
    Null = Null
    Zip = Zip
    Jobs = {j1}
    Batches = {b1, b2}
    Slots = {s1, s2}
    MaxAttempts = 2
    MaxFaults = 2
    RevertsFail = FALSE
PROPERTIES
    JobsEnd
    FaultlessJobsDeliver
CHECK_DEADLOCK FALSE
