SPECIFICATION Spec
CONSTANTS
    Worker = {w1, w2}
    NoMsg = NoMsg
    MaxAttempts = 2
    ReadCount = 2
    ClaimCount = 2
    MaxJobs = 6
    MaxRaises = 0
    MaxCrashes = 0
    MaxOutages = 0
    Rows = 1
    RecoverLimit = 2
INVARIANTS
    OneWorkerPerItem
CHECK_DEADLOCK FALSE
