SPECIFICATION FairSpec
CONSTANTS
    Worker = {w1}
    NoMsg = NoMsg
    MaxAttempts = 2
    ReadCount = 1
    ClaimCount = 1
    MaxJobs = 6
    MaxRaises = 2
    MaxCrashes = 1
    MaxOutages = 0
    Rows = 2
    RecoverLimit = 1
INVARIANTS
    RepostsNeedFaults
PROPERTIES
    QueuedRowsSettle
CHECK_DEADLOCK FALSE
