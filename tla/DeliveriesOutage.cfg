SPECIFICATION FairSpec
CONSTANTS
    Worker = {w1}
    NoMsg = NoMsg
    MaxAttempts = 2
    ReadCount = 2
    ClaimCount = 2
    MaxJobs = 6
    MaxRaises = 0
    MaxCrashes = 0
    MaxOutages = 1
    Rows = 1
    RecoverLimit = 2
PROPERTIES
    QueuedRowsSettle
CHECK_DEADLOCK FALSE
