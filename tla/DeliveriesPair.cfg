SPECIFICATION Spec
CONSTANTS
    Worker = {w1, w2}
    NoMsg = NoMsg
    MaxAttempts = 2
    ReadCount = 2
    ClaimCount = 2
    MaxJobs = 6
    MaxRaises = 1
    MaxCrashes = 0
    MaxOutages = 0
    Rows = 1
    RecoverLimit = 2
SYMMETRY WorkerSymmetry
INVARIANTS
    DeliveriesTypeOK
    SentWasAccepted
    QueuedRowHasWork
PROPERTIES
    ImplementsQueue
CHECK_DEADLOCK FALSE
