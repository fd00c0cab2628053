SPECIFICATION Spec
CONSTANTS
    Worker = {w1, w2}
    Payload = {p}
    NoMsg = NoMsg
    MaxAttempts = 2
    ReadCount = 2
    ClaimCount = 2
    MaxJobs = 1
    MaxRaises = 2
    MaxCrashes = 1
    MaxOutages = 0
INVARIANTS
    InFlightJobsSurvive
CHECK_DEADLOCK FALSE
