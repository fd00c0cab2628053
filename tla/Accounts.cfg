SPECIFICATION MCSpec
CONSTANTS
    Request = {r1, r2}
    Device = {d1, d2}
    Session = {s1, s2}
    NoDevice = NoDevice
    MaxDevices = 1
    MaxPassword = 3
    MaxUnblocks = 1
    MaxFails = 2
    MaxCode = 3
    MaxAttempts = 2
SYMMETRY Symmetry
CONSTRAINT Bounded
INVARIANTS
    AccountsTypeOK
    OneLiveSession
    DevicesWithinLimit
    OldPasswordGone
    OlderCodesSpent
PROPERTIES
    LockStands
