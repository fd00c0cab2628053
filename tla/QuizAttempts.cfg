SPECIFICATION Spec
CONSTANTS
    Request = {r1, r2}
    Nobody = Nobody
    MaxLimit = 2
    MaxAllowance = 2
    MaxTime = 2
SYMMETRY RequestSymmetry
INVARIANTS
    TypeOK
    OneLiveAttempt
    AttemptsWithinAllowance
    PointsMatchGrades
    GradedInTime
