SPECIFICATION Spec
CONSTANTS
    Request = {r1, r2}
    Nobody = Nobody
    MaxLimit = 1
    MaxAllowance = 2
    MaxTime = 2
PROPERTIES
    SubmittedStaysSubmitted
