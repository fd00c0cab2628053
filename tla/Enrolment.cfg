SPECIFICATION Spec
CONSTANTS
    Student = {s1, s2}
    Request = {r1, r2}
    Tx = {t1, t2}
    Nobody = Nobody
    MaxUses = 1
    CodeUses = 1
SYMMETRY Symmetry
INVARIANTS
    TypeOK
    OneSubscriptionPerPayment
    CouponCounted
    CodeWithinLimit
    EnrolledIffEntitled
PROPERTIES
    PayingLetsIn
