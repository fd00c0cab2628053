SPECIFICATION MCSpec
CONSTANTS
    Lesson = {1, 2, 3, 4}
    FirstLessons = {1, 2, 3}
    Unit = {u1, u2}
    NoUnit = NoUnit
    FirstUnits = {u1}
    MaxOrder = 2
    MaxDay = 1
    Delays = {1}
    MaxEdits = 2
    Request = {r1, r2}
    Nobody = Nobody
    MaxAnswers = 2
    Device = {d1, d2, d3}
    Limits = {1, 2}
    Terms = {1}
    MaxGrants = 3
    Video = {v1, v2}
    Student = {s1}
    Group = {g1, g2}
    NoGroup = NoGroup
    Question = {1, 2}
    Points = {1, 2}
    Notice = {n1, n2}
    Life = 1
    MaxPending = 1
    Workers = 1
    Pupil = {p1, p2}
    LastDate = 2
    LastVisit = 6
SYMMETRY Symmetry
CHECK_DEADLOCK FALSE
INVARIANTS
    CampusTypeOK
    SeenInOrder
    LocksSuffice
    GradeMatchesAnswer
    OfflineDevicesWithinLimit
    PublishedWasReady
    MissingObjectExplained
    MembersEnrolled
    GradedAsHandedOut
    BadgeExplained
    AttendanceExplained
    StreakExplained
