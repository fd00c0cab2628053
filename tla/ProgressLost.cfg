SPECIFICATION Spec
CONSTANTS
    Lesson = {1, 2, 3}
    FirstLessons = {1, 2}
    Unit = {u1}
    NoUnit = NoUnit
    FirstUnits = {u1}
    MaxOrder = 2
    MaxDay = 1
    Delays = {1}
    MaxEdits = 1
CHECK_DEADLOCK FALSE
PROPERTIES
    ReportsAreRecorded
