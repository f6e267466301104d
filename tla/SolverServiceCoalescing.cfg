CONSTANTS
    s1 = s1
    s2 = s2
    NoSemester = NoSemester
    BadJson = BadJson
    Semesters = {s1, s2}
    Bodies = {s1, s2}
    BATCH_TIMEOUT = 1
    MAX_BATCH_WAIT = 2
    MAX_BATCH_SIZE = 100
    MaxRequests = 2
    MaxEdits = 1
    MaxErrors = 0
    MaxDrops = 0
    MaxCrashes = 0
SPECIFICATION Spec
PROPERTY CoalescesSemester
CHECK_DEADLOCK FALSE
