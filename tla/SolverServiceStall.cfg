CONSTANTS
    s1 = s1
    NoSemester = NoSemester
    BadJson = BadJson
    Semesters = {s1}
    Bodies = {s1, NoSemester}
    BATCH_TIMEOUT = 1
    MAX_BATCH_WAIT = 2
    MAX_BATCH_SIZE = 100
    MaxRequests = 2
    MaxEdits = 1
    MaxErrors = 0
    MaxDrops = 0
    MaxCrashes = 0
SPECIFICATION FairSpec
PROPERTY EveryRequestAnswered
CHECK_DEADLOCK FALSE
