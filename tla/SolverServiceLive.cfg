CONSTANTS
    s1 = s1
    s2 = s2
    NoSemester = NoSemester
    BadJson = BadJson
    Semesters = {s1, s2}
    Bodies = {s1, s2, BadJson}
    BATCH_TIMEOUT = 1
    MAX_BATCH_WAIT = 2
    MAX_BATCH_SIZE = 100
    MaxRequests = 3
    MaxEdits = 1
    MaxErrors = 1
    MaxDrops = 0
    MaxCrashes = 1
SPECIFICATION FairSpec
INVARIANT NothingLeaks
PROPERTIES
    EveryRequestAnswered
    ServesLedger
CHECK_DEADLOCK FALSE
