CONSTANTS
    s1 = s1
    s2 = s2
    NoSemester = NoSemester
    BadJson = BadJson
    Semesters = {s1, s2}
    Bodies = {s1, s2, NoSemester, BadJson}
    BATCH_TIMEOUT = 1
    MAX_BATCH_WAIT = 2
    MAX_BATCH_SIZE = 3
    MaxRequests = 2
    MaxEdits = 1
    MaxErrors = 1
    MaxDrops = 2
    MaxCrashes = 1
SPECIFICATION Spec
SYMMETRY Symmetry
INVARIANTS
    TypeOK
    SingleFlight
    AckedIsSolved
    NoRequestLost
    AnsweredOncePerDelivery
PROPERTY KeepsLedger
CHECK_DEADLOCK FALSE
