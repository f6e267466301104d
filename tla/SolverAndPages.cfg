CONSTANTS
    Days = {5, 6}
    Friday = 6
    StartHour = 8
    EndRegular = 11
    EndFriday = 10
    MAX_ITERATIONS = 3
    NoSlot = NoSlot
    NoDays = NoDays
    NoId = NoId
    Requests <- MCRequests
    p1 = p1
    p2 = p2
    Pages = {p1, p2}
    Polls = {"poll"}
    Sessions = {1, 2, 3}
    OfferingOf <- MCOfferingOf
    LengthOf <- MCLengthOf
    Places <- MCPlaces
    Seats <- MCSeats
    Solutions <- MCSolutions
    MaxSchedules = 2
    PageBudgets <- MCPageBudgets
SPECIFICATION SolverAndPagesSpec
INVARIANTS
    SolvedIsTimetable
    SolvedBreaksNothing
    ReportExplainsFailure
    RefusalIsRight
PROPERTY
    SavesOnlyHerMoves
CHECK_DEADLOCK FALSE
