CONSTANTS
    Scheduler = Scheduler
    Unknown = Unknown
    u1 = u1
    l1 = l1
    SET = SET
    PUB = PUB
    Updates = {u1}
    Lecturers = {l1}
    Statuses = {SET, PUB}
    Calendars <- MCCalendars
    LastDay = 0
    MaxFailures = 0
SPECIFICATION Spec
SYMMETRY Symmetry
INVARIANT AnnouncedChangeHappened
