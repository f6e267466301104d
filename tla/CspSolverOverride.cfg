CONSTANTS
    Days = {5, 6}
    Friday = 6
    StartHour = 8
    EndRegular = 11
    EndFriday = 10
    MAX_ITERATIONS = 3
    NoSlot = NoSlot
    NoDays = NoDays
    NoId = NoId
    Requests <- MCRequests
SPECIFICATION Spec
INVARIANT OverrideBinds
