CONSTANTS
    c1 = c1
    c2 = c2
    Callers = {c1, c2}
    MaxMishaps = 1
SPECIFICATION FairSpec
PROPERTY EveryRunCompletes
CHECK_DEADLOCK FALSE
