CONSTANTS
    c1 = c1
    c2 = c2
    c3 = c3
    Callers = {c1, c2, c3}
    MaxMishaps = 0
SPECIFICATION Spec
SYMMETRY Symmetry
PROPERTY WritesOnlyDrafts
CHECK_DEADLOCK FALSE
