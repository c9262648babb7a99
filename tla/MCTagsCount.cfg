CONSTANTS
    Tags = {t1}
    Keys = {k1, k2}
    Procs = {p1, p2}
    Rebuilder = rebuilder
    Faults = FALSE
    MaxRequests = 2
    None = None
SYMMETRY Interchangeable
SPECIFICATION Spec
INVARIANT CountCorrect
CHECK_DEADLOCK FALSE
