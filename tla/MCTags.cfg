CONSTANTS
    Tags = {t1}
    Keys = {k1, k2}
    Procs = {p1, p2}
    Rebuilder = rebuilder
    Faults = TRUE
    MaxRequests = 3
    None = None
SYMMETRY Interchangeable
SPECIFICATION Spec
INVARIANTS TypeOK CountsRight IndexAgrees
PROPERTY DeletedStaysDeleted
