CONSTANTS
    Paths = {a, b}
    Ids = {i1, i2}
    Scans = {s1, s2}
    Clients = {c1}
    MaxScans = 2
    MaxChanges = 2
    MaxTrashed = 1
    Bin = Bin
    None = None
SYMMETRY Interchangeable
SPECIFICATION Spec
CHECK_DEADLOCK FALSE
INVARIANTS TypeOK Reconciled
PROPERTIES SparesUnmoved TagsSurviveLone
