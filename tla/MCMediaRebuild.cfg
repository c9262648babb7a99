CONSTANTS
    Paths = {a}
    Ids = {i1}
    Scans = {s1, s2}
    Clients = {c1}
    MaxScans = 2
    MaxChanges = 3
    MaxTrashed = 0
    Bin = Bin
    None = None
SYMMETRY Interchangeable
SPECIFICATION Spec
CHECK_DEADLOCK FALSE
PROPERTIES TagsSurvive
