CONSTANTS
    Procs = {p1, p2}
    Worker = worker
    Paths = {a, b}
    Files = {f, g}
    MaxItems = 1
    Faults = TRUE
    Crashes = FALSE
    None = None
SYMMETRY Interchangeable
SPECIFICATION Spec
PROPERTY RestoreRollbackKeepsRecord
