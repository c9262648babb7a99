CONSTANTS
    Procs = {p1, p2}
    Worker = worker
    Paths = {a, b}
    Files = {f, g}
    MaxItems = 1
    Faults = FALSE
    Crashes = FALSE
    None = None
SYMMETRY Interchangeable
SPECIFICATION Spec
INVARIANT MetadataIsTruth
