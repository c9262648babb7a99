CONSTANTS
    Procs = {p1, p2}
    Worker = worker
    Paths = {a, b}
    Files = {f, g}
    MaxItems = 2
    Faults = TRUE
    Crashes = TRUE
    None = None
SYMMETRY Interchangeable
SPECIFICATION Spec
INVARIANTS TypeOK Consistent WritesInOrder Exclusive
PROPERTY NoClobber
CONSTRAINT Bounded
