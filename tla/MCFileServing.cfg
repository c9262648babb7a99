CONSTANTS
    Requests = {r1, r2}
    old = old
    new = new
    alike = alike
    Versions = {old, new, alike}
    Stamp <- MCStamp
    Covered = {old}
    Bare = {new}
    MaxChanges = 3
    None = None
SYMMETRY Interchangeable
SPECIFICATION Spec
CHECK_DEADLOCK FALSE
INVARIANTS ServesPresent ServesWhole OneManager
PROPERTY ConvertsOnce
