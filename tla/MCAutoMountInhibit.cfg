CONSTANTS
    Disks = {d1, d2}
    MaxFs = 3
    Watcher = watcher
    Formatters = {fm}
    ManualSlots = {1}
    Faults = FALSE
    Restarts = FALSE
    None = None
SYMMETRY Interchangeable
SPECIFICATION Spec
PROPERTY InhibitHolds
