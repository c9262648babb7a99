CONSTANTS
    Disks = {d1, d2}
    MaxFs = 2
    Watcher = watcher
    Formatters = {}
    ManualSlots = {1}
    Faults = TRUE
    Restarts = TRUE
    None = None
SYMMETRY Interchangeable
SPECIFICATION Spec
INVARIANTS TypeOK RunsInformed
PROPERTIES NoEviction NoStacking NoSteal
