CONSTANTS
    Disks = {d1}
    MaxFs = 2
    Watcher = watcher
    Formatters = {fm}
    ManualSlots = {1}
    Faults = FALSE
    Restarts = FALSE
    None = None
SPECIFICATION FairSpec
PROPERTY HotplugMounted
