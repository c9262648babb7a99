SPECIFICATION Spec
CONSTANTS
    Tasks = {t1}
    Mine = {t1}
    Choices <- OntoItself
    Names = {"a", "b"}
    Fresh = {"new"}
    Disk <- OnDisk
    Slow = FALSE
    Cap = 1
    MaxCopies = 3
    MaxFaults = 0
    None = None
CHECK_DEADLOCK FALSE
INVARIANT DuplicateBeside
