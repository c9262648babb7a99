SPECIFICATION FairSpec
CONSTANTS
    Tasks = {t1, t2}
    Mine = {t1}
    Choices <- SomeChoices
    Names = {"a", "b"}
    Fresh = {"new"}
    Disk <- OnDisk
    Slow = FALSE
    Cap = 1
    MaxCopies = 3
    MaxFaults = 1
    None = None
CHECK_DEADLOCK FALSE
INVARIANTS NothingLost NewsArrives
PROPERTY TasksEnd
