CONSTANTS
    large = large
    small = small
    m = m
    n = n
    Tasks = {1, 2}
    Files = {large, small}
    Size <- SizeOf
    Names = {m, n}
    UploadJobs <- SomeJobs
    Limit = 1
    MaxTries = 2
    MaxCopies = 4
    MaxRuns = 2
    MaxStops = 1
    Other = Other
    Nothing = Nothing
SPECIFICATION UploadSpec
CHECK_DEADLOCK FALSE
INVARIANT DoneIsSaved
