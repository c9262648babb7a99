CONSTANTS
    Jobs = {j1, j2, j3, j4}
    Impatient = {j1, j2}
    Workers = {w1}
    BatchSize = 2
    CfgQueueSize = 1
    None = None
SPECIFICATION FairSpec
INVARIANTS TypeOK NeverBlocked JobsInOrder
PROPERTY Promise
CHECK_DEADLOCK FALSE
