SPECIFICATION Spec
CONSTANTS
    MaxRuns = 2
    MaxBatches = 1
    MaxWait = 1
    Gaps = {0, 1}
    Buckets = 2
    MaxGlitch = 0
PROPERTY NothingIsLost
CHECK_DEADLOCK FALSE
