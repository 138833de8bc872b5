SPECIFICATION Spec
CONSTANTS
    MaxRuns = 2
    MaxBatches = 2
    MaxWait = 1
    Gaps = {0, 1}
    Buckets = 2
    MaxGlitch = 1
INVARIANTS BatchFaithful NeverIllegal
PROPERTY BatchEnds
CHECK_DEADLOCK FALSE
