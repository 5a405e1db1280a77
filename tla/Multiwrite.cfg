SPECIFICATION FairSpec
CONSTANTS
    Reqs = {r1, r2, r3}
    NSectors = 5
    IntRange = 3
    MaxNb = 1
    MaxBatches = 2
    OnErrors = {"enospc", "stop"}
    Faults = {"null", "sync", "lost", "io"}
INVARIANTS TypeOK OnlyRequested SuccessIsOnDisk OneFailureContained CountExact
PROPERTY EveryWriteAnswered
CHECK_DEADLOCK FALSE
