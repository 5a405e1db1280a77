SPECIFICATION FairSpec
CONSTANTS
    Acbs = {a1, a2}
    Threads = {t1, t2}
    MaxThreads = 2
    MaxContext = 1
    MaxOps = 3
    PipeSize = 1
    Outcomes = {"full", "canceled"}
    Ioctls = FALSE
    Nobody = Nobody
CHECK_DEADLOCK FALSE
PROPERTIES EveryRequestReaped SyncReturns ImplementsAsyncIo
