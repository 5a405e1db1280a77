SPECIFICATION Spec
CONSTANTS
    Acbs = {a1, a2, a3}
    Threads = {t1, t2}
    MaxThreads = 2
    MaxContext = 1
    MaxOps = 4
    PipeSize = 2
    Outcomes = {"full", "canceled"}
    Ioctls = TRUE
    Nobody = Nobody
SYMMETRY AcbThreadSymmetry
CHECK_DEADLOCK FALSE
INVARIANTS TypeOK ThreadAccounting NoLostWakeup QueuedIffInactive WorkerOwnsJob KillRaisesSignal OneOwner
PROPERTIES FlushDrains
