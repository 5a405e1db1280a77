SPECIFICATION FairSpec
CONSTANTS
    Reqs = {r1, r2}
    G = 2
    CS = 2
    H = 6
    MaxSectors = 3
    Faults = {"hd_write", "link", "alloc", "hd_submit"}
    Cancels = TRUE
    NoReq = NoReq
CHECK_DEADLOCK FALSE
INVARIANTS RefcountSafe NoLeak
PROPERTIES SnapshotKept WritesComplete
