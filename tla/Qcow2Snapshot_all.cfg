SPECIFICATION Spec
CONSTANTS
    L1Max = 2
    DiskTables = 1
    L2Size = 2
    H = 14
    Values = {u, v}
    Blank = Blank
    Ids = {s1, s2}
    NoId = NoId
    Ops = {"create", "goto", "delete"}
    MaxOps = 5
    Faults = {"refs", "save_l1", "list"}
    FailIn = {"create"}
    ReopenIn = {"idle", "create"}
SYMMETRY Symmetry
CHECK_DEADLOCK FALSE
INVARIANTS GuestIntact SnapshotsIntact CheckClean 
