SPECIFICATION Spec
CONSTANTS
    L1Max = 2
    DiskTables = 1
    L2Size = 1
    H = 14
    Values = {u, v}
    Blank = Blank
    Ids = {s1, s2}
    NoId = NoId
    Ops = {"create", "goto"}
    MaxOps = 4
    Faults = {}
    FailIn = {}
    ReopenIn = {"idle", "drift"}
SYMMETRY Symmetry
CHECK_DEADLOCK FALSE
INVARIANTS CheckClean
