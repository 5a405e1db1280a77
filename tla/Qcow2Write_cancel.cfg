SPECIFICATION Spec
CONSTANTS
    Reqs = {r1, r2}
    G = 2
    CS = 2
    H = 8
    MaxSectors = 2
    Faults = {}
    Cancels = TRUE
    NoReq = NoReq
SYMMETRY ReqSymmetry
CHECK_DEADLOCK FALSE
INVARIANT WaitersHaveOwner
