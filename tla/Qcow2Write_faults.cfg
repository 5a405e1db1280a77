SPECIFICATION Spec
CONSTANTS
    Reqs = {r1, r2, r3}
    G = 2
    CS = 2
    H = 8
    MaxSectors = 2
    Faults = {"hd_write", "link"}
    Cancels = FALSE
    NoReq = NoReq
SYMMETRY ReqSymmetry
CHECK_DEADLOCK FALSE
INVARIANTS TypeOK InFlightExact AllocationsDisjoint NeverAborts GuestData WaitersHaveOwner
