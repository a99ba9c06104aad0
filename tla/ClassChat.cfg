SPECIFICATION Spec
CONSTANTS
    Workers = {w1, w2}
    MaxRequests = 3
    MayFail = TRUE
    Classes = {k1, k2}
    Codes = {"10A", "10a", "10B"}
    nameOf <- MCNames
    Teachers = {"t", "u"}
    Students = {"s"}
    Admins = {"a"}
    TeamMembers = {"t", "s"}
    Bodies = {"form", "status", "rename"}
INVARIANTS
    SyncSettles
    SharedBySameNameOnly
    ClosingReleases
SYMMETRY ChatSymmetry
CHECK_DEADLOCK FALSE
