SPECIFICATION Spec
CONSTANTS
    Workers = {w1, w2}
    MaxRequests = 3
    StoreFaults = TRUE
    Amounts = {1, 2}
    Totals = {2, 3}
    MaxRows = 4
    Teachers = {"t"}
    Lessons <- MCLessons
    Week = 4
    MaxRepeat = 2
    RowCap = 1
    Students = {"s1", "s2"}
INVARIANTS
    PaidNeverOverstated
    RecomputationRepairs
    SeenNeverOverlaps
    SheetReplaced
SYMMETRY WorkerSymmetry
CHECK_DEADLOCK FALSE
