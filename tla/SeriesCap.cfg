SPECIFICATION Spec
CONSTANTS
    Workers = {w1}
    MaxRequests = 2
    StoreFaults = FALSE
    Amounts = {1}
    Totals = {1}
    MaxRows = 4
    Teachers = {"t"}
    Lessons <- MCLessons
    Week = 4
    MaxRepeat = 2
    RowCap = 1
    Students = {"s1"}
INVARIANT CheckedNeverOverlaps
CHECK_DEADLOCK FALSE
