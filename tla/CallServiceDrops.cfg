SPECIFICATION Spec
CONSTANTS
    Conns = {1, 2}
    Users <- MCUsers
    userOf <- OneUser
    Times <- MCTimes
    Channels = {"c1"}
    Limit = 0
    MaxCalls = 2
    MaxJoins = 1
    Sources = {"drop", "reuse", "sfu"}
    Faults = {}
INVARIANTS
    TypeOK
    EndedOnce
    LiveCallRegistered
CHECK_DEADLOCK FALSE
