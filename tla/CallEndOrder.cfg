SPECIFICATION Spec
CONSTANTS
    Conns = {1, 2}
    Users <- MCUsers
    userOf <- TwoUsers
    Times <- MCTimes
    Channels = {"c1"}
    Limit = 0
    MaxCalls = 2
    MaxJoins = 1
    Sources = {"start", "end"}
    Faults = {}
PROPERTIES
    CallEndNotOverNewer
CHECK_DEADLOCK FALSE
