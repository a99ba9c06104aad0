SPECIFICATION FairSpec
CONSTANTS
    Conns = {1}
    Users <- MCUsers
    userOf <- OneUser
    Times <- MCTimes
    Channels = {"c1"}
    Limit = 0
    MaxCalls = 1
    MaxJoins = 2
    Sources = {"remove", "drop"}
    Faults = {}
PROPERTIES
    GoneClientReleased
CHECK_DEADLOCK FALSE
