SPECIFICATION Spec
CONSTANTS
    Conns = {1, 2}
    Users <- MCUsers
    userOf <- TwoUsers
    Times <- MCTimes
    Channels = {"c1"}
    Limit = 1
    MaxCalls = 2
    MaxJoins = 1
    Sources = {"start", "remove"}
    Faults = {"db", "sfu"}
INVARIANTS
    OneLiveCall
    LiveCallRegistered
    LimitHeld
PROPERTIES
    ImplementsChannelCalls
CHECK_DEADLOCK FALSE
