SPECIFICATION FairSpec
CONSTANTS
    Conns = {1}
    Users <- MCUsers
    userOf <- OneUser
    Times <- MCTimes
    Channels = {"c1"}
    Limit = 0
    MaxCalls = 2
    MaxJoins = 1
    Sources = {"start", "reaper", "drop", "end"}
    Faults = {}
PROPERTIES
    HandlersFinish
    GoneClientReleased
    EmptyCallsEnd
    ImplementsChannelCalls
CHECK_DEADLOCK FALSE
