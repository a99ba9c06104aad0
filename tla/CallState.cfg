SPECIFICATION Spec
CONSTANTS
    Conns <- MCConns
    Users <- MCUsers
    userOf <- MCUserOf
    Times <- MCTimes
    Limit = 3
    MaxJoins = 2
INVARIANTS
    TypeOK
    HostInCall
    LimitRespected
    ConnIndexExact
PROPERTIES
    SuccessionByTenure
CHECK_DEADLOCK FALSE
