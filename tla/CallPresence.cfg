SPECIFICATION Spec
CONSTANTS
    Conns = {1, 2}
    Users <- MCUsers
    userOf <- MCUserOf
    Times <- MCTimes
    Flags = {"unmuted", "screenOn", "hand"}
    Controls = {"mute", "muteOthers", "screenOff", "lowerHand", "remove"}
    MaxRequests = 5
    SFUFaults = TRUE
INVARIANTS
    PresenceSettled
CHECK_DEADLOCK FALSE
