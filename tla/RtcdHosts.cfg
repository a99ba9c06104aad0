SPECIFICATION FairSpec
CONSTANTS
    Hosts = {h1, h2}
    Callers = {k1}
PROPERTIES
    HostsFollowDNS
    HostsRecover
CHECK_DEADLOCK FALSE
