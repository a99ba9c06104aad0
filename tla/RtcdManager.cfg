SPECIFICATION FairSpec
CONSTANTS
    Managers = {m1, m2, m3}
    Starters = {1, 2}
    NoManager = NoManager
INVARIANTS
    NoOrphan
    InstalledIsUsable
PROPERTIES
    ManagerRecovers
CHECK_DEADLOCK FALSE
