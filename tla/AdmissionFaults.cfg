SPECIFICATION FairSpec
CONSTANTS
    Users = {u1, u2}
    Procs = {p1, p2}
    None = None
    Allowed = 1
    MaxPending = 1
    Restricted = TRUE
    Lag = TRUE
    Faults = TRUE
PROPERTIES
    LockReleased
    WhitelistGate
