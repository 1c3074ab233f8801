SPECIFICATION Spec
CONSTANTS
    Users = {u1, u2, u3}
    Procs = {p1, p2}
    None = None
    Allowed = 2
    MaxPending = 1
    Restricted = FALSE
    Lag = FALSE
    Faults = TRUE
SYMMETRY Symmetry
INVARIANTS
    TypeOK
    CapRespected
    PendingCapRespected
    NoDoubleCount
PROPERTIES
    LedgerSpec
    InviteOnce
    DenialJustified
