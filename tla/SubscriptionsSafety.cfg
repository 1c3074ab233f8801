SPECIFICATION Spec
CONSTANTS
    Ids = {i1, i2, i3, i4, i5}
    Secrets = {s1}
    None = None
    Lifetime = 4
    RefreshLimit = 2
    MaxFaults = 5
    Lag = TRUE
    DelayedLanding = FALSE
SYMMETRY Symmetry
INVARIANTS
    TypeOK
    SingleRemote
PROPERTY ForgetOnlyDead
