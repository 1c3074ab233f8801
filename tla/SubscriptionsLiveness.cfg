SPECIFICATION FairSpec
CONSTANTS
    Ids = {i1, i2, i3, i4}
    Secrets = {s1, s2}
    None = None
    Lifetime = 5
    RefreshLimit = 4
    MaxFaults = 2
    Lag = FALSE
    DelayedLanding = TRUE
PROPERTIES
    NoExpiry
    Converges
