SPECIFICATION Spec
CONSTANTS
    p1 = p1
    p2 = p2
    Procs = {p1, p2}
    None = None
    MaxTokens = 2
    MaxTime = 3
    MaxMessages = 1
    Lag = TRUE
SYMMETRY Symmetry
INVARIANTS
    TypeOK
    TimesAgree
    NotifiedOnceConnected
PROPERTY
    SeatKept
