SPECIFICATION FairSpec
CONSTANTS
    a1 = a1
    a2 = a2
    a3 = a3
    forged = forged
    r1 = r1
    r2 = r2
    w1 = w1
    w2 = w2
    Workers = {w1, w2}
    None = None
    QueueSize = 1
    Activities <- MCActivities
    Forged <- MCForged
    Requests <- MCRequests
    Batch <- MixedBatch
    MaxSends = 2
    Panics = TRUE
CHECK_DEADLOCK FALSE
INVARIANTS
    TypeOK
    WaitGroupExact
    PoolComplete
    StoppedEmpty
    GaugeExact
    TakenAsSent
    CrashOnlyStopping
PROPERTIES
    AcceptedTaken
    StopReturns
