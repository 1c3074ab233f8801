SPECIFICATION Spec
CHECK_DEADLOCK FALSE
CONSTANTS
    c1 = c1
    c2 = c2
    Calls <- MCCalls
    OpsOf <- MCOpsOf
    Pages = 2
    None = None
INVARIANTS
    RefusalNoticed
    PagesAllRead
    OkMeansDone
