SPECIFICATION Spec
CONSTANTS
    ann = ann
    bob = bob
    a1 = a1
    l1 = l1
    l2 = l2
    Users <- MCUsers
    Accounts <- MCAccounts
    Links <- MCLinks
    MaxFlows = 3
    MaxCallbacks = 2
    None = None
SYMMETRY MCSymmetry
INVARIANTS
    LastTabConnects
    OneUserPerAccount
