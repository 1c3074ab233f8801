SPECIFICATION Spec
CONSTANTS
    n1 = n1
    n2 = n2
    good = good
    bad = bad
    s1 = s1
    s2 = s2
    Nodes <- MCNodes
    Apps <- MCApps
    Connectable <- MCConnectable
    Checked <- MCChecked
    Secrets <- MCSecrets
    MaxSaves = 2
    Overlap = TRUE
    None = None
SYMMETRY MCSymmetry
INVARIANTS
    OneJob
