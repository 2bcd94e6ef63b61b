\* A tag that adds a target: what its rollback restores.  No faults.
SPECIFICATION FairSpec
CONSTANTS
    c1 = c1
    c2 = c2
    c3 = c3
    None = None
    Targets = {1, 2}
    Commits <- ThreeCommits
    Initial = c1
    Tree <- AddAndRemove
    NeverAuto = {}
    MaxManual = 0
    CIGate = TRUE
    MaxTags = 3
    MaxFaults = 0
INVARIANTS
    RollbackReconverges
