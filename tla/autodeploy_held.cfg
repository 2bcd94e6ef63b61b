\* Tags on targets that every commit has: what ends a hold.  No faults.
SPECIFICATION FairSpec
CONSTANTS
    c1 = c1
    c2 = c2
    c3 = c3
    None = None
    Targets = {1, 2}
    Commits <- ThreeCommits
    Initial = c1
    Tree <- EditOnly
    NeverAuto = {}
    MaxManual = 0
    CIGate = TRUE
    MaxTags = 3
    MaxFaults = 0
PROPERTIES
    HeldUntilGreen
