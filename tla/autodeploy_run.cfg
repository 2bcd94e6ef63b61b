\* Deploy, roll back, crash and lose commands over three tags on three commits.
SPECIFICATION FairSpec
CONSTANTS
    c1 = c1
    c2 = c2
    c3 = c3
    None = None
    Targets = {1, 2, 3}
    Commits <- ThreeCommits
    Initial = c1
    Tree <- AddRemoveHold
    NeverAuto = {3}
    MaxManual = 1
    CIGate = TRUE
    MaxTags = 3
    MaxFaults = 2
INVARIANTS
    TypeOK
    
    DependenciesFirst
PROPERTIES
    NoRetry
    TagHandled
    DriftClearsByDeploy
    
