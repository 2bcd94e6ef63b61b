\* Two shares that hang or disappear twice, and faults of every kind.
SPECIFICATION FairSpec
CONSTANTS
    Exports <- BothExports
    Main = "srv"
    Carrier = "generated"
    Spacing = 2
    Stale = 1
    Faults <- AllFaults
    MaxHangs = 2
    MaxFaults = 2
INVARIANTS
    TypeOK
    ReadOkIsRecent
PROPERTIES
    UnmountJustified
    
    
    AbsentIsMounted
