\* Three boots, a ring buffer of two lines, faults of every kind.
SPECIFICATION FairSpec
CONSTANTS
    Lines <- TwoLines
    MaxLog = 2
    MaxBoots = 3
    Faults <- AllFaults
    MaxFaults = 2
INVARIANTS
    TypeOK
    
    FatalVisible
PROPERTIES
    NeverZeroed
    ScanResumes
