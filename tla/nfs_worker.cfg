\* One command that takes effect after its time limit.
SPECIFICATION FairSpec
CONSTANTS
    Exports <- BothExports
    Main = "srv"
    Carrier = "generated"
    Spacing = 2
    Stale = 1
    Faults = {"late"}
    MaxHangs = 1
    MaxFaults = 1
PROPERTIES
    WorkerPreserved
