\* Two alerts that fire and resolve, two attempts at a message, two threads.
SPECIFICATION FairSpec
CONSTANTS
    Alerts <- TwoAlerts
    Attempts = 2
    Threads = {1, 2}
    Faults <- AllFaults
    MaxFaults = 3
INVARIANTS
    TypeOK
    ToldIsDelivered
PROPERTIES
    StatusArrives
    OrderKept
    ImplementsChannel
