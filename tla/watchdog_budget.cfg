\* One container over several days of polls: the restart budget and the cooldown.
SPECIFICATION Spec
CONSTANTS
    Containers  = {1}
    Threshold   = 1
    MaxRestarts = 2
    Day         = 3
    Cooldown    = 2
    StartTime   = 3
    Gaps        <- PollOrOutage
    Horizon     = 10
    MaxFaults   = 1
INVARIANTS
    BudgetPerDay
PROPERTIES
    UrgentSpacing
