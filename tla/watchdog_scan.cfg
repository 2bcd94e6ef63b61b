\* Two containers, up to four scans, one fault: everything a scan does to the disk.
SPECIFICATION Spec
CONSTANTS
    Containers  = {1, 2}
    Threshold   = 2
    MaxRestarts = 1
    Day         = 3
    Cooldown    = 1
    StartTime   = 3
    Gaps        <- Polls
    Horizon     = 7
    MaxFaults   = 1
INVARIANTS
    TypeOK
    Announced
    OutcomesAccounted
    FailureStaysVisible
    SuccessAgreement
PROPERTIES
    CountersMonotone
    PublishedBeforeAction
