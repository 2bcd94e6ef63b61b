\* One `docker ps` that fails.
SPECIFICATION Spec
CONSTANTS
    Runners = {1, 2, 3}
    Repos <- TwoRepos
    RepoOf <- ThreeRunners
    MaxConcurrentGlobal = 2
    IdlePerRepo = 1
    OrphanReap = 2
    Faults = {"ps"}
    MaxJobs = 1
    MaxFaults = 1
INVARIANTS
    CapHolds
