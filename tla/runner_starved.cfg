\* A Mac that restarts under a job; no other fault.
SPECIFICATION FairSpec
CONSTANTS
    Runners = {1, 2, 3, 4}
    Repos <- TwoRepos
    RepoOf <- FourRunners
    MaxConcurrentGlobal = 2
    IdlePerRepo = 1
    OrphanReap = 2
    Faults = {"reboot"}
    MaxJobs = 2
    MaxFaults = 1
PROPERTIES
    EitherRepoServed
