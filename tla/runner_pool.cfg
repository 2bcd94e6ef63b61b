\* Two repositories, cap 2, jobs and faults of every kind but a failing
\* `docker ps`.
SPECIFICATION FairSpec
CONSTANTS
    Runners = {1, 2, 3}
    Repos <- TwoRepos
    RepoOf <- ThreeRunners
    MaxConcurrentGlobal = 2
    IdlePerRepo = 1
    OrphanReap = 2
    Faults <- AllButPs
    MaxJobs = 2
    MaxFaults = 2
INVARIANTS
    TypeOK
    CapHolds
    
PROPERTIES
    ImplementsPool
    ReapAfterGrace
    
