\* Two workers, three tasks of two hosts, queues that can hold them all,
\* no tuner; the caller may cancel at any moment.
SPECIFICATION FairSpec
CONSTANTS
    w1 = w1
    w2 = w2
    w3 = w3
    Workers <- MCTwo
    InitialWorkers <- MCTwo
    NumTasks = 3
    Hosts <- MCHosts
    HostOf <- MCHostOfN
    NoHost <- MCNoHost
    QueueCap = 3
    MaxConcurrency = 2
    MaxFetchRetries = 3
    AutoTune = FALSE
    MayCancel = TRUE
INVARIANTS
    TypeOK
    TasksWgExact
    CancelMeansSettled
    CleanupAfterAllSettled
    
PROPERTIES
    PoolSpec
    Termination
    EveryTaskEnds
