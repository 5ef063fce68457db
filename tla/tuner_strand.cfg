\* Two workers and a tuner that backs off to one.
SPECIFICATION Spec
CONSTANTS
    w1 = w1
    w2 = w2
    w3 = w3
    Workers <- MCTwo
    InitialWorkers <- MCTwo
    NumTasks = 2
    Hosts <- MCHosts
    HostOf <- MCHostOfN
    NoHost <- MCNoHost
    QueueCap = 2
    MaxConcurrency = 2
    MaxFetchRetries = 3
    AutoTune = TRUE
    MayCancel = FALSE
SYMMETRY MCSymmetry
CHECK_DEADLOCK FALSE
INVARIANTS
    CleanupAfterAllSettled
