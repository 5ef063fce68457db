\* One worker, a tuner that may go up to two, and full queues: the system
\* can really stop (see retry_hang), so deadlock is not checked.
SPECIFICATION Spec
CONSTANTS
    w1 = w1
    w2 = w2
    w3 = w3
    Workers <- MCThree
    InitialWorkers <- MCOne
    NumTasks = 2
    Hosts <- MCHosts
    HostOf <- MCHostOfN
    NoHost <- MCNoHost
    QueueCap = 1
    MaxConcurrency = 2
    MaxFetchRetries = 2
    AutoTune = TRUE
    MayCancel = TRUE
SYMMETRY MCSymmetry
CHECK_DEADLOCK FALSE
INVARIANTS
    TaskConservation
    ActiveExact
PROPERTY
    AttemptsSpec
