\* More tasks than a queue holds: both workers fail and wait to send.
SPECIFICATION Spec
CONSTANTS
    w1 = w1
    w2 = w2
    w3 = w3
    Workers <- MCTwo
    InitialWorkers <- MCTwo
    NumTasks = 4
    Hosts <- MCHosts
    HostOf <- MCHostOfN
    NoHost <- MCNoHost
    QueueCap = 1
    MaxConcurrency = 2
    MaxFetchRetries = 3
    AutoTune = FALSE
    MayCancel = FALSE
SYMMETRY MCSymmetry
CHECK_DEADLOCK FALSE
INVARIANTS
    NoRetryHang
