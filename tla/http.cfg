\* Two chunks (3 and 2 bytes) fetched in parallel into one file.
SPECIFICATION FairSpec
CONSTANTS
    ProbedSize = 5
    RangeSize = 3
    ReadUnit = 2
    MaxFetchRetries = 3
    Setups <- MCSound
INVARIANTS
    TypeOK
    StoredFaithful
    WrittenIsStored
    OkMeansWhole
    ProgressExact
PROPERTIES
    EndsUnlessSpinning
    PoolSpec
