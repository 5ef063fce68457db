\* Lists of files, playlists, torrents, magnet links and models; chunks of two
\* units, batches of two; two attempts; the caller may cancel at any moment.
SPECIFICATION FairSpec
CONSTANTS
    ArgLists <- MCArgLists
    Repos <- MCRepos
    RangeSize = 2
    BatchSize = 2
    MaxTasks = 4
    MaxFetchRetries = 2
    VideoSize = 2
    ErrLines = 1
    PipeCap = 1
    AutoTune = TRUE
    MayCancel = TRUE
INVARIANTS
    TypeOK
    TasksTile
    SkippedLeavesNothing
    StorageMatchesFetcher
    NothingLeftBehind
    VideoOkIsWhole
    VideoProgressBounded
    NothingOutlivesFetch
PROPERTIES
    PoolSpec
    Termination
