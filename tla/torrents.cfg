\* Two magnet links of one torrent, or one and a .torrent, perhaps left by an earlier run.
SPECIFICATION FairSpec
CONSTANTS
    NumResources = 3
    Downloads <- MCDownloads
    Magnets <- MCMagnets
    Ids <- MCIds
    IdOf <- MCIdOf
    Databases <- MCDatabases
    Expired <- MCIds
    Pieces = 2
    PieceSize = 2
    LastSize = 1
    MaxFetchRetries = 2
\* The program ends, and a fetch of a removed torrent may wait for ever.
CHECK_DEADLOCK FALSE
INVARIANTS
    TypeOK
    OkHasAllPieces
    AddedIsSpared
    NoWaitForMetadata
PROPERTIES
    EveryTorrentEnds
