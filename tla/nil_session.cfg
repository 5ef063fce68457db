\* A session that cannot be created, and more than one torrent.
SPECIFICATION Spec
CONSTANTS
    NumResources = 3
    Downloads <- MCDownloads
    Magnets <- MCMagnets
    Ids <- MCIds
    IdOf <- MCIdOf
    Databases <- MCDatabases
    Expired <- MCIds
    Pieces = 2
    PieceSize = 2
    LastSize = 1
    MaxFetchRetries = 2
CHECK_DEADLOCK FALSE
INVARIANTS
    SessionOrError
