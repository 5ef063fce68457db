\* A file of unknown length: one task, read until EOF.
SPECIFICATION FairSpec
CONSTANTS
    ProbedSize = 0
    RangeSize = 3
    ReadUnit = 2
    MaxFetchRetries = 3
    Setups <- MCFile
PROPERTIES
    EveryFetchEnds
