\* The same file from a server that ignores Range.
SPECIFICATION Spec
CONSTANTS
    ProbedSize = 5
    RangeSize = 3
    ReadUnit = 2
    MaxFetchRetries = 3
    Setups <- MCNoRanges
INVARIANTS
    StoredFaithful
