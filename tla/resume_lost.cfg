\* Are finished chunks recorded for the next run?
SPECIFICATION Spec
CONSTANTS
    c1 = c1
    c2 = c2
    Chunks <- MCChunks
    MaxVersions = 3
SYMMETRY MCSymmetry
INVARIANTS
    CompletedIsRecorded
