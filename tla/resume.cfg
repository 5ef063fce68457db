\* Two chunks and three versions of the remote file; any number of runs.
SPECIFICATION Spec
CONSTANTS
    c1 = c1
    c2 = c2
    Chunks <- MCChunks
    MaxVersions = 3
SYMMETRY MCSymmetry
INVARIANTS
    TypeOK
    ResumeSafe
