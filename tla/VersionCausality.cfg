CONSTANTS
    n1 = n1
    n2 = n2
    n3 = n3
    Nodes = {n1, n2, n3}
    Timestamps = {1, 2}
    MaxVersions = 3
SPECIFICATION Spec
SYMMETRY Symmetry
INVARIANTS
    TypeOK
    ClocksTrackCausality
    WinnerNotSuperseded
    MergeSupersedes
