SPECIFICATION Spec
CONSTANTS
    n1 = n1
    n2 = n2
    n3 = n3
    Nodes = {n1, n2, n3}
    Contacts = {n1, n2}
    Peers <- FullMesh
    Rank <- WalkOrder
    p1 = p1
    p2 = p2
    g1 = g1
    d1 = d1
    Puts = {p1, p2}
    Gets = {g1}
    Deletes = {d1}
    N = 3
    R = 2
    W = 2
    Levels = {"quorum"}
    Skew = 0
    Serial = TRUE
    MaxChanges = 0
SYMMETRY RequestSymmetry
INVARIANTS
    TypeOK
    QuorumReadFresh
    AckedWriteHeld
    ReadRepairHeals
CHECK_DEADLOCK FALSE
