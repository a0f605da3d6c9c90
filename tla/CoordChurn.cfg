SPECIFICATION FairSpec
CONSTANTS
    n1 = n1
    n2 = n2
    n3 = n3
    Nodes = {n1, n2}
    Contacts = {n2}
    Peers <- Partial
    Rank <- WalkOrder
    p1 = p1
    p2 = p2
    g1 = g1
    d1 = d1
    Puts = {p1, p2}
    Gets = {g1}
    Deletes = {}
    N = 2
    R = 1
    W = 2
    Levels = {"quorum"}
    Skew = 0
    Serial = FALSE
    MaxChanges = 1
INVARIANTS
    FreshUnlessRegressed
PROPERTIES
    RequestsEnd
CHECK_DEADLOCK FALSE
