CONSTANTS
    w1 = w1
    w2 = w2
    w3 = w3
    Workers = {w1, w2, w3}
    Stamps = {1, 2}
    N = 3
    R = 2
    W = 2
SPECIFICATION FairSpec
INVARIANTS
    TypeOK
    NeverClosedTwice
    VerdictExact
    LatestOfFirstQuorum
CHECK_DEADLOCK FALSE
PROPERTY CallReturns
