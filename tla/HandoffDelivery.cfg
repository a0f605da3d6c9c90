CONSTANTS
    t1 = t1
    t2 = t2
    k1 = k1
    k2 = k2
    Targets = {t1, t2}
    Keys = {k1, k2}
    MaxSize = 2
    MaxAttempts = 0
    MaxStores = 3
SPECIFICATION FairSpec
INVARIANTS
    TypeOK
    NeverSentBackwards
PROPERTIES
    NeverGivenUpEarly
    HintsDrain
    StopReturns
