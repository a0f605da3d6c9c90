SPECIFICATION FairSpec
CONSTANTS
    n1 = n1
    n2 = n2
    n3 = n3
    Nodes = {n1, n2}
    Seeds <- Star
    SuspectTimeout = 0
    DeadTimeout = 1
    Stable = {}
    Prompt = TRUE
INVARIANTS
    TypeOK
    SelfServes
    DeadOffRing
PROPERTIES
    
    CrashDetected
    FalseDeathHeals
