SPECIFICATION Spec
CONSTANTS
    Keys = {k1, k2}
    Values = {v1, v2}
    Readers = {r1, r2}
    None = None
    Err = Err
    SyncModes = {TRUE}
    FaultModes = {FALSE}
    MaxRecords = 4
    k1 = k1
    k2 = k2
    v1 = v1
    v2 = v2
    r1 = r1
    r2 = r2
INVARIANTS
    GetReturnsLatest
