SPECIFICATION Spec
CONSTANTS
    Keys = {k1}
    Values = {v1}
    Readers = {r1}
    None = None
    Err = Err
    SyncModes = {FALSE}
    FaultModes = {FALSE}
    MaxRecords = 4
    k1 = k1
    v1 = v1
    r1 = r1
INVARIANTS
    RestartSucceeds
