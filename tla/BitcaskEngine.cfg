SPECIFICATION Spec
CONSTANTS
    Keys = {k1, k2}
    Values = {v1, v2}
    Readers = {r1}
    None = None
    Err = Err
    SyncModes = {TRUE, FALSE}
    FaultModes = {TRUE, FALSE}
    MaxRecords = 3
    k1 = k1
    k2 = k2
    v1 = v1
    v2 = v2
    r1 = r1
SYMMETRY KeySymmetry
INVARIANTS
    TypeOK
    IndexPointsHome
    PositionExact
    GetReturnsLatest
    DeletedCountExact
PROPERTIES
    
    ImplementsDurableMap
