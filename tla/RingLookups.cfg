CONSTANTS
    Nodes = {n1, n2, n3}
    VirtualCounts = {1, 2}
    Width = 3
SPECIFICATION Spec
SYMMETRY NodeSymmetry
INVARIANTS
    TypeOK
    RingCanonical
    PreferenceListExact
    RangesMatchOwners
    
    NeighboursAgree
PROPERTY OnlyOneReplicaMoves
