\* Three hashes, two requests of each method in flight.
CONSTANTS
    t1 = t1
    t2 = t2
    t3 = t3
    Hashes <- MCHashes
    Empty = Empty
    Hidden = Hidden
    MaxInflight = 2
SYMMETRY MCSymmetry
SPECIFICATION Spec
INVARIANTS
    TypeOK
    PanelsShowLastQuery
PROPERTIES
    PanelsRefine
