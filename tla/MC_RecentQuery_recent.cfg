\* Three hashes into a list of two, three queries in flight.
CONSTANTS
    h1 = h1
    h2 = h2
    h3 = h3
    Hashes <- MCHashes
    Empty = Empty
    NoDetail = NoDetail
    RecentCap = 2
    MaxInflight = 3
SYMMETRY MCSymmetry
SPECIFICATION Spec
INVARIANTS
    TypeOK
    RecentDistinct
    DetailRemembered
    DetailShowsLastQuery
PROPERTY
    RecentRefines
