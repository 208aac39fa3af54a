\* Both streams together: chain up to height 2 and groups up to height 1,
\* mirror capacity 2, one node restart, one host change, two probes in
\* flight.
CONSTANTS
    Cap            = 2
    ColdWindow     = 1
    CatchUpWindow  = 2
    MaxHeight      = 2
    MaxGroupHeight = 1
    MaxEpoch       = 1
    MaxBoot        = 1
    MaxInflight    = 2
SPECIFICATION Spec
INVARIANTS
    TypeOK
    BlocksSorted
    BlocksBelowCursor
    GroupsSorted
