\* Heights 0..4 with two heights per answer, so walks split across answers;
\* one restart, two probes in flight, one host change.
CONSTANTS
    Batch         = 2
    MaxHeight     = 4
    MaxBoot       = 1
    MaxInflight   = 2
    MaxHostChange = 1
SPECIFICATION Spec
INVARIANT
    TypeOK
PROPERTIES
    BatchBounded
    CursorFallsOnlyToReport
    CursorReachesTip
