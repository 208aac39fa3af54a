\* Heights 0..4, two per answer, one restart, two probes in flight.
CONSTANTS
    Batch         = 2
    MaxHeight     = 4
    MaxBoot       = 1
    MaxInflight   = 2
    MaxHostChange = 1
SPECIFICATION Spec
PROPERTY OnlineOnlyOnResult
