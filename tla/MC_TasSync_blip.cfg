\* A probe failure between two answers of the same node process.
CONSTANTS
    Cap            = 2
    ColdWindow     = 1
    CatchUpWindow  = 2
    MaxHeight      = 3
    MaxGroupHeight = 0
    MaxEpoch       = 1
    MaxBoot        = 1
    MaxInflight    = 2
SPECIFICATION Spec
PROPERTY
    MirrorsClearedOnlyOnRestart
