\* A restart onto a fresh chain that no probe sees as a failure, then a
\* probe reporting a height below the mirrored blocks.  One probe in flight,
\* so answers are applied in the order they were taken.
CONSTANTS
    Cap            = 2
    ColdWindow     = 1
    CatchUpWindow  = 2
    MaxHeight      = 2
    MaxGroupHeight = 0
    MaxEpoch       = 1
    MaxBoot        = 1
    MaxInflight    = 1
SPECIFICATION Spec
PROPERTY
    RegressionResetsMirror
