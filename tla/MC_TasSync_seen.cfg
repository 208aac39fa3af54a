\* More groups than the capacity pass through the group mirror.
CONSTANTS
    Cap            = 2
    ColdWindow     = 1
    CatchUpWindow  = 2
    MaxHeight      = 0
    MaxGroupHeight = 3
    MaxEpoch       = 1
    MaxBoot        = 1
    MaxInflight    = 2
SPECIFICATION Spec
INVARIANT
    GroupIdsBounded
