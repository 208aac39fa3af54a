\* Spec 4.4: a tab clicked twice leaks its reloadBlocksTable interval.
\* One live interval and one pending timeout of each kind; no restart, so
\* resets come from the status cell and the host change.
CONSTANTS
    Cap            = 2
    ColdWindow     = 1
    CatchUpWindow  = 2
    MaxHeight      = 2
    MaxGroupHeight = 0
    MaxEpoch       = 0
    MaxBoot        = 0
    MaxInflight    = 1
    MaxTimers      = 2
    MaxHostChange  = 1
SPECIFICATION DashSpec
INVARIANT
    BlockPollOnlyOnBlockTab
