SPECIFICATION FairSpec
CONSTANTS
    Monitors = {m1}
    Checks = {k1}
    MaxUid = 3
    Limit = 1
    MaxAll = 3
    Batch = 1
    Befores = {0}
    MaxMishaps = 1
    None = None
INVARIANTS RunningIsServed NoGap
PROPERTIES ReconcileOnlyGone StatusClears
CHECK_DEADLOCK FALSE
