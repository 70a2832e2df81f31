SPECIFICATION DeadlinesSpec
CONSTANTS
    Starts = {s1, s2}
    MaxInstances = 2
    StartupTimeout = 10
    CleanupTimeout = 2
    RequestTimeout = 1
    MaxRows = 3
    MaxExtra = 1
INVARIANTS
    PassBounded
    LateStageIsUndoing
    NoStageAfterPass
PROPERTY StartsUncut
