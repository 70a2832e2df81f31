SPECIFICATION Spec
CONSTANTS
    Ids = {i1, i2}
    MinIdle = 0
    MaxInstances = 2
    MaxProvisioning = 2
    AttemptLimit = 2
    MaxJobs = 1
    MaxFaults = 2
    MaxCrashes = 1
SYMMETRY Symmetry
INVARIANTS
    TypeOK
    NothingLeftBehind
    OrphansAreUntracked
    NoWriteRefused
    JobCompletedIsTrue
PROPERTY ActiveRunnerKept
