SPECIFICATION FairSpec
CONSTANTS
    Ids = {i1, i2}
    MinIdle = 2
    MaxInstances = 2
    MaxProvisioning = 2
    AttemptLimit = 2
    MaxJobs = 0
    MaxFaults = 1
    MaxCrashes = 1
PROPERTIES
    PassEnds
    StartsSettle
    CleaningFinishes
    LeftoversCollected
