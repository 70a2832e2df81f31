SPECIFICATION Spec
CONSTANTS
    Ids = {i1, i2}
    MinIdle = 0
    MaxInstances = 1
    MaxProvisioning = 1
    AttemptLimit = 2
    MaxJobs = 1
    MaxFaults = 0
    MaxCrashes = 0
INVARIANT MachinesCapped
