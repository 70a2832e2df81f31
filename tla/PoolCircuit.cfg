SPECIFICATION Spec
CONSTANTS
    Ids = {i1, i2, i3}
    MinIdle = 2
    MaxInstances = 2
    MaxProvisioning = 2
    AttemptLimit = 2
    MaxJobs = 0
    MaxFaults = 1
    MaxCrashes = 1
SYMMETRY Symmetry
INVARIANT ProbeAlone
PROPERTY PolicyRespected
