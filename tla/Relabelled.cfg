SPECIFICATION FairDeploymentSpec
CONSTANTS
    Ids = {i1, i2}
    Jobs = {j1, j2}
    Offered <- Relabelled
    RunsOn <- OldAndNewJobs
    MaxAge = 1
    MaxDeployments = 2
    MaxFaults = 0
PROPERTY EveryJobServed
