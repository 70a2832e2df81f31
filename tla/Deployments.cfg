SPECIFICATION FairDeploymentSpec
CONSTANTS
    Ids = {i1, i2, i3}
    Jobs = {j1, j2}
    Offered <- ManyFiles
    RunsOn <- ManyJobs
    MaxAge = 1
    MaxDeployments = 2
    MaxFaults = 1
INVARIANT OnePoolPerJob
PROPERTIES
    UnconfiguredKept
    ActiveJobKept
    JobsServed
    LeftoversFollowScope
