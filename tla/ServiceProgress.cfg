SPECIFICATION FairServiceSpec
CONSTANTS
    Pools = {p1, p2}
    Failures = {f1}
    MaxFailures = 1
    MaxStops = 1
PROPERTIES
    ShutdownCompletes
    RunsSettle
    IncidentsResolve
