SPECIFICATION ServiceSpec
CONSTANTS
    Pools = {p1, p2}
    Failures = {f1, f2}
    MaxFailures = 3
    MaxStops = 1
SYMMETRY Symmetry
INVARIANTS
    ServiceTypeOK
    IncidentLinked
    NoStaleRun
    LostResultShows
    HealthyIsClean
    IdleIsNotStalled
    SchemaIsWhole
    RefusedIsUnused
