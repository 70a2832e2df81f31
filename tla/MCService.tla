----------------------------- MODULE MCService -----------------------------
(***************************************************************************)
(* What makes the record of the passes correct, and Service on small       *)
(* instances.                                                              *)
(***************************************************************************)
EXTENDS Service, TLC

\* Pools are interchangeable, and so are their failures.
Symmetry == Permutations(Pools) \union Permutations(Failures)

\* Every variable has its type; an incident a pool points at exists.
ServiceTypeOK ==
    /\ RuntimeTypeOK
    /\ TrackerTypeOK
    /\ DatabaseTypeOK
    /\ phase \in {"down", "creating", "starting", "up", "stopping", "stopped"}
    /\ pass \in [Pools -> PassStates]
    /\ result \in [Pools -> Results]
    /\ failures \in 0 .. MaxFailures
    /\ stops \in 0 .. MaxStops

\* The incident a pool points at is its one open incident, or there is none;
\* and the result on record tells which: after repeated, changing and
\* interrupted failures, and passes whose result was lost.
IncidentLinked ==
    \A p \in Pools :
        /\ OpenIncidents(p) = {link[p]} \ {0}
        /\ run[p] = "succeeded" => link[p] = 0
        /\ run[p] = "failed" => link[p] # 0

\* A process that serves shows no run as running that it did not start itself.
NoStaleRun ==
    phase \in {"up", "stopping"} =>
        \A p \in Pools : run[p] = "running" => own[p]

\* A run whose result was lost is on record as running although nothing runs;
\* /healthz then reports the failure until a pass ends well.
LostResultShows ==
    \A p \in Pools :
        pass[p] \in {"sleep", "begin"} /\ run[p] = "running" => failed[p]

\* /healthz answers from memory, the API from the database: when every pool is
\* reported healthy no incident is open, but for one that is being reported.
HealthyIsClean ==
    phase \in {"up", "stopping"} /\ Condition = "healthy" =>
        \A p \in Pools : link[p] # 0 => pass[p] = "report"

\* A pool between two passes is stalled only because the next one is overdue,
\* never because of a stage of the last one.
IdleIsNotStalled ==
    \A p \in Pools : ~active[p] /\ Late(p) => overdue[p]

\* Whatever file a process finds, and wherever the creation or the migration of
\* an earlier one was cut short: what runs has the whole schema of version 2.
SchemaIsWhole ==
    phase \in {"starting", "up", "stopping"} =>
        version = SchemaVersion /\ tables = Tables /\ columns

\* A creation cut short leaves a file that every later process refuses; it has
\* never been in use, so that recreating it loses nothing.  (One of the release
\* without versions is refused as well, and may have been.)
RefusedIsUnused ==
    version = 0 /\ tables # {} /\ ~Unversioned =>
        phase \in {"down", "creating"} /\ incidents = <<>>
            /\ \A p \in Pools : run[p] = "none"

\* Incidents are a history: none is lost or rewritten or opened again, by
\* whatever process, and one is resolved only when a pass of its pool succeeds or
\* fails for another cause, which then has an incident of its own.
HistoryGrows ==
    /\ Len(incidents) <= Len(incidents')
    /\ \A k \in 1 .. Len(incidents) :
           /\ incidents'[k].pool = incidents[k].pool
           /\ incidents'[k].cause = incidents[k].cause
           /\ incidents'[k].open => incidents[k].open
           /\ incidents[k].open /\ ~incidents'[k].open =>
                  LET p == incidents[k].pool
                  IN  \/ run'[p] = "succeeded"
                      \/ /\ run'[p] = "failed" /\ link'[p] = Len(incidents) + 1
                         /\ incidents'[link'[p]].cause # incidents[k].cause

\* The same, of every step of the service.
HistoryKept == [][HistoryGrows]_svars

\* The most steps a worker has left once its context is canceled.
StepsLeft(s) ==
    CASE s = "off"                -> 0
      [] s \in {"sleep", "begin"} -> 1
      [] s = "report"             -> 2
      [] s = "finish"             -> 3
      [] s = "work"               -> 4
      [] s = "progress"           -> 5
      [] OTHER                    -> 6

\* Once a shutdown has begun every step of a worker takes it nearer to its end,
\* and nothing takes it back: no pass begins, and the one at hand goes on to
\* write its result.
ShutdownAdvances ==
    [][phase = "stopping" /\ phase' = "stopping" =>
           /\ \A p \in Pools :
                  /\ StepsLeft(pass'[p]) <= StepsLeft(pass[p])
                  /\ pass[p] = "work" => pass'[p] \in {"work", "finish"}
           /\ (\E p \in Pools : Worker(p)) =>
                  \E p \in Pools : StepsLeft(pass'[p]) < StepsLeft(pass[p])]_svars

\* A shutdown ends: no worker waits for a timer or a pass that will not end.
ShutdownCompletes == phase = "stopping" ~> phase # "stopping"

\* A run on record as running is closed, by its pass, by the next process or
\* by the next pass, unless the process is stopped and left stopped.
RunsSettle ==
    \A p \in Pools :
        run[p] = "running" ~> run[p] # "running" \/ phase = "stopped"

\* Once passes stop failing every incident is resolved.
IncidentsResolve ==
    \A p \in Pools : link[p] # 0 ~> link[p] = 0 \/ phase = "stopped"
=============================================================================
