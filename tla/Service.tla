------------------------------ MODULE Service ------------------------------
(***************************************************************************)
(* internal/app: the process around the pools.  At startup it opens the    *)
(* database and closes the runs a crash left open, then one worker per     *)
(* pool makes one pass after another; a signal or a failing HTTP server    *)
(* cancels their context, waits for them and ends the process.  What a     *)
(* pass does to instances is PoolController's; here it is a stage after    *)
(* another, until it succeeds or fails.                                    *)
(*                                                                         *)
(* pass[p] is what the worker of p does next:                              *)
(*   begin    look at the context, tell the tracker                        *)
(*   open     StartPool             progress  the first setProgress        *)
(*   work     the rest of the pass  finish    the deferred FinishPool      *)
(*   report   complete              sleep     wait for the interval        *)
(***************************************************************************)
EXTENDS PoolRuntime, Tracker, Database

CONSTANTS
    MaxFailures,    \* bound on failing calls and missed pass deadlines
    MaxStops        \* bound on crashes and shutdowns

ASSUME ServiceAssumption ==
    /\ MaxFailures \in Nat
    /\ MaxStops \in Nat

VARIABLES
    phase,          \* down, creating, starting, up, stopping, or stopped
    pass,           \* pass[p]: where the worker of p is
    result,         \* result[p]: what reconcileErr holds
    failures, stops \* what is left of the budgets

serviceVars == <<phase, pass, result, failures, stops>>
svars == <<runtimeVars, trackerVars, databaseVars, serviceVars>>

PassStates == {"off", "begin", "open", "progress", "work", "finish",
               "report", "sleep"}

\* "persist" is a failure that is not recorded: the record itself failed.
Results == Causes \union {"ok", "persist"}

ServiceInit ==
    /\ RuntimeInit /\ TrackerInit /\ DatabaseInit
    /\ phase = "down"
    /\ pass = [p \in Pools |-> "off"]
    /\ result = [p \in Pools |-> "ok"]
    /\ failures = MaxFailures /\ stops = MaxStops

-----------------------------------------------------------------------------

Steady == UNCHANGED failures

Failure == failures > 0 /\ failures' = failures - 1

\* The pass context: canceled by a shutdown, or past its deadline.
Canceled(p) == phase = "stopping" \/ passLate[p]

Responds(p) == ~Canceled(p) /\ Steady

Fails(p) == IF Canceled(p) THEN Steady ELSE Failure

At(p, from) == pass[p] = from /\ phase \in {"up", "stopping"}

Move(p, to) == pass' = [pass EXCEPT ![p] = to]

Result(p, r) == result' = [result EXCEPT ![p] = r]

\* The process ends; what it held in memory is gone.
Vanish ==
    /\ Configure
    /\ own' = None
    /\ pass' = [p \in Pools |-> "off"]
    /\ result' = [p \in Pools |-> "ok"]
    /\ UNCHANGED <<run, staged, link, incidents>>

-----------------------------------------------------------------------------
(* The process.                                                            *)

\* store.Open, up to the creation of an empty database.  A database that is
\* refused ends the process, which systemd starts again.
Boot ==
    /\ phase \in {"down", "stopped"}
    /\ \/ Current /\ Steady /\ phase' = "starting" /\ UNCHANGED databaseVars
       \/ Earlier /\ Steady /\ phase' = "starting" /\ MigrateV1(TRUE)
       \/ Earlier /\ Failure /\ phase' = "down" /\ MigrateV1(FALSE)
       \/ Empty /\ Steady /\ phase' = "creating" /\ UNCHANGED databaseVars
       \/ Refused /\ Steady /\ phase' = "down" /\ UNCHANGED databaseVars
    /\ UNCHANGED <<runtimeVars, trackerVars, pass, result, stops>>

\* The statements of schema(), one after another.
CreateSchema ==
    /\ phase = "creating"
    /\ \/ Steady /\ (\E table \in Tables : CreateTable(table)) /\ UNCHANGED phase
       \/ Steady /\ Stamp /\ phase' = "starting"
       \/ Failure /\ phase' = "down" /\ UNCHANGED databaseVars
    /\ UNCHANGED <<runtimeVars, trackerVars, pass, result, stops>>

\* InterruptPools, one run at a time; an error ends the process.
InterruptPool(p) ==
    /\ phase = "starting" /\ run[p] = "running"
    /\ \/ Steady /\ FinishFailed(p, "interrupted") /\ UNCHANGED phase
       \/ Failure /\ phase' = "down" /\ UNCHANGED runtimeVars
    /\ UNCHANGED <<trackerVars, databaseVars, pass, result, stops>>

\* A slip: runs found open are left to their next pass.
ServeAtOnce ==
    /\ phase = "starting"
    /\ phase' = "up" /\ Configure
    /\ pass' = [p \in Pools |-> "begin"]
    /\ UNCHANGED <<runtimeVars, databaseVars, result, failures, stops>>

Serve ==
    /\ phase = "starting"
    /\ \A p \in Pools : run[p] # "running"
    /\ phase' = "up" /\ Configure
    /\ pass' = [p \in Pools |-> "begin"]
    /\ UNCHANGED <<runtimeVars, databaseVars, result, failures, stops>>

\* A signal, or the HTTP server failing.
Stop ==
    /\ phase = "up" /\ stops > 0
    /\ stops' = stops - 1 /\ phase' = "stopping"
    /\ UNCHANGED <<runtimeVars, trackerVars, databaseVars, pass, result, failures>>

\* workers.Wait returns and the server is shut down.  systemd restarts the
\* process only if that failed.
Exit ==
    /\ phase = "stopping"
    /\ \A p \in Pools : pass[p] = "off"
    /\ Vanish
    /\ \/ Steady /\ phase' = "stopped"
       \/ Failure /\ phase' = "down"
    /\ UNCHANGED <<databaseVars, stops>>

Crash ==
    /\ phase \in {"creating", "starting", "up", "stopping"} /\ stops > 0
    /\ stops' = stops - 1 /\ phase' = "down"
    /\ Vanish
    /\ UNCHANGED <<databaseVars, failures>>

-----------------------------------------------------------------------------
(* The worker of one pool.                                                 *)

Begin(p) ==
    /\ At(p, "begin")
    /\ \/ phase = "up" /\ PoolStart(p) /\ Move(p, "open")
       \/ phase = "stopping" /\ Move(p, "off") /\ UNCHANGED trackerVars
    /\ UNCHANGED <<runtimeVars, phase, result, failures, stops>>

\* A slip: FinishPool is deferred before the run is on record.
OpenWithFinish(p) ==
    /\ At(p, "open")
    /\ \/ Responds(p) /\ StartPool(p) /\ Move(p, "progress") /\ UNCHANGED result
       \/ /\ Fails(p) /\ UNCHANGED runtimeVars
          /\ Result(p, "persist") /\ Move(p, "finish")
    /\ UNCHANGED <<trackerVars, phase, stops>>

\* Until the second call has returned, FinishPool is not deferred.
Open(p) ==
    /\ At(p, "open")
    /\ \/ Responds(p) /\ StartPool(p) /\ Move(p, "progress") /\ UNCHANGED result
       \/ /\ Fails(p) /\ (StartPool(p) \/ UNCHANGED runtimeVars)
          /\ Result(p, "persist") /\ Move(p, "report")
    /\ UNCHANGED <<trackerVars, phase, stops>>

FirstProgress(p) ==
    /\ At(p, "progress")
    /\ \/ Responds(p) /\ ProgressPool(p) /\ Progress(p)
          /\ Move(p, "work") /\ UNCHANGED result
       \/ Fails(p) /\ Result(p, "persist") /\ Move(p, "report")
          /\ UNCHANGED <<runtimeVars, trackerVars>>
    /\ UNCHANGED <<phase, stops>>

NextStage(p) ==
    /\ At(p, "work") /\ Responds(p)
    /\ ProgressPool(p) /\ Progress(p)
    /\ UNCHANGED serviceVars

\* The pass returns.
WorkEnds(p) ==
    /\ At(p, "work")
    /\ \/ Responds(p) /\ Result(p, "ok")
       \/ Failure /\ \E cause \in Failures : Result(p, cause)
       \/ Canceled(p) /\ Steady /\ Result(p, "canceled")
    /\ Move(p, "finish")
    /\ UNCHANGED <<runtimeVars, trackerVars, phase, stops>>

\* A slip: an error of FinishPool is logged, not returned.
FinishUnreported(p) ==
    /\ At(p, "finish")
    /\ \/ Steady /\ result[p] = "ok" /\ FinishSucceeded(p)
       \/ Steady /\ result[p] # "ok" /\ FinishFailed(p, result[p])
       \/ Failure /\ UNCHANGED runtimeVars
    /\ Move(p, "report")
    /\ UNCHANGED <<trackerVars, phase, result, stops>>

\* FinishPool has a context of its own; its error joins that of the pass.
Finish(p) ==
    /\ At(p, "finish")
    /\ \/ /\ Steady /\ UNCHANGED result
          /\ \/ result[p] = "ok" /\ FinishSucceeded(p)
             \/ result[p] # "ok" /\ FinishFailed(p, result[p])
       \/ /\ Failure /\ UNCHANGED runtimeVars
          /\ Result(p, IF result[p] = "ok" THEN "persist" ELSE result[p])
    /\ Move(p, "report")
    /\ UNCHANGED <<trackerVars, phase, stops>>

\* A slip: a pass that fails ends its worker.
ReportAndGiveUp(p) ==
    /\ At(p, "report")
    /\ PoolEnds(p, result[p] # "ok")
    /\ Move(p, IF result[p] = "ok" THEN "sleep" ELSE "off") /\ Result(p, "ok")
    /\ UNCHANGED <<runtimeVars, phase, failures, stops>>

\* complete: only now do the health endpoints learn of the result.
Report(p) ==
    /\ At(p, "report")
    /\ PoolEnds(p, result[p] # "ok")
    /\ Move(p, "sleep") /\ Result(p, "ok")
    /\ UNCHANGED <<runtimeVars, phase, failures, stops>>

\* A slip: a worker between two passes does not look at its context.
WakeUnaware(p) ==
    /\ At(p, "sleep") /\ phase = "up"
    /\ Move(p, "begin")
    /\ UNCHANGED <<runtimeVars, trackerVars, phase, result, failures, stops>>

Wake(p) ==
    /\ At(p, "sleep")
    /\ Move(p, IF phase = "up" THEN "begin" ELSE "off")
    /\ UNCHANGED <<runtimeVars, trackerVars, phase, result, failures, stops>>

\* A pass that misses its deadline counts as a failure, a stage does not.
Clock(p) ==
    /\ \/ (StageDeadline(p) \/ NextPassOverdue(p)) /\ Steady
       \/ PassDeadline(p) /\ Failure
    /\ UNCHANGED <<runtimeVars, phase, pass, result, stops>>

-----------------------------------------------------------------------------

Worker(p) ==
    /\ \/ Begin(p) \/ Open(p) \/ FirstProgress(p) \/ WorkEnds(p)
       \/ Finish(p) \/ Report(p) \/ Wake(p)
    /\ UNCHANGED databaseVars

Startup == Boot \/ CreateSchema \/ Serve \/ \E p \in Pools : InterruptPool(p)

ServiceNext ==
    \/ Startup \/ Stop \/ Exit \/ Crash
    \/ \E p \in Pools :
           \/ Worker(p)
           \/ (NextStage(p) \/ Clock(p)) /\ UNCHANGED databaseVars

ServiceSpec == ServiceInit /\ [][ServiceNext]_svars

\* systemd restarts a process that failed, not one that was stopped; startup
\* and shutdown go on; workers run, since every call of a pass has a deadline.
ServiceFairness ==
    /\ WF_svars(phase \in {"down", "creating", "starting"} /\ Startup)
    /\ WF_svars(Exit)
    /\ \A p \in Pools : WF_svars(Worker(p))

FairServiceSpec == ServiceSpec /\ ServiceFairness
=============================================================================
