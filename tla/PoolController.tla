--------------------------- MODULE PoolController ---------------------------
(***************************************************************************)
(* internal/controller: the reconciliation of one pool.  A worker runs one *)
(* pass at a time (pc); a pass collects what no row accounts for, visits   *)
(* every live row, scales down, and starts what is missing in one          *)
(* goroutine per instance.  Every other action is the outside: runners and *)
(* machines change, jobs queue, time passes, the process crashes.          *)
(*                                                                         *)
(* One step is one call that can be seen from outside, a store transaction *)
(* or a request to Forgejo or Incus, with the decision that led to it.     *)
(* step[i] is what the goroutine or pass working on instance i does next:  *)
(*   insert, register, record, request, verify, boot, await   provision    *)
(*   undoBegin, undoRunner, undoVM, undoEnd                    fail        *)
(*   runner, machine, postpone, finish                         cleanup     *)
(*   ok, err                                                   returned    *)
(* A failing call consumes the fault budget, except those the code must    *)
(* expect: startup_timeout elapsing and a canceled context.                *)
(***************************************************************************)
EXTENDS InstanceStore, World, Circuit, Integers, FiniteSets

CONSTANTS
    MinIdle, MaxInstances, MaxProvisioning, AttemptLimit,  \* pool.scaling
    MaxFaults,      \* bound on failing calls and lost machines
    MaxCrashes      \* bound on crashes of the process

\* Pool.validate refuses any other configuration.
ASSUME ScalingAssumption ==
    /\ MaxInstances \in Nat \ {0}
    /\ MinIdle \in 0 .. MaxInstances
    /\ MaxProvisioning \in Nat \ {0}
    /\ AttemptLimit \in Nat \ {0}

ASSUME BoundsAssumption ==
    /\ MaxJobs \in Nat
    /\ MaxFaults \in Nat
    /\ MaxCrashes \in Nat
    /\ IsFiniteSet(Ids)

VARIABLES
    attempts, pause,            \* bootstrap_attempts, bootstrap_retry_at
    pc,                         \* where the worker is in its pass
    snap,                       \* the rows the pass has listed
    todo, missing,              \* what the current loop has still to handle
    waiting, excess,            \* jobs this pass saw, rows still to scale down
    step, undo, dirty,          \* per instance: next call, what is left to
                                \* delete, whether fail() met an error
    won, lost,                  \* a start succeeded, a start failed
    faults, crashes             \* what is left of the budgets

circuitVars == <<attempts, pause>>
passVars == <<pc, snap, todo, missing, waiting, excess>>
workVars == <<step, undo, dirty>>
resultVars == <<won, lost>>
vars == <<rowVars, worldVars, circuitVars, passVars, workVars, resultVars,
          faults, crashes>>

ProvisionSteps == {"insert", "register", "record", "request", "verify",
                   "boot", "await"}
UndoSteps == {"undoBegin", "undoRunner", "undoVM", "undoEnd"}
CleanupSteps == {"runner", "machine", "postpone", "finish"}
Steps == ProvisionSteps \union UndoSteps \union CleanupSteps
             \union {"none", "ok", "err"}

PassSteps == {"idle", "managed", "orphanVMs", "missing", "orphanRunners",
              "instances", "scaleDown", "provision"}

NoRows == [i \in Ids |-> Unlisted]

Init ==
    /\ StoreInit
    /\ WorldInit
    /\ attempts = 0 /\ pause = "none"
    /\ pc = "idle" /\ snap = NoRows /\ todo = {} /\ missing = {}
    /\ waiting = 0 /\ excess = 0
    /\ step = [i \in Ids |-> "none"]
    /\ undo = [i \in Ids |-> {}]
    /\ dirty = [i \in Ids |-> FALSE]
    /\ won = FALSE /\ lost = FALSE
    /\ faults = MaxFaults /\ crashes = MaxCrashes

-----------------------------------------------------------------------------
(* How a call can go.                                                      *)

Works == UNCHANGED faults

Fault == faults > 0 /\ faults' = faults - 1

\* The first start to fail cancels the context its siblings work under.
Cancelled == pc = "provision" /\ lost

Answers == ~Cancelled /\ Works

\* A call that fails may still have had its effect: the answer is lost, the
\* work goes on elsewhere.
CallFails == IF Cancelled THEN Works ELSE Fault

\* The store refuses what the row's state does not allow.
WriteFails(accepted) == IF accepted THEN CallFails ELSE Works

Quiet == \A i \in Ids : step[i] = "none"

Goto(i, s) == step' = [step EXCEPT ![i] = s]

\* The call for instance i returns to the pass or to provisionMany.
Returns(i, s) ==
    /\ Goto(i, s)
    /\ undo' = [undo EXCEPT ![i] = {}]
    /\ dirty' = [dirty EXCEPT ![i] = FALSE]

EndPass ==
    /\ pc' = "idle" /\ snap' = NoRows /\ todo' = {} /\ missing' = {}
    /\ waiting' = 0 /\ excess' = 0

-----------------------------------------------------------------------------
(* cleanup: retire a row, its runner and its machine.                      *)

\* The call begins.  Only a runner the caller knows of is deleted.
StartCleanup(i, why, known) ==
    /\ Answers
    /\ BeginCleanup(i, why)
    /\ Goto(i, "runner")
    /\ undo' = [undo EXCEPT ![i] = IF known THEN {"runner", "vm"} ELSE {"vm"}]
    /\ UNCHANGED dirty

CleanRunner(i) ==
    /\ step[i] = "runner"
    /\ \/ /\ "runner" \notin undo[i]
          /\ Works /\ Goto(i, "machine") /\ UNCHANGED runner
       \/ /\ "runner" \in undo[i]
          /\ Answers /\ DeleteRunner(i) /\ Goto(i, "machine")
       \/ /\ "runner" \in undo[i]
          /\ CallFails /\ (DeleteRunner(i) \/ UNCHANGED runner)
          /\ Goto(i, "postpone")
    /\ UNCHANGED <<rowVars, vm, jobs, circuitVars, passVars, undo, dirty,
                   resultVars, crashes>>

CleanMachine(i) ==
    /\ step[i] = "machine"
    /\ \/ /\ AcceptsStage(i) /\ Answers
          /\ DeleteVM(i) /\ Goto(i, "finish") /\ UNCHANGED <<undo, dirty>>
       \/ /\ AcceptsStage(i) /\ CallFails
          /\ DeleteVMFails(i)
          /\ Goto(i, "postpone") /\ UNCHANGED <<undo, dirty>>
       \/ /\ WriteFails(AcceptsStage(i))            \* setInstanceStage
          /\ Returns(i, "err") /\ UNCHANGED <<vm, runner>>
    /\ UNCHANGED <<rowVars, jobs, circuitVars, passVars, resultVars, crashes>>

\* A slip: a deletion that failed is not tried again.
CleanPostponeForgets(i) ==
    /\ step[i] = "postpone"
    /\ Answers /\ FinishCleanup(i)
    /\ Returns(i, "err")
    /\ UNCHANGED <<worldVars, circuitVars, passVars, resultVars, crashes>>

\* retryDelete: the row stays in cleaning, with a time to try again.
CleanPostpone(i) ==
    /\ step[i] = "postpone"
    /\ \/ Answers /\ Retry(i)
       \/ CallFails /\ UNCHANGED rowVars
    /\ Returns(i, "err")
    /\ UNCHANGED <<worldVars, circuitVars, passVars, resultVars, crashes>>

CleanFinish(i) ==
    /\ step[i] = "finish"
    /\ \/ Answers /\ FinishCleanup(i) /\ Returns(i, "ok")
       \/ /\ WriteFails(AcceptsState(i, "finished"))
          /\ Returns(i, "err") /\ UNCHANGED rowVars
    /\ UNCHANGED <<worldVars, circuitVars, passVars, resultVars, crashes>>

-----------------------------------------------------------------------------
(* provision: one goroutine starts one instance.                           *)

\* store.Create; an error here leaves nothing behind.
ProvisionInsert(i) ==
    /\ step[i] = "insert"
    /\ \/ Answers /\ Create(i) /\ Goto(i, "register") /\ UNCHANGED <<undo, dirty>>
       \/ CallFails /\ UNCHANGED rowVars /\ Returns(i, "err")
    /\ UNCHANGED <<worldVars, circuitVars, passVars, resultVars, crashes>>

\* fail(): the start failed; known is what it has to take back.
Fail(i, known) ==
    /\ Goto(i, "undoBegin")
    /\ undo' = [undo EXCEPT ![i] = known]
    /\ UNCHANGED dirty

\* A slip: the waits have no deadline, only cancellation ends them.
GivesUpWhenCancelled(i, known) == Cancelled /\ Works /\ Fail(i, known)

\* A wait ends without success: startup_timeout, cancellation or an error.
GivesUp(i, known) == Works /\ Fail(i, known)

\* Recording the stage may fail: then provision returns without fail().
ProvisionRegister(i) ==
    /\ step[i] = "register"
    /\ \/ Answers /\ Register(i) /\ Goto(i, "record") /\ UNCHANGED <<undo, dirty>>
       \/ CallFails /\ (Register(i) \/ UNCHANGED runner) /\ Fail(i, {})
       \/ /\ WriteFails(AcceptsStage(i))
          /\ Returns(i, "err") /\ UNCHANGED runner
    /\ UNCHANGED <<rowVars, vm, jobs, circuitVars, passVars, resultVars, crashes>>

ProvisionRecord(i) ==
    /\ step[i] = "record"
    /\ \/ Answers /\ SetRegistration(i) /\ Goto(i, "request") /\ UNCHANGED <<undo, dirty>>
       \/ CallFails /\ UNCHANGED rowVars /\ Fail(i, {"runner"})
    /\ UNCHANGED <<worldVars, circuitVars, passVars, resultVars, crashes>>

\* The first half of Create: Incus accepts the operation.
ProvisionRequest(i) ==
    /\ step[i] = "request"
    /\ \/ /\ AcceptsStage(i) /\ Answers
          /\ RequestVM(i) /\ Goto(i, "verify") /\ UNCHANGED <<undo, dirty>>
       \/ /\ WriteFails(AcceptsStage(i))
          /\ (RequestVM(i) \/ UNCHANGED vm) /\ Fail(i, {"runner"})
    /\ UNCHANGED <<rowVars, runner, jobs, circuitVars, passVars, resultVars, crashes>>

\* The second half waits and looks; whatever goes wrong, deleteInstance is
\* still false, so fail() leaves the machine to collectOrphans.
ProvisionVerify(i) ==
    /\ step[i] = "verify"
    /\ \/ Answers /\ Machine(i) /\ Goto(i, "boot") /\ UNCHANGED <<undo, dirty>>
       \/ GivesUp(i, {"runner"})
    /\ UNCHANGED <<rowVars, worldVars, circuitVars, passVars, resultVars, crashes>>

\* waitInstance and PushRunnerConfig.
ProvisionBoot(i) ==
    /\ step[i] = "boot"
    /\ \/ /\ Answers /\ AcceptsStage(i) /\ Machine(i)
          /\ PushConfig(i) /\ Goto(i, "await") /\ UNCHANGED <<undo, dirty>>
       \/ /\ GivesUp(i, {"runner", "vm"})
          /\ ((Machine(i) /\ PushConfig(i)) \/ UNCHANGED vm)
    /\ UNCHANGED <<rowVars, runner, jobs, circuitVars, passVars, resultVars, crashes>>

\* waitRunner polls until the runner is online, and markState records it.
\* A runner already gone has done its job.  A start may see its runner at work
\* and still fail, when that cannot be recorded.
ProvisionAwait(i) ==
    /\ step[i] = "await"
    /\ \/ /\ Answers /\ Status(i) = "idle"
          /\ SetOperationalState(i, "ready") /\ Returns(i, "ok")
          /\ UNCHANGED runner
       \/ /\ Answers /\ SeeAtWork(i)
          /\ SetOperationalState(i, "running") /\ Returns(i, "ok")
       \/ /\ Status(i) = "not_found"
          /\ StartCleanup(i, "job_completed", TRUE) /\ UNCHANGED runner
       \/ /\ Status(i) = "not_found"
          /\ WriteFails(AcceptsState(i, "cleaning"))
          /\ Returns(i, "err") /\ UNCHANGED <<rowVars, runner>>
       \/ /\ GivesUp(i, {"runner", "vm"})
          /\ SeeAtWork(i) \/ UNCHANGED runner
          /\ UNCHANGED rowVars
    /\ UNCHANGED <<vm, jobs, circuitVars, passVars, resultVars, crashes>>

-----------------------------------------------------------------------------
(* fail: take back a start, under a context of its own.                    *)

\* An error here does not stop the rest: the row may stay in bootstrapping.
UndoBegin(i) ==
    /\ step[i] = "undoBegin"
    /\ \/ Works /\ BeginCleanup(i, "bootstrap_failed") /\ UNCHANGED dirty
       \/ /\ IF AcceptsState(i, "cleaning") THEN Fault ELSE Works
          /\ dirty' = [dirty EXCEPT ![i] = TRUE] /\ UNCHANGED rowVars
    /\ Goto(i, "undoRunner")
    /\ UNCHANGED <<worldVars, circuitVars, passVars, undo, resultVars, crashes>>

UndoRunner(i) ==
    /\ step[i] = "undoRunner"
    /\ \/ "runner" \notin undo[i] /\ Works /\ UNCHANGED <<runner, dirty>>
       \/ "runner" \in undo[i] /\ Works /\ DeleteRunner(i) /\ UNCHANGED dirty
       \/ /\ "runner" \in undo[i] /\ Fault
          /\ (DeleteRunner(i) \/ UNCHANGED runner)
          /\ dirty' = [dirty EXCEPT ![i] = TRUE]
    /\ Goto(i, "undoVM")
    /\ UNCHANGED <<rowVars, vm, jobs, circuitVars, passVars, undo, resultVars, crashes>>

UndoVM(i) ==
    /\ step[i] = "undoVM"
    /\ \/ "vm" \notin undo[i] /\ Works /\ UNCHANGED <<vm, runner, dirty>>
       \/ "vm" \in undo[i] /\ Works /\ DeleteVM(i) /\ UNCHANGED dirty
       \/ /\ "vm" \in undo[i] /\ Fault
          /\ DeleteVMFails(i)
          /\ dirty' = [dirty EXCEPT ![i] = TRUE]
    /\ Goto(i, "undoEnd")
    /\ UNCHANGED <<rowVars, jobs, circuitVars, passVars, undo, resultVars, crashes>>

\* Finished when nothing went wrong, otherwise a time to retry; the start
\* has failed either way.
UndoEnd(i) ==
    /\ step[i] = "undoEnd"
    /\ \/ ~dirty[i] /\ Works /\ FinishCleanup(i)
       \/ dirty[i] /\ Works /\ Retry(i)
       \/ /\ IF dirty[i] \/ AcceptsState(i, "finished") THEN Fault ELSE Works
          /\ UNCHANGED rowVars
    /\ Returns(i, "err")
    /\ UNCHANGED <<worldVars, circuitVars, passVars, resultVars, crashes>>

-----------------------------------------------------------------------------
(* The pass: orphans.                                                      *)

\* StartPool, setProgress and the first ListPool.
StartPass ==
    /\ pc = "idle"
    /\ pc' = "managed" /\ snap' = Listing
    /\ UNCHANGED <<rowVars, worldVars, circuitVars, todo, missing, waiting,
                   excess, workVars, resultVars, faults, crashes>>

\* The rows the pass has in memory.
Listed == {i \in Ids : snap[i].state # Absent}

\* A slip: only rows in service are taken for known.
OrphanVMsOfIdleRows ==
    {i \in Ids : Machine(i) /\ snap[i].state \notin {"ready", "running"}}

\* A slip: finished rows are taken for known too.
OrphanVMsWithoutRow == {i \in Ids : Machine(i) /\ state[i] = Absent}

\* Machines no listed row accounts for.
OrphanVMs == {i \in Ids : Machine(i)} \ Listed

\* Managed: the machines Incus has, and the rows without a machine.
ListManaged ==
    /\ pc = "managed"
    /\ todo' = OrphanVMs
    /\ missing' = {i \in Listed :
                       /\ snap[i].state \in {"ready", "running"}
                       /\ ~Machine(i)}
    /\ pc' = "orphanVMs"
    /\ UNCHANGED <<rowVars, worldVars, circuitVars, snap, waiting, excess,
                   workVars, resultVars, faults, crashes>>

DeleteOrphanVM(i) ==
    /\ pc = "orphanVMs" /\ i \in todo
    /\ \/ /\ Works /\ DeleteVM(i)
          /\ todo' = todo \ {i}
          /\ UNCHANGED <<pc, snap, missing, waiting, excess>>
       \/ /\ Fault /\ EndPass
          /\ DeleteVMFails(i)
    /\ UNCHANGED <<rowVars, jobs, circuitVars, workVars, resultVars, crashes>>

OrphanVMsDone ==
    /\ pc = "orphanVMs" /\ todo = {}
    /\ pc' = "missing" /\ todo' = missing /\ missing' = {}
    /\ UNCHANGED <<rowVars, worldVars, circuitVars, snap, waiting, excess,
                   workVars, resultVars, faults, crashes>>

\* The pass retires a row it listed, or stops at the refusal.
PassCleanup(i, why) ==
    /\ \/ StartCleanup(i, why, snap[i].registered) /\ UNCHANGED passVars
       \/ /\ WriteFails(AcceptsState(i, "cleaning"))
          /\ EndPass /\ UNCHANGED <<rowVars, workVars>>
    /\ UNCHANGED <<worldVars, circuitVars, resultVars, crashes>>

RetireMissing(i) ==
    /\ pc = "missing" /\ Quiet /\ i \in todo
    /\ PassCleanup(i, "instance_missing")

\* Registrations of this pool that no listed row has recorded.
OrphanRunners ==
    {i \in Ids : Registered(i)} \ {i \in Listed : snap[i].registered}

\* Runners are read page by page; one that slides to a page already read,
\* because another before it went away, is missed.
ListRunners ==
    /\ pc = "missing" /\ Quiet /\ todo = {}
    /\ \/ Works /\ todo' = OrphanRunners
       \/ Fault /\ todo' \in (SUBSET OrphanRunners) \ {OrphanRunners}
    /\ pc' = "orphanRunners"
    /\ UNCHANGED <<rowVars, worldVars, circuitVars, snap, missing, waiting,
                   excess, workVars, resultVars, crashes>>

DeleteOrphanRunner(i) ==
    /\ pc = "orphanRunners" /\ i \in todo
    /\ \/ /\ Works /\ DeleteRunner(i)
          /\ todo' = todo \ {i}
          /\ UNCHANGED <<pc, snap, missing, waiting, excess>>
       \/ Fault /\ EndPass /\ (DeleteRunner(i) \/ UNCHANGED runner)
    /\ UNCHANGED <<rowVars, vm, jobs, circuitVars, workVars, resultVars, crashes>>

-----------------------------------------------------------------------------
(* The pass: the rows.                                                     *)

\* A slip: the rows are visited as the first listing had them.
ListInstancesStale ==
    /\ pc = "orphanRunners" /\ todo = {}
    /\ todo' = Listed
    /\ pc' = "instances"
    /\ UNCHANGED <<rowVars, worldVars, circuitVars, snap, missing, waiting,
                   excess, workVars, resultVars, faults, crashes>>

\* The second ListPool, after the orphans.
ListInstances ==
    /\ pc = "orphanRunners" /\ todo = {}
    /\ snap' = Listing /\ todo' = Live
    /\ pc' = "instances"
    /\ UNCHANGED <<rowVars, worldVars, circuitVars, missing, waiting, excess,
                   workVars, resultVars, faults, crashes>>

\* The loop is done with instance i.
Done(i) ==
    /\ todo' = todo \ {i}
    /\ UNCHANGED <<pc, snap, missing, waiting, excess>>

Retiring(i) == snap[i].state = "running" /\ aged[i]

\* observe is called for every row that has a runner and no cleanup.
Observed(i) ==
    /\ ~Retiring(i)
    /\ \/ snap[i].state \in {"ready", "running"}
       \/ snap[i].state = "bootstrapping" /\ snap[i].registered

\* A slip: every start found after a crash is given up.
AbandonedStart(i) == snap[i].state = "bootstrapping"

\* A slip: recovery is left out.
AbandonedNever(i) == FALSE

\* A start cut short before its runner was recorded.
Abandoned(i) == snap[i].state = "bootstrapping" /\ ~snap[i].registered

\* A slip: an idle runner has always done its job.
JobDoneWhenIdle(i) == Status(i) \in {"not_found", "idle"}

\* The runner is gone, or is idle again after its job.
JobDone(i) ==
    \/ Status(i) = "not_found"
    \/ Status(i) = "idle" /\ snap[i].state = "running"

\* Why the pass retires row i, if it does.
RetireReason(i) ==
    CASE Retiring(i) -> "max_lifetime"
      [] snap[i].state = "cleaning" -> reason[i]
      [] Abandoned(i) -> "controller_recovery"
      [] Observed(i) /\ JobDone(i) -> "job_completed"
      [] Observed(i) /\ Status(i) = "offline" -> "runner_offline"
      [] OTHER -> NoReason

\* A slip: the retry time is not compared with the clock.
PostponedForGood(i) == snap[i].state = "cleaning" /\ retry[i] # "none"

Postponed(i) == snap[i].state = "cleaning" /\ retry[i] = "ahead"

VisitPostponed(i) ==
    /\ pc = "instances" /\ Quiet /\ i \in todo
    /\ Postponed(i)
    /\ Done(i)
    /\ UNCHANGED <<rowVars, worldVars, circuitVars, workVars, resultVars,
                   faults, crashes>>

VisitRetire(i) ==
    /\ pc = "instances" /\ Quiet /\ i \in todo
    /\ ~Postponed(i)
    /\ RetireReason(i) # NoReason
    /\ PassCleanup(i, RetireReason(i))

\* observeState: the runner is online, the row says so.
VisitObserve(i) ==
    /\ pc = "instances" /\ Quiet /\ i \in todo
    /\ Observed(i) /\ RetireReason(i) = NoReason
    /\ LET s == IF Status(i) = "idle" THEN "ready" ELSE "running"
       IN  \/ Works /\ SetOperationalState(i, s) /\ Done(i)
           \/ WriteFails(AcceptsState(i, s)) /\ EndPass /\ UNCHANGED rowVars
    /\ IF AtWork(i) THEN SeeAtWork(i) ELSE UNCHANGED runner
    /\ UNCHANGED <<vm, jobs, circuitVars, workVars, resultVars, crashes>>

\* Jobs, ObservePool and the listing that scaleDown and Needed work on.
FetchJobs ==
    /\ pc = "instances" /\ Quiet /\ todo = {}
    /\ waiting' = jobs
    /\ snap' = Listing
    /\ todo' = InState("ready")
    /\ excess' = Cardinality(InState("ready")) - (MinIdle + jobs)
    /\ pc' = "scaleDown"
    /\ UNCHANGED <<rowVars, worldVars, circuitVars, missing, workVars,
                   resultVars, faults, crashes>>

ScaleDownSkip(i) ==
    /\ pc = "scaleDown" /\ Quiet /\ i \in todo /\ excess > 0
    /\ ~aged[i]
    /\ Done(i)
    /\ UNCHANGED <<rowVars, worldVars, circuitVars, workVars, resultVars,
                   faults, crashes>>

ScaleDown(i) ==
    /\ pc = "scaleDown" /\ Quiet /\ i \in todo /\ excess > 0
    /\ aged[i]
    /\ PassCleanup(i, "idle_timeout")

\* cleanup has returned to the loop that called it: go on, or stop the pass.
CleanupReturns(i) ==
    /\ pc # "provision"
    /\ \/ /\ step[i] = "ok"
          /\ todo' = todo \ {i}
          /\ excess' = IF pc = "scaleDown" THEN excess - 1 ELSE excess
          /\ UNCHANGED <<pc, snap, missing, waiting>>
       \/ step[i] = "err" /\ EndPass
    /\ Goto(i, "none")
    /\ UNCHANGED <<rowVars, worldVars, circuitVars, undo, dirty, resultVars,
                   faults, crashes>>

\* Any other call of the pass: a listing, a progress write, the reservation.
PassCallFails ==
    /\ pc \notin {"idle", "provision"} /\ Quiet
    /\ Fault /\ EndPass
    /\ UNCHANGED <<rowVars, worldVars, circuitVars, workVars, resultVars, crashes>>

-----------------------------------------------------------------------------
(* The pass: provisioning.                                                 *)

\* A slip: rows being cleaned up do not count towards max_instances.
NeededWithoutCleaning ==
    NeededFor(Demand(waiting, MinIdle, MaxInstances, MaxProvisioning,
                     Cardinality(InState("ready")),
                     Cardinality(InState("bootstrapping")),
                     Cardinality(Live \ InState("cleaning"))))

Needed ==
    NeededFor(Demand(waiting, MinIdle, MaxInstances, MaxProvisioning,
                     Cardinality(InState("ready")),
                     Cardinality(InState("bootstrapping")),
                     Cardinality(Live)))

ScaledDown == pc = "scaleDown" /\ Quiet /\ (todo = {} \/ excess <= 0)

NothingNeeded ==
    /\ ScaledDown /\ Needed = 0
    /\ EndPass
    /\ UNCHANGED <<rowVars, worldVars, circuitVars, workVars, resultVars,
                   faults, crashes>>

Fresh == {i \in Ids : state[i] = Absent}

\* ReserveBootstrap, then one goroutine per reserved start.  When the model
\* runs out of fresh IDs the rest fail at newID.
StartProvisioning ==
    /\ ScaledDown /\ Needed > 0
    /\ LET grant == Reserve(attempts, pause, Needed, AttemptLimit)
           spawned == Least(grant.count, Cardinality(Fresh))
       IN  /\ attempts' = grant.attempts
           /\ pause' = grant.pause
           /\ \/ /\ grant.count = 0 /\ EndPass /\ UNCHANGED <<step, lost>>
              \/ /\ grant.count > 0
                 /\ \E starts \in SUBSET Fresh :
                        /\ Cardinality(starts) = spawned
                        /\ step' = [i \in Ids |-> IF i \in starts THEN "insert"
                                                  ELSE step[i]]
                 /\ lost' = (spawned < grant.count)
                 /\ pc' = "provision" /\ snap' = NoRows /\ todo' = {}
                 /\ waiting' = 0 /\ excess' = 0 /\ UNCHANGED missing
    /\ UNCHANGED <<rowVars, worldVars, undo, dirty, won, faults, crashes>>

\* provisionMany receives one result; an error cancels the siblings.
Collect(i) ==
    /\ pc = "provision" /\ step[i] \in {"ok", "err"}
    /\ Goto(i, "none")
    /\ won' = (won \/ step[i] = "ok")
    /\ lost' = (lost \/ step[i] = "err")
    /\ UNCHANGED <<rowVars, worldVars, circuitVars, passVars, undo, dirty,
                   faults, crashes>>

\* One success resets the circuit, whatever the siblings did; failure at the
\* limit starts the delay; below the limit the attempts stay consumed.
Settle ==
    /\ pc = "provision" /\ Quiet
    /\ \/ won /\ Works /\ attempts' = 0 /\ pause' = "none"
       \/ ~won /\ attempts >= AttemptLimit /\ Works
             /\ pause' = "ahead" /\ UNCHANGED attempts
       \/ ~won /\ attempts < AttemptLimit /\ Works /\ UNCHANGED circuitVars
       \/ (won \/ attempts >= AttemptLimit) /\ Fault /\ UNCHANGED circuitVars
    /\ EndPass
    /\ won' = FALSE /\ lost' = FALSE
    /\ UNCHANGED <<rowVars, worldVars, workVars, crashes>>

-----------------------------------------------------------------------------
(* The outside.                                                            *)

\* Only the database, Forgejo and Incus survive a crash.
Crash ==
    /\ crashes > 0 /\ pc # "idle"
    /\ crashes' = crashes - 1
    /\ EndPass
    /\ step' = [i \in Ids |-> "none"]
    /\ undo' = [i \in Ids |-> {}]
    /\ dirty' = [i \in Ids |-> FALSE]
    /\ won' = FALSE /\ lost' = FALSE
    /\ UNCHANGED <<rowVars, worldVars, circuitVars, faults>>

PauseEnds ==
    /\ pause = "ahead" /\ pause' = "due"
    /\ UNCHANGED <<rowVars, worldVars, attempts, passVars, workVars,
                   resultVars, faults, crashes>>

Clock(i) ==
    /\ RetryDue(i) \/ Age(i)
    /\ UNCHANGED <<worldVars, circuitVars, passVars, workVars, resultVars,
                   faults, crashes>>

Outside(i) ==
    /\ \/ VMAppears(i) \/ RunnerConnects(i) \/ JobStarts(i)
       \/ JobEnds(i) \/ RunnerExpires(i)
    /\ UNCHANGED <<rowVars, circuitVars, passVars, workVars, resultVars,
                   faults, crashes>>

Damage(i) ==
    /\ CreationFails(i) \/ VMLost(i) \/ RunnerDrops(i)
    /\ Fault
    /\ UNCHANGED <<rowVars, circuitVars, passVars, workVars, resultVars, crashes>>

Queue ==
    /\ JobQueued
    /\ UNCHANGED <<rowVars, circuitVars, passVars, workVars, resultVars,
                   faults, crashes>>

-----------------------------------------------------------------------------

\* The goroutine, or the pass, takes its next step on instance i.
Work(i) ==
    \/ CleanRunner(i) \/ CleanMachine(i) \/ CleanPostpone(i) \/ CleanFinish(i)
    \/ ProvisionInsert(i) \/ ProvisionRegister(i) \/ ProvisionRecord(i)
    \/ ProvisionRequest(i) \/ ProvisionVerify(i) \/ ProvisionBoot(i)
    \/ ProvisionAwait(i)
    \/ UndoBegin(i) \/ UndoRunner(i) \/ UndoVM(i) \/ UndoEnd(i)

\* The loops of the pass.
Visit(i) ==
    \/ DeleteOrphanVM(i) \/ RetireMissing(i) \/ DeleteOrphanRunner(i)
    \/ VisitPostponed(i) \/ VisitRetire(i) \/ VisitObserve(i)
    \/ ScaleDownSkip(i) \/ ScaleDown(i)
    \/ CleanupReturns(i) \/ Collect(i)

Pass ==
    \/ StartPass \/ ListManaged \/ OrphanVMsDone \/ ListRunners
    \/ ListInstances \/ FetchJobs \/ NothingNeeded \/ StartProvisioning
    \/ Settle \/ PassCallFails
    \/ \E i \in Ids : Visit(i)

Next ==
    \/ Pass
    \/ \E i \in Ids : Work(i) \/ Clock(i) \/ Outside(i) \/ Damage(i)
    \/ Crash \/ PauseEnds \/ Queue

Spec == Init /\ [][Next]_vars

\* runPool calls ReconcilePool again and again, a pass goes on to its end, and
\* goroutines run; every call ends in an answer or a timeout; time passes.
\* Runners, jobs, creations in Incus, faults and crashes owe nothing; faults
\* and crashes are finite.
Fairness ==
    /\ WF_vars(Pass)
    /\ \A i \in Ids : /\ WF_vars(Work(i))
                      /\ WF_vars(Clock(i))

FairSpec == Spec /\ Fairness
=============================================================================
