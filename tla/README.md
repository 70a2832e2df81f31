# FARM in TLA+

FARM keeps pools of ephemeral Forgejo Actions runners, each in a virtual
machine of its own that it creates in Incus. It is one process with a SQLite
database, a worker per pool, and two remote services that answer late, twice
or never. These modules model what it promises about rows, runners, machines,
limits and its own health reports, model-check it with TLC and prove its safety
with TLAPS.

## The system

| Part | Source | State | Operations |
| --- | --- | --- | --- |
| Reconciliation pass | `controller/controller.go`, `orchestration.go` | the rows it has listed, the results of its goroutines | `ReconcilePool`: collect orphans, visit every row, scale down, provision |
| Provisioning | `controller/bootstrap.go` | one goroutine per instance | `provision`, `waitRunner`, `fail` |
| Cleanup | `controller/cleanup.go` | none | `cleanup`, `retryDelete` |
| Observation | `controller/observation.go` | none | `observe`, `collectOrphans` |
| Instance store | `store/instance.go`, `instance/lifecycle.go` | table `instances` and its events | `Create`, `SetRegistration`, `MarkReady`, `MarkRunning`, `BeginCleanup`, `FinishCleanup`, `Retry` |
| Bootstrap circuit | `store/pool.go`, `controller.go` | `bootstrap_attempts`, `bootstrap_retry_at` | `ReserveBootstrap`, `HoldBootstrap`, `ResetBootstrap` |
| Capacity | `scheduler/capacity.go` | none | `Needed` |
| Forgejo client | `forgejo/client.go` | runners and jobs, in Forgejo | `Register`, `Runner`, `Runners`, `Jobs`, `DeleteRunner` |
| Incus service | `incus/instance.go` | machines and operations, in Incus | `Create`, `Managed`, `PushRunnerConfig`, waits, `Delete` |
| Pool runtime | `store/pool.go` | `pool_runtime`, `pool_incidents` | `StartPool`, `ProgressPool`, `FinishPool`, `InterruptPools` |
| Health tracker | `reconcile/tracker.go` | in memory, per pool | `PoolStart`, `Progress`, `PoolSuccess`, `PoolFailure`, `condition` |
| Process | `app/app.go` | contexts, workers | start, `runPool`, shutdown |
| HTTP API | `server/*.go` | none | paged views of the database and the tracker |
| Configuration | `config/config.go`, `orchestration.go` | none | defaults, `Validate`; `matches`, which job is a pool's |
| Schema | `store/schema.go` | `user_version`, the tables | `initialize`, `migrateV1` |

A worker calls `ReconcilePool` again and again; pools share the process and the
database file but no row. Within a pass everything is sequential except
provisioning: one goroutine per new instance, with a context that the first
failure cancels. The controller talks to Forgejo and Incus by requests that may
have their effect and still fail, writes each outcome to the store in a
transaction that refuses transitions the row's state does not allow, and
reports through the pool runtime (to the database) and the tracker (in memory).

What is hard: a crash between any two calls, with the database, Forgejo and
Incus surviving and nothing else; a creation that goes on after its caller has
given up; listings that are minutes old when they are acted upon; concurrent
starts that fail in the middle of one another; `fail()`, which goes on after its
own errors; results recorded in two places, one after the other.

What makes each part correct:

- *Rows, runners, machines*: a finished row leaves nothing behind that nobody
  will collect; orphan collection never takes what a row owns; no write is
  refused; a running job is ended only for the reasons the code admits.
- *Limits*: `max_instances` rows, `max_provisioning` starts, and the attempts
  the circuit grants, one probe at a time.
- *Progress*: passes end, starts settle, cleanups finish, leftovers go.
- *Record*: at most one open incident per pool, the one the pool points at; no
  run shown as running by a process that did not start it; health endpoints
  that do not contradict the record.
- *Time*: a pass ends by its deadline, every start has all of `startup_timeout`,
  and a slow call is not mistaken for a stalled pass.
- *Process*: a shutdown ends; nothing runs on half a schema.
- *Configuration*: a job has one pool; what belongs to a pool that is gone stays
  as it is; after a restart with other pools running jobs go on, waiting ones get
  a runner and leftovers are collected.
- *Lists of the API*: a page shows its rows, a walk over the pages misses none.

## Modules

| Module | Models |
| --- | --- |
| `Lifecycle` | states, reasons and transitions of a row |
| `InstanceStore` | the columns of `instances` and the writes it accepts |
| `Capacity`, `Circuit` | `Needed` and `ReserveBootstrap` as operators |
| `World` | runners, machines and jobs outside of FARM, and the calls on them |
| `PoolController` | the pass, its goroutines, cleanup and `fail`: composes the modules above |
| `BootstrapPolicy` | abstract: what the documentation promises about starting machines |
| `PoolProperties` | the properties of `PoolController` |
| `PoolInvariant` | the inductive invariants behind them, and what is proved of a step |
| `PoolSet` | the configured pools |
| `PoolRuntime` | `pool_runtime` and `pool_incidents` |
| `Tracker` | `reconcile.Tracker`, with times abstracted to "past its deadline" |
| `Service` | startup, workers, shutdown, crash: composes `PoolRuntime` and `Tracker` |
| `Database` | the schema version, the tables, creation and migration |
| `Backoff` | the delay of a deletion that failed |
| `Deadlines` | the clock of a pass: contexts of its calls and starts, the stage on display |
| `Configuration` | what a pool of the configuration has to be, which jobs it stands for |
| `Deployment` | one database through restarts with other pools, with jobs and runners by label and scope: composes `Configuration` and `Capacity` |
| `Paging` | the paged lists of the API over a list that changes |
| `CapacityCheck`, `Calculations` | the pure functions against reference definitions |
| `MCPoolController`, `MCService`, `MCDeployment` | instances for TLC: symmetry, configurations to deploy; the last two also the properties of `Service` and `Deployment` |
| `PoolController_proofs`, `PoolSafety_proofs`, `PoolLimits_proofs` | proofs about a pool: types; rows, runners and machines; limits and circuit |
| `Capacity_proofs`, `Service_proofs`, `Deadlines_proofs`, `Deployment_proofs`, `Paging_proofs` | proofs about the modules they are named for |

`Service` also composes `Database`: startup creates or migrates the file.
`Deadlines` and `Deployment` look at the pass again, from outside of the calls:
the one keeps only the time they take, the other takes each row in one step and
keeps what a changed name, label, scope or limit does to it.

### How state and steps correspond to the code

One step is one call visible from outside (a store transaction, a request to
Forgejo or Incus) together with the decisions that lead to it. A call that
fails is a step of its own, with and without its effect where the service may
have carried it out. `step[i]` is the next call of the goroutine, or of the
pass, that is working on instance `i`; `pc` is the loop the pass is in; `snap`
and `todo` are the slices it holds in memory. In `Service` a step is a call of
the worker, and `pass[p]` says which comes next.

What is merged or abstracted, and why that is harmless:

- Reading a runner's status and the write it leads to are one step. The status
  read may be stale in the code; the model lets the runner change directly
  after the step instead. `World` keeps of a runner at work whether the
  controller has read its status since the job began (`seen`): a job it has not
  seen may be ended by a decision made before (`ActiveRunnerKept`).
- A deletion of a machine may stop it and fail then (`StopVM`): the machine is
  `stopped`, its runner offline, its row still in cleaning.
- A loop over rows takes them in any order. The order in the code is by
  creation time in whole seconds, then whatever SQLite gives.
- The model has a finite set of IDs, each used once. When it has no fresh one a
  start fails as `newID` does.
- Cancellation by a sibling is `lost`, set when `provisionMany` has received
  the first error: from then on no call under that context succeeds. A shutdown
  in the middle of a pass is covered in `PoolController` by the failing calls
  and the crash, and in `Service` directly.
- The writes of stages and of `FinishPool` are in `Service`; in
  `PoolController` a stage is only the guard and the failure it adds to a call.
- The check in `collectOrphans` that a machine's name fits its ID is left out:
  names are derived from IDs.
- In `PoolController` jobs are a number; `Deployment` selects them by label and
  scope. A listing of runners read page by page may lack any runner that was
  there (`ListRunners`): an entry can move to a page already read.
- In `Service`, times are flags: `passLate`, `stageLate`, `overdue`. Counts of
  occurrences and messages of incidents are left out. The set of pools is the
  same after a restart; `Deployment` changes it.
- In `Deadlines` a call only takes time, no longer than its context: the HTTP
  clients and the waits for Incus end with it. The local database answers at
  once, and the starts of a pass begin at the same instant. A call that fails
  ends the pass, as in the code. The result of a pass may be lost
  (`FinishPool`): the run stays open and its stage on record. A pass may list
  more rows than `max_instances`, when the limit was lowered before it.
- `Database` leaves out the rows an earlier release may have written, and the
  indexes. A statement of a creation is a transaction of its own; the migration
  is one transaction.
- In `Deployment` a retirement includes the retries it may need, and a start
  succeeds, or fails with any of machine and runner left behind. A new instance
  takes any one ID of which nothing is left. What a worker finds at a row (no
  machine under this controller id, a lifetime passed, a runner gone, offline or
  idle after its job) retires it in the same step. Forgejo hands a job to a
  runner whose scope covers the job's repository and that has all its labels; a
  repository's job is in the lists of its organization, its user and the whole
  instance too (`Covers`). Age is counted up to `MaxAge` minutes.
- `Paging` takes rows as numbers and lets a row enter anywhere: several may
  share a second.

Definitions introduced as *a slip* are not used by the specifications. Each is a
neighbouring definition with a plausible mistake (a dropped guard, a stale
listing, a missing reset). Put in place of the right one it must violate a
property: this is how every property is shown to be able to fail.

## Runs

| Run | Configuration | Question |
| --- | --- | --- |
| `calculations` | `Calculations.cfg` | Is `Needed` the largest number of starts that are asked for and allowed? Does the retry delay double up to its cap? |
| `pool_faults` | `PoolFaults.cfg` | Do rows, runners and machines agree, through faults and a crash? |
| `pool_circuit` | `PoolCircuit.cfg` | Does the circuit implement the documented policy, with one probe at a time? |
| `pool_capacity` | `PoolCapacity.cfg` | Are the two limits on rows kept? |
| `pool_progress` | `PoolProgress.cfg` | Does everything that must happen happen? |
| `machines_beyond_limit` | `PoolMachines.cfg` | Does `max_instances` cap the machines? It does not. |
| `service_record` | `ServiceRecord.cfg` | Do incidents, runs on record and health agree, on a schema that is whole? |
| `service_progress` | `ServiceProgress.cfg` | Do shutdowns end, runs settle, incidents resolve? |
| `pass_deadlines` | `Deadlines.cfg` | Is a pass over in time, and do its starts have theirs? |
| `deployments` | `Deployments.cfg` | Do jobs, runners and leftovers survive a change of the pools? |
| `relabelled` | `Relabelled.cfg` | Does every waiting job get a runner? Not after a change of labels. |
| `paging` | `Paging.cfg` | Does a page show its rows, a walk all of them? |

### What they show

`pool_faults` has two instances, a job, two faults and a crash, about two and a
half million states: enough for one start to fail in any of its calls while the
other is in any of its own, for a crash on top of it, and for the next passes to
recover. `pool_circuit` has a third instance so that a probe can follow a
limiting batch of two; `pool_capacity` a third so that a limit of two can be
passed, with one start at a time. Faults include lost machines, dropped runners
and creations that fail. What needs a fourth instance or a third fault would be
a third actor in one conflict; the code has no such case, rows of a pool meet
only in pairs (a failing start and its sibling) or in counts.

`service_record` has two pools, two kinds of failure and three failures: an
incident can open, repeat and change, and its result be lost. With one crash or
shutdown anywhere, a run is interrupted and interrupted again at startup.
`service_progress` has one failure, because cycles are expensive to look for.
Both start from every kind of database file. A creation that is cut short
leaves a file that every later process refuses (`Refused`); `RefusedIsUnused`
says that nothing is lost by recreating it. A file of a release that stamped no
version (it has `pool_status`) is refused too, and may have been in use.

`pass_deadlines` gives each call any time its context allows, in a pass over up
to three rows of a pool of two, with two starts. `poolOperationTimeout` is
enough for `startup_timeout` to be left for the starts however slow the calls
before them are (`StartsUncut`), unless the pass meets what it did not budget
for (`Planned`): an orphan to delete, a second page of runners, a list of
machines slower than a request, or more rows than `max_instances`. The last
happens after a restart with a lower limit: `ListPool` returns every row that is
not finished (`store/instance.go:52`), while the budget counts `max_instances`
of them. `fail()` works under a context of its own after that of its start; only
then is a stage displayed past its deadline (`LateStageIsUndoing`), and `/livez`
reports a stall. That rests on a start naming its stage before it asks anything
of Forgejo or Incus. After a pass no stage is on display, but for the one of a
run whose result could not be stored, which is still on record as running
(`NoStageAfterPass`).

`deployments` restarts twice among five files: two pools; one of them moved to
another scope while the other gets a short `max_lifetime`; one removed and the
other relabelled; two pools with one primary label, which is refused; and the
first two under another controller id. `ActiveJobKept` names the three changes
that end a running job: another scope (the runner is looked up where it is not),
another controller id (the machine is not listed, and its row taken for one that
lost it) and a `max_lifetime` that has passed as it is now. The first two also
hide what a start left behind, which is why `LeftoversFollowScope` is about
machines and runners under the scope and id of the running process, and an idle
runner with the old labels counts as capacity, the exception of `JobsServed`.

`relabelled` violates `EveryJobServed` for the second reason: one ready instance
and one waiting job need no start (`orchestration.go:100-107`), although the
instance cannot take the job. `docs/explanation/lifecycle.md:3` says that FARM
"watches Forgejo for waiting jobs and creates Incus VMs to provide capacity".

`paging` tries page numbers up to the largest integer, where the offset would
overflow, and the largest page, whose look-ahead row the store must not cut.
Rows are added while a client walks from page to page; a row that leaves a
filtered list moves others to pages already read, so that the walk then owes
nothing more.

`calculations` takes every demand with fields up to 3, more than twice the
smallest limits at which the terms of the minimum change places, and twelve
failures in a row with the code's own delays, twice as many as reach the cap.

`machines_beyond_limit` violates `MachinesCapped`. `Create` waits for the Incus
operation under `startup_timeout`. When that elapses, `provision` calls
`fail()` without deleting the instance, whose row ends as finished; the
operation goes on (it may still be downloading an image). The next pass counts
no row and starts another instance, and the pool then has more machines than
`max_instances`, until a later pass collects the orphan.
`docs/reference/configuration.md:295` says that `max_instances` "caps total pool
size". The limit on *rows*, which line 286 and `docs/explanation/pools.md`
describe as non-finished VMs, is kept (`CapacityRespected`).

`NothingLeftBehind` states exactly what may stay behind of a finished row for
the orphan collection: a registration that never reached the row, and a machine
that was never configured, whose creation outlived the start. Every row that had
been in service, whether its job completed, its runner went offline or it idled
out, has lost its machine. `LeftoversCollected` says that the collection then
removes the rest.

`ActiveRunnerKept` looks at a job that ends because the controller deleted the
registration, or stopped or deleted the machine. A job that some pass has seen is
ended by `max_lifetime` alone. One it has not seen may be ended by `scaleDown` or
as offline, from a status read before it began. And a start that finds its
runner at work but cannot store that is taken back with it
(`bootstrap.go:157-160`).

Deadlock is checked everywhere: no model stops. (An idle pool can always begin
another pass, a stopped process can be started.)

### Bounds

`Ids`, `MaxJobs`, `MaxFaults`, `MaxCrashes`, `MaxFailures`, `MaxStops`, the
`Bound` of `CapacityCheck`, `MaxRetries`, the `MaxRows`, `MaxExtra` and `Horizon`
of `Deadlines`, `Jobs`, `MaxAge` and `MaxDeployments` of `Deployment` and the
`MaxRows` of `Paging` bound the models; nothing in the code corresponds to them.
A short `max_lifetime` is one minute, so that one unit of age tells what has
outlived it; the default is never reached. `Horizon` lies beyond the latest time
`PassBounded` allows. `MaxInt` is the platform's largest integer, made small. In
`Deadlines` a request has one unit of time, a cleanup two and a start ten: the
three are kept apart, and a start outlasts the budget of the calls before it
(nine), so that the deadline displayed for those is not enough for a start.
Passes are unbounded. Failing calls consume a budget, except the failures the
code must expect at any time: `startup_timeout`, cancellation, a refused write.
Symmetry is used in safety runs only, on instances, pools and failures,
which the modules never compare by name.

### Fairness

`PoolController`: the pass and each goroutine go on (`WF` of `Pass` and
`Work(i)`), because every call has a deadline (client timeouts,
`startup_timeout`, `cleanup_timeout`, the deadline of the pass) and `runPool`
loops. Clocks advance (`WF` of `Clock(i)`). Runners, jobs, creations that Incus
has accepted, faults and crashes owe nothing, so a start is never assumed to
succeed.

`Service`: startup goes on and a process that is down is started again
(`packaging/farm.service` has `Restart=on-failure`); one that was stopped is
not. Workers go on, since every pass has a deadline; shutdown goes on once they
are done. That a pass succeeds is assumed nowhere: it fails only
while the budget of failures lasts.

`Deployment`: the worker of each configured pool visits or collects each
instance, and starts (`WF` for each name of a pool, since a worker loops over
its own pool whatever was deployed), Forgejo hands jobs to runners that can take
them, and jobs end. Operators and those who queue and cancel jobs owe nothing.
Starts fail only while `MaxFaults` lasts: `JobsServed` is about a system whose
starts come to succeed.

## Proofs

For every set of instances, pools, failures, configurations and starts, every
limit the configuration accepts, every timeout, and every number of faults,
crashes and restarts:

- `NeededIsAlwaysLargest`, `DelaysDoubleToCap`: both properties of `calculations`,
  for every demand, every base and cap and any number of failures.
  `ReserveWithinLimit`: what a reservation returns at and below the limit.
- `TypeCorrect`, `WritesAccepted`, `OrphansNeverTracked`,
  `FinishedRowsAccountedFor`, `JobsAreCompleted`, `ActiveRunnersKept`: all the
  properties of `pool_faults`. `RowsAdvance`: a row moves only along the
  transitions of the store and is not written once finished, although the store
  would accept some of that. `DeletionsComeAfter`: no call stops or deletes anything of
  an instance whose row is `ready` or `running`; the row is retired first.
- `InstancesCapped`, `StartsCapped`: both properties of `pool_capacity`.
  `ProbeIsAlone`, `CircuitImplementsPolicy`: both of `pool_circuit`, the second
  being that `PoolController` implements `BootstrapPolicy`. `PassesAdvance`: each
  step of a pass leaves it less to do, which is what `PassEnds` needs besides
  fairness. `PassesSkipNothing`: a pass that decides what to start has handled
  every row left behind, whatever call failed; `StartsSettle` and
  `CleaningFinishes` need it.
- `ServiceTypes`, `IncidentsLinked`, `NoStaleRuns`, `LostResultsShow`,
  `HealthyMeansClean`, `IdleNotStalled`, `SchemaAlwaysWhole`, `RefusedNeverUsed`:
  all the invariants of `service_record`. `HistoryIsKept`: incidents are neither
  lost nor rewritten nor reopened, and are resolved for a reason that is on
  record. `ShutdownsAdvance`: each step of a worker after the signal brings it
  nearer to its end, what `ShutdownCompletes` needs besides fairness.
- `PassesEndInTime`, `NoStageOutlivesPass`, `StartsHaveTheirTime`,
  `LateStagesUndo`: all the properties of `pass_deadlines`.
- `PagesShowTheirRows`, `WalksMissNothing`: both properties of `paging`.
- `NoTwoPoolsForAJob`, `UnconfiguredStays`, `JobsOutliveRestarts`:
  `OnePoolPerJob`, `UnconfiguredKept` and `ActiveJobKept`, for configurations of
  any number of pools, deployed in any order.

They assume what the modules name: `ScalingAssumption` (what `Pool.validate`
accepts), `DeadlinesAssumption` (limits and timeouts are positive),
`PagingAssumption` (the store returns one row more than the largest page, and a
page size fits an integer), `RetryAssumption` (the delay starts at a positive base
no longer than its cap), `MaxRetriesAssumption` (the bound on the failures counted
is a natural), and that budgets are naturals and `Ids` finite
(`BoundsAssumption`, `ServiceAssumption`).
`Deployment_proofs` assumes nothing of the configurations.

*Retries.* `retryDelay` caps after every doubling and stops there; the definition
it is compared with doubles as often and caps once. Both are recursive functions,
so their equality is an induction over the number of failures. The induction
theorems of the library cannot be used here, but its theorem about least elements
of sets can (`WFMin`): of the numbers for which the two differ there would be a
least one.

*Writes and orphans.* Neither property is inductive. That a row the pass has not
visited is still as listed depends on who else could have written it: nobody,
because goroutines exist only while the pass is provisioning (`OneAtATime`),
because a goroutine's row is in the state its next call counts on (`RowFits`),
and because the one cleanup a loop has under way is on a row that is still in
`todo` (`Unvisited`). For orphans it depends on the age of the listing:
rows are not written between the first `ListPool` and the end of the loop over
machines, and the loop over missing instances only takes rows away, so the
listing still covers every live row and its runner (`OrphansKnown`).
`PoolInvariant!IInv` is the conjunction of these with `TypeOK`;
`PoolSafety_proofs!Inductive` proves it, with one step per action.

*Rows, runners and machines.* `Accounted` is inductive only together with `IInv`.
Its conjunction with `SeenRecorded` is `AccountKept`.
It says of each instance what its reason tells (`RowTells`: a row retired as
completed has a spent runner, one retired as missing no machine), what the
outside cannot have yet (`WorldFits`: no runner connects before its machine is
configured, nothing exists before the registration), and what the work under way
has already done (`WorkTells`: at `machine` the runner is gone, at `finish` also a
machine that was configured). `LoopsRely` is what a loop still counts on when it
comes to a row it listed. From these `NothingLeftBehind` and `JobCompletedIsTrue`
follow at once. `SeenRecorded` is what the order of a pass gives: a pass that
comes to `scaleDown` has written down every job it saw, since an error of a
write ends it, so that no row it takes for idle has a runner seen at work.
`ActiveRunnersKept` needs it for `idle_timeout`; `OnlyThoseEndJobs` gathers the few
calls that can end a job at all.

*Rows in order.* The store accepts a state written over itself, and a retry time in
any state. That no call makes use of it follows from who writes a row: every
step but those of a start, a cleanup or a visit leaves all rows alone
(`WritesRow`), and these write what `RowFits` lets them. `Rested` adds what
`IInv` does not say: a start is taken back on a row that is not finished yet, and
a finished row is at rest, with no work under way and no time set.

*Passes.* `ToGo` counts the calls that the place of the pass still has for an
instance: those of the work under way, or those of a visit to come.
`PassAdvances` says that no step adds to it, and that every call takes away from
that of some instance; the places themselves come in one order (`NextPlace`). For
`NothingSkipped` the invariant is `HandledSoFar`: behind the loop over the rows,
each is settled, retired with its deletion postponed, or being cleaned up. It
is inductive together with `IInv` and `Rested`: an error ends the pass, and a
cleanup that returned without one has finished its row.

*Limits and the circuit.* `CapacityRespected` is not inductive, since a start is
granted before its row exists: `Planned` counts the rows together with the
starts about to insert theirs, and `NeededFits` that `Needed` asks for no more
than there is room for. `Budgeted` adds to `ProbeAlone` that a result is that of
an instance that was started. Both, and the refinement, look at the same few
things in a step; `StepShape` says once which steps can change them (a start
reaching the store, a result being collected, the beginning and the end of
provisioning, a crash, the retry time coming due), and that all others keep
them. The mapping takes as granted the starts about to be inserted, as started
the rows that exist, as allowance what the circuit would grant now, and as
proven `won`. `PolicyStep` maps each shape to a step of the policy or to none: a
crash to the loss of what was granted, `Settle` to holding or opening.

*The record.* `Service_proofs!IInv` adds what lies between the places a result
is written to. `Reported` says what the worker holds until it reports: at
`report` a result of "ok" means that the run is closed and no incident is open,
so that what `/healthz` learns a step later is never better than the tables.
`Timed` ties the flags of the tracker to the pass, `Asleep` the memory of the
process to its phase, `SchemaFollows` the tables to the version, which is what a
creation cut short, or a migration, must not break. `FailureRecorded` and
`SuccessRecorded` are about the sequence of incidents: the one open incident is
the one pointed at, before and after. For `HistoryGrows` the two ways to write the
sequence, resolving what is open of a pool and appending to that, are looked at
row by row (`ResolvedKeeps`); an append happens only where no open incident of
the pool has the cause.

*Time.* `Deadlines_proofs!IInv`: a call of the pass ends with its context, which
ends with the pass (`CallInTime`); a start at its work too, one being undone a
`cleanup_timeout` after it began to be (`StartInTime`); and there are
goroutines only while the pass collects them (`Collected`), and the run of a pass
under way is on record (`OnRecord`). How the time of a
pass adds up is `SInv`: the latest end of the call at hand and what the pass has
to do after it (`Rest`) fit into `MaintenanceBudget` together (`OnSchedule`),
where every row not visited costs a request and a cleanup and every row kept a
cleanup; `StageFits` says that the deadline on display covers the calls it
stands for, and that all starts still to show one have the same. Planned passes
only: that is the condition of both properties.

*Pages.* What a walk owes and has not read lies behind the page on display
(`WalkInv`). Insertions and repeats move rows backwards only (`RowsMoveBack`), and
the offset of the next page is the end of this one, because `Accepted` keeps it
from overflowing (`AcceptedIsPage`). `PageShows` is the same for any page.

*Configurations.* What runs was accepted (`Running`), so that the labels that
come first are unique and two pools that match a job are one (`OneMatch`). That
the orphan collection ends no job depends on `LeftUnused`: a machine without a
row is left of a start, and never had a job. `MachineEnds` then leaves the
retirement of a row as the one step that takes the machine of a running job, and
`LetsEnd` the reasons it can have.

Every inductive invariant held in a run of TLC before it was proved. So did
`RowsOnlyAdvance`, `DeletionsAnnounced`, `PassAdvances` and `NothingSkipped`, on the
instances of `pool_faults` and `pool_circuit`, and `HistoryKept` and
`ShutdownAdvances`, on that of `service_record`; the `.cfg` files leave them out, as
the theorems cover these instances.

Only model-checked is what holds under fairness: `PassEnds`, `StartsSettle`,
`CleaningFinishes`, `LeftoversCollected`, `ShutdownCompletes`, `RunsSettle`,
`IncidentsResolve`, `JobsServed`, `LeftoversFollowScope`. Liveness and `ENABLED` are
out of the prover's reach; for the first, second, third and fifth of these, what
they need of safety is proved.

## Not modelled

- The web interface, the command line, the text of cloud-init and of the runner
  configuration, logging and metrics: no state, or none anything depends on.
- The handlers of the API other than the paged lists: each formats what one
  query or the tracker returns (a pool's summary, whether it is paused, an
  estimate of the starts it needs).
- The contents of the history of an instance, and of incidents: counts of
  occurrences, messages, times.
- HTTP, JSON and TLS of the two clients; image sources, the properties of a
  machine and the checks of those FARM did not create.
- Of the configuration: durations other than `startup_timeout` and
  `max_lifetime`, the form of
  names, labels and images, URLs, certificates, logging, the runner download.
- Columns and indexes of the schema, but for the columns a migration adds.

A failed start that the store could not record, and whose runner was deleted
all the same, is later recorded as `job_completed` (`observation.go:92`). The
code cannot tell the two cases apart, and no property says which it should be.
`PROJECT.json` lists each part with its status, and every hazard.

## Plan

1. The history of an instance, written with every transaction of
   `InstanceStore`.
2. `Deployment` with the circuit, so that a pool removed while it was paused
   comes back as it was.
