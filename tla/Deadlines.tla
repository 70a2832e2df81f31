----------------------------- MODULE Deadlines -----------------------------
(***************************************************************************)
(* The clock of one reconciliation pass: which context ends each call of   *)
(* ReconcilePool, what is left of the pass for its starts, and by when the *)
(* stage on display says it will be over.  What the calls do is the matter *)
(* of PoolController; here a call only takes time.  No call outlives its   *)
(* context, and the local database answers at once, if with an error.      *)
(***************************************************************************)
EXTENDS Capacity

CONSTANTS
    Starts,             \* the starts a pass can make
    MaxInstances,       \* max_instances of the pool
    StartupTimeout,     \* startup_timeout
    CleanupTimeout,     \* cleanup_timeout
    RequestTimeout,     \* timeout of Forgejo, of its HTTP client
    MaxRows,            \* bound on the rows a pass lists
    MaxExtra            \* bound on the calls a pass did not budget for

ASSUME DeadlinesAssumption ==
    /\ MaxInstances \in Nat \ {0} /\ MaxExtra \in Nat /\ MaxRows \in Nat
    /\ StartupTimeout \in Nat \ {0}
    /\ CleanupTimeout \in Nat \ {0}
    /\ RequestTimeout \in Nat \ {0}

VARIABLES
    now,        \* since the pass began
    at,         \* the call the pass waits for; "starts" for those of its starts
    until,      \* when the context of that call ends
    rows,       \* rows the pass has still to visit
    kept,       \* rows it leaves alone, for scaleDown
    extra,      \* orphans deleted and further pages of runners read
    slow,       \* the list of machines took longer than RequestTimeout
    crowded,    \* the pass has listed more rows than max_instances
    start,      \* how far each start has come
    ends,       \* when the context of its work, or of its undoing, ends
    stopped,    \* when the service was told to stop, Never otherwise
    open,       \* reconcile_state of pool_runtime is running
    recorded,   \* stage_deadline_at of pool_runtime, Never for none
    shown       \* deadline of the stage in the tracker, Never for none

passVars == <<at, until, rows, kept, extra, slow, crowded>>
startVars == <<start, ends>>
displayVars == <<recorded, shown>>
deadlineVars == <<now, passVars, startVars, stopped, open, displayVars>>

Never == -1

\* A slip: the requests are forgotten.
MaintenanceBudgetOfCleanups == MaxInstances * CleanupTimeout

MaintenanceBudget ==
    MaxInstances * CleanupTimeout + (MaxInstances + 3) * RequestTimeout

\* A slip: one request for every row, none for the lists.
PassTimeoutForRows ==
    StartupTimeout + MaxInstances * CleanupTimeout + MaxInstances * RequestTimeout

\* poolOperationTimeout
PassTimeout ==
    StartupTimeout + MaxInstances * CleanupTimeout
        + (MaxInstances + 3) * RequestTimeout

Horizon == PassTimeout + 2 * CleanupTimeout     \* bound on the clock

\* The end of a context derived from that of the pass.
Within(limit) == Least(now + limit, PassTimeout)

\* The calls of the pass, in order: the list of machines, the deletion of an
\* orphaned one, the cleanup of a row without machine, the list of runners, the
\* deletion of an orphaned one, the observation and the cleanup of a row, the
\* list of jobs, the cleanup of a row too many.
Calls == {"managed", "machine", "missing", "list", "runner",
          "observe", "clean", "jobs", "retire"}

Asleep == at = "asleep"

DeadlinesInit ==
    /\ now = 0 /\ at = "asleep" /\ until = 0
    /\ rows = 0 /\ kept = 0 /\ extra = 0 /\ slow = FALSE
    /\ crowded = FALSE /\ open = FALSE
    /\ start = [s \in Starts |-> "none"] /\ ends = [s \in Starts |-> 0]
    /\ stopped = Never
    /\ recorded = Never /\ shown = Never

Call(name, end) == at' = name /\ until' = end

Display(deadline) == recorded' = deadline /\ shown' = deadline

\* A new pass, of the same process or of one started again: StartPool, the first
\* setProgress and ListPool.  There can be more rows than max_instances, when
\* the limit was lowered in between.
Begin ==
    /\ Asleep
    /\ now' = 0 /\ stopped' = Never
    /\ Call("managed", PassTimeout)
    /\ open' = TRUE /\ Display(MaintenanceBudget)
    /\ rows' \in 0 .. MaxRows /\ crowded' = (rows' > MaxInstances)
    /\ kept' = 0 /\ extra' = 0 /\ slow' = FALSE
    /\ start' = [s \in Starts |-> "none"] /\ ends' = [s \in Starts |-> 0]

\* The first setProgress fails after StartPool: the pass is over, and nothing
\* finishes it.
BeginFails ==
    /\ Asleep
    /\ open' = TRUE
    /\ UNCHANGED <<now, passVars, startVars, stopped, displayVars>>

\* The result clears the stage in the row, unless FinishPool fails.
FinishPool ==
    \/ open' = FALSE /\ recorded' = Never
    \/ UNCHANGED <<open, recorded>>

\* The pass returns; the tracker clears its stage whatever the row says.
EndPass ==
    /\ at' = "asleep"
    /\ FinishPool /\ shown' = Never
    /\ UNCHANGED <<now, until, rows, kept, extra, slow, crowded, startVars, stopped>>

\* Every call but those below returns an error, or its context ends.
CallFails == at \in Calls /\ EndPass

-----------------------------------------------------------------------------
(* The calls that succeed, and the one that follows.                       *)

Unplanned ==
    /\ extra < MaxExtra /\ extra' = extra + 1
    /\ UNCHANGED <<rows, kept>>

OrphanMachine ==
    /\ at \in {"managed", "machine"}
    /\ Unplanned /\ Call("machine", Within(CleanupTimeout))

MissingMachine ==
    /\ at \in {"managed", "machine", "missing"}
    /\ rows > 0 /\ rows' = rows - 1
    /\ Call("missing", Within(CleanupTimeout))
    /\ UNCHANGED <<kept, extra>>

RunnersList ==
    /\ at \in {"managed", "machine", "missing"}
    /\ Call("list", Within(RequestTimeout))
    /\ UNCHANGED <<rows, kept, extra>>

MorePages ==
    /\ at = "list"
    /\ Unplanned /\ Call("list", Within(RequestTimeout))

OrphanRunner ==
    /\ at \in {"list", "runner"}
    /\ Unplanned /\ Call("runner", Within(RequestTimeout))

\* The row at hand, when the call was its observation, stays.
Keep == kept' = kept + (IF at = "observe" THEN 1 ELSE 0)

RowsStep == at \in {"list", "runner", "observe", "clean"}

Observe ==
    /\ RowsStep /\ Keep
    /\ rows > 0 /\ rows' = rows - 1
    /\ Call("observe", Within(RequestTimeout))
    /\ UNCHANGED extra

\* The row observed is finished.
CleanObserved ==
    /\ at = "observe"
    /\ Call("clean", Within(CleanupTimeout))
    /\ UNCHANGED <<rows, kept, extra>>

\* A row that nothing has to be asked about: too old, or being cleaned up.
CleanAtOnce ==
    /\ RowsStep /\ Keep
    /\ rows > 0 /\ rows' = rows - 1
    /\ Call("clean", Within(CleanupTimeout))
    /\ UNCHANGED extra

Jobs ==
    /\ RowsStep /\ Keep
    /\ rows = 0
    /\ Call("jobs", Within(RequestTimeout))
    /\ UNCHANGED <<rows, extra>>

Retire ==
    /\ at \in {"jobs", "retire"}
    /\ kept > 0 /\ kept' = kept - 1
    /\ Call("retire", Within(CleanupTimeout))
    /\ UNCHANGED <<rows, extra>>

\* The deadline setProgress displays when the stage changes.
StageOfCall ==
    IF at' = "jobs" THEN Display(now + RequestTimeout)
    ELSE IF at = "jobs" THEN Display(now + MaintenanceBudget)
    ELSE UNCHANGED displayVars

CallSucceeds ==
    /\ stopped = Never
    /\ \/ OrphanMachine \/ MissingMachine \/ RunnersList \/ MorePages
       \/ OrphanRunner \/ Observe \/ CleanObserved \/ CleanAtOnce
       \/ Jobs \/ Retire
    /\ StageOfCall
    /\ UNCHANGED <<now, slow, crowded, startVars, stopped, open>>

\* Nothing is needed, or the circuit grants nothing.
NoStarts == at \in {"jobs", "retire"} /\ EndPass

-----------------------------------------------------------------------------
(* provisionMany and its goroutines.                                       *)

Launch ==
    /\ at \in {"jobs", "retire"} /\ stopped = Never
    /\ \E chosen \in (SUBSET Starts) \ {{}} :
           start' = [s \in Starts |-> IF s \in chosen THEN "begun" ELSE "none"]
    /\ ends' = [s \in Starts |-> Within(StartupTimeout)]
    /\ Call("starts", PassTimeout)
    /\ IF at = "jobs" THEN Display(now + MaintenanceBudget) ELSE UNCHANGED displayVars
    /\ UNCHANGED <<now, rows, kept, extra, slow, crowded, stopped, open>>

InState(states) == {s \in Starts : start[s] \in states}

\* The first error of a start, or the end of the service, cancels the others.
Cancelled == stopped # Never \/ InState({"failed"}) # {}

StartStep(s, from, to) ==
    /\ start[s] \in from
    /\ start' = [start EXCEPT ![s] = to]
    /\ UNCHANGED <<now, passVars, stopped, open>>

\* setProgress at a stage of the start, the first before anything is asked of
\* Forgejo or Incus: first the row,
Record(s) ==
    /\ ~Cancelled /\ now < ends[s]
    /\ StartStep(s, {"begun", "working"}, "telling")
    /\ recorded' = ends[s]
    /\ UNCHANGED <<shown, ends>>

\* then the tracker.
Show(s) ==
    /\ StartStep(s, {"telling"}, "working")
    /\ shown' = ends[s]
    /\ UNCHANGED <<recorded, ends>>

Succeed(s) ==
    /\ StartStep(s, {"working", "clearing"}, "done")
    /\ UNCHANGED <<displayVars, ends>>

\* An error before anything is registered, or one of the cleanup below.
GiveUp(s) ==
    /\ StartStep(s, {"begun", "working", "clearing"}, "failed")
    /\ UNCHANGED <<displayVars, ends>>

\* The runner has gone while the start waited for it: its job is over, and the
\* cleanup has the time of the pass, no longer that of the start.
ClearUp(s) ==
    /\ StartStep(s, {"working"}, "clearing")
    /\ ends' = [ends EXCEPT ![s] = Within(CleanupTimeout)]
    /\ UNCHANGED displayVars

\* A slip: the undoing has all the time it takes.
UndoUnbounded(s) ==
    /\ StartStep(s, {"working"}, "undoing")
    /\ ends' = [ends EXCEPT ![s] = Horizon]
    /\ UNCHANGED displayVars

\* fail: under a context of its own, which nothing cancels.
Undo(s) ==
    /\ StartStep(s, {"working"}, "undoing")
    /\ ends' = [ends EXCEPT ![s] = now + CleanupTimeout]
    /\ UNCHANGED displayVars

Undone(s) ==
    /\ StartStep(s, {"undoing"}, "failed")
    /\ UNCHANGED <<displayVars, ends>>

\* A slip: the first error is returned at once.
CollectFirst ==
    /\ at = "starts"
    /\ InState({"failed"}) # {} \/ InState({"none", "done"}) = Starts
    /\ EndPass

\* Every start has answered.
Collect ==
    /\ at = "starts" /\ InState({"none", "done", "failed"}) = Starts
    /\ EndPass

-----------------------------------------------------------------------------

Stop ==
    /\ ~Asleep /\ stopped = Never
    /\ stopped' = now
    /\ UNCHANGED <<now, passVars, startVars, open, displayVars>>

\* What has to happen before time goes on: a cancelled call returns, a context
\* that ends is noticed, and neither the database, nor the tracker, nor the pass
\* keeps anybody waiting.
Waits(s) ==
    \/ start[s] \in {"working", "clearing"} /\ ~Cancelled /\ now < ends[s]
    \/ start[s] = "undoing" /\ now < ends[s]

Tick ==
    /\ \/ at \in Calls /\ stopped = Never /\ now < until
       \/ /\ at = "starts"
          /\ InState({"begun", "telling"}) = {}
          /\ InState({"working", "clearing", "undoing"}) # {}
          /\ \A s \in InState({"working", "clearing", "undoing"}) : Waits(s)
    /\ now < Horizon
    /\ now' = now + 1
    /\ slow' = (slow \/ (at = "managed" /\ now' > RequestTimeout))
    /\ UNCHANGED <<at, until, rows, kept, extra, crowded, startVars, stopped, open,
                   displayVars>>

DeadlinesNext ==
    \/ Begin \/ BeginFails \/ CallSucceeds \/ CallFails \/ NoStarts \/ Launch
    \/ Collect \/ Stop \/ Tick
    \/ \E s \in Starts :
           \/ Record(s) \/ Show(s) \/ Succeed(s) \/ GiveUp(s)
           \/ ClearUp(s) \/ Undo(s) \/ Undone(s)

DeadlinesSpec == DeadlinesInit /\ [][DeadlinesNext]_deadlineVars

-----------------------------------------------------------------------------

\* The pass met nothing it did not budget for.
Planned == extra = 0 /\ ~slow /\ ~crowded

\* However its calls hang, a pass is over by its deadline and one more
\* cleanup_timeout for the starts it undoes, and a service told to stop waits
\* for its pass no longer than cleanup_timeout.
PassBounded ==
    ~Asleep =>
        /\ now <= PassTimeout + CleanupTimeout
        /\ stopped # Never => now <= stopped + CleanupTimeout

\* Every start has the whole of startup_timeout, even when each call before it
\* took all its time: unless there were orphans to delete, a second page of
\* runners to read, more rows to visit than max_instances, because the limit was
\* lowered, or Incus took longer than a request to list its machines.
StartsUncut ==
    [][\A s \in Starts : Launch /\ Planned => ends'[s] = now + StartupTimeout]_deadlineVars

\* The health endpoints call a pass stalled because of its stage only once no
\* start is at its work any more, when what is left is to undo or clean up, or
\* when the pass met what it did not budget for (orphans, pages, rows beyond a
\* lowered limit, a slow list): a call that takes all its time is no reason.
LateStageIsUndoing ==
    Planned /\ shown # Never /\ now > shown =>
        at = "starts" /\ InState({"begun", "working", "telling"}) = {}

\* When a pass is over the tracker names no stage, and the row names one only
\* when the result of the pass did not reach it either, so that the run is still
\* on record as running: no start is left that could write a stage to a run that
\* has its result.
NoStageAfterPass ==
    Asleep => shown = Never /\ (recorded # Never => open)
=============================================================================
