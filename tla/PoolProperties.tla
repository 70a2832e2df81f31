--------------------------- MODULE PoolProperties ---------------------------
(***************************************************************************)
(* What makes the reconciliation of a pool correct.                        *)
(***************************************************************************)
EXTENDS PoolController

PassTypeOK ==
    /\ pc \in PassSteps
    /\ snap \in [Ids -> [state : States \union {Absent}, registered : BOOLEAN]]
    /\ todo \subseteq Ids /\ missing \subseteq Ids
    /\ waiting \in 0 .. MaxJobs
    /\ excess \in Int

WorkTypeOK ==
    /\ step \in [Ids -> Steps]
    /\ undo \in [Ids -> SUBSET {"runner", "vm"}]
    /\ dirty \in [Ids -> BOOLEAN]

CountersTypeOK ==
    /\ attempts \in 0 .. AttemptLimit
    /\ pause \in Pauses
    /\ won \in BOOLEAN /\ lost \in BOOLEAN
    /\ faults \in 0 .. MaxFaults
    /\ crashes \in 0 .. MaxCrashes

\* Every variable has its type; the attempts never pass the limit, whatever a
\* batch reserves, a crash leaves or a probe adds.
TypeOK ==
    /\ StoreTypeOK
    /\ WorldTypeOK
    /\ PassTypeOK
    /\ WorkTypeOK
    /\ CountersTypeOK

-----------------------------------------------------------------------------
(* Limits.                                                                 *)

\* The non-finished rows of the pool never outnumber max_instances, whatever
\* crashes, failed cleanups and concurrent starts leave behind: rows being
\* cleaned count, and starts of one pass are counted before they exist.
CapacityRespected == Cardinality(Live) <= MaxInstances

\* The rows in bootstrapping never outnumber max_provisioning, although a
\* crash leaves rows in bootstrapping that the next pass did not start.
StartsRespected == Cardinality(InState("bootstrapping")) <= MaxProvisioning

\* Goroutines at work on a start that has not become ready.
Starting == {i \in Ids : step[i] \in ProvisionSteps}

\* Once the circuit has a retry time, the only start there can be is one
\* probe, at the limit: siblings of the limiting batch, interrupted passes and
\* a retry time that comes due while the probe runs give no second one.
ProbeAlone ==
    pause # "none" => attempts = AttemptLimit /\ Cardinality(Starting) <= 1

-----------------------------------------------------------------------------
(* Rows, runners and machines.                                             *)

\* A finished row accounts for what it had, whatever it was retired for and
\* whatever failed or crashed on the way: the runner it has on record is gone,
\* and so is the machine that was ever given its runner configuration, which
\* every row that was ready or running had.  What is left to the orphan
\* collection is a registration that never reached its row, and a machine that
\* was never configured: its creation outlived the start, or was given up on.
\* Of a row that idled out, outlived max_lifetime or lost its machine, there is
\* no machine at all.
NothingLeftBehind ==
    \A i \in Ids : state[i] = "finished" =>
        /\ registered[i] => ~Registered(i)
        /\ ~Configured(i)
        /\ reason[i] \in {"idle_timeout", "max_lifetime", "instance_missing"} =>
               vm[i] = "none"

\* The orphan collection works from a listing taken earlier, yet what it is
\* about to delete belongs to no live row: no machine of a live row, no runner
\* a live row has recorded.
OrphansAreUntracked ==
    /\ pc = "orphanVMs" => todo \intersect Live = {}
    /\ pc = "orphanRunners" =>
           \A i \in todo \intersect Live : ~registered[i]

\* The controller never asks the store for a write the row's state refuses: a
\* start finds its row in bootstrapping, a cleanup in cleaning, and a row the
\* pass has listed but not visited is still as it was listed.
NoWriteRefused ==
    /\ \A i \in Ids :
          /\ step[i] \in ProvisionSteps \ {"insert"} => state[i] = "bootstrapping"
          /\ step[i] \in CleanupSteps => state[i] = "cleaning"
          /\ step[i] \in {"undoRunner", "undoVM", "undoEnd"} /\ ~dirty[i] =>
                 state[i] = "cleaning"
    /\ pc \in {"missing", "instances", "scaleDown"} =>
          \A i \in todo : step[i] = "none" => i \in Live /\ snap[i] = Row(i)

\* A row retired with job_completed has no runner that is waiting for a job or
\* running one: the listing is stale, but not in this.
JobCompletedIsTrue ==
    \A i \in Ids : reason[i] = "job_completed" => ~Connected(i)

\* A start that is being taken back, or was.
GivenUp(i) == step[i] \in UndoSteps \/ reason[i] = "bootstrap_failed"

\* The controller ends a job, by deleting the runner's registration or by
\* stopping or deleting its machine, only
\*   - when the instance outlived max_lifetime; or
\*   - when it never saw the job, which began after the runner was last read
\*     as idle (scaleDown) or offline (observe); or
\*   - when the start of the instance was given up: it may have seen its
\*     runner at work already, if it then could not record that.
\* A job that a pass has once seen, even one whose row it then failed to
\* write, is ended by max_lifetime alone.  Neither the orphan collection, nor
\* recovery, nor a missing machine, nor a job taken for completed ends any.
ActiveRunnerKept ==
    [][\A i \in Ids :
           AtWork(i) /\ ~AtWork(i)' /\ (Pass \/ \E j \in Ids : Work(j)) =>
               \/ reason[i] = "max_lifetime"
               \/ /\ runner[i] = "active"
                  /\ reason[i] \in {"idle_timeout", "runner_offline"}
               \/ GivenUp(i)]_vars

-----------------------------------------------------------------------------
(* The circuit implements the documented policy.                           *)

Allowance ==
    IF attempts < AttemptLimit THEN AttemptLimit - attempts
    ELSE IF pause = "due" THEN 1 ELSE 0

Policy == INSTANCE BootstrapPolicy WITH
    Limit <- AttemptLimit,
    allowance <- Allowance,
    granted <- Cardinality({i \in Ids : step[i] = "insert"}),
    started <- Cardinality({i \in Ids : state[i] # Absent}),
    proven <- won

\* Reserve, hold and reset, with crashes between any two of them, start no
\* machine that BootstrapPolicy does not grant.
PolicyRespected == Policy!PolicySpec

-----------------------------------------------------------------------------
(* Claims of the documentation that the code does not keep.                *)

\* docs/reference/configuration.md: "max_instances caps total pool size".
\* Counted in machines: a creation that outlives its start is not counted.
MachinesCapped == Cardinality({i \in Ids : Machine(i)}) <= MaxInstances

-----------------------------------------------------------------------------
(* Progress, once calls stop failing.                                      *)

\* A pass always comes to its end: no start waits for a runner for ever, no
\* goroutine is left uncollected, no loop stays on one row.
PassEnds == pc # "idle" ~> pc = "idle"

\* A row left in bootstrapping, by a crash or by an error that skipped fail(),
\* is adopted or retired.
StartsSettle ==
    \A i \in Ids : state[i] = "bootstrapping" ~> state[i] # "bootstrapping"

\* A row in cleaning is finished, after any number of postponed deletions.
CleaningFinishes == \A i \in Ids : state[i] = "cleaning" ~> state[i] = "finished"

\* What a finished row left in Forgejo or Incus does not stay there.
LeftoversCollected ==
    \A i \in Ids :
        state[i] = "finished" /\ (Registered(i) \/ Machine(i))
            ~> ~Registered(i) /\ ~Machine(i)
=============================================================================
