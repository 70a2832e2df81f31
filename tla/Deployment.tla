----------------------------- MODULE Deployment -----------------------------
(***************************************************************************)
(* One controller and its database through several configurations.  The    *)
(* process reads its file once; a restart may bring other pools or another *)
(* id, while rows, runners and machines made under the old ones go on.     *)
(* PoolController models what a worker does call by call; here a row is    *)
(* observed, retired, collected or started in one step, so that what a     *)
(* changed name, label, scope, limit or id does to it can be followed over *)
(* restarts.                                                               *)
(***************************************************************************)
EXTENDS Configuration, Capacity, FiniteSets

CONSTANTS
    Ids,            \* instances; an ID of which nothing is left is used again
    Jobs,           \* jobs, each queued once
    Offered,        \* configuration files an operator may deploy:
                    \* [controller, pools]
    RunsOn,         \* what jobs ask for: [labels, home]
    MaxAge,         \* bound on the minutes a row is known to be running
    MaxDeployments, \* bound on the restarts
    MaxFaults       \* bound on the starts that fail

VARIABLES
    controller,     \* controller.id of the running process
    conf,           \* its pools
    pool, state,    \* rows: pool[i] also tags the machine and the runner
    age,            \* age[i]: minutes since the row was found running
    maker,          \* maker[i]: the controller the machine and the runner name
    runner,         \* runner[i]: status, with the labels and scope it was
                    \* registered with
    machine,        \* machine[i]: Incus has a machine for i
    job,            \* job[j]: what it asks for, while it waits
    deployments, faults

fileVars == <<controller, conf>>
rowVars == <<pool, state, age>>
farmVars == <<maker, runner, machine>>
boundVars == <<deployments, faults>>
dvars == <<fileVars, rowVars, farmVars, job, boundVars>>

NoPool == "none"
NoScope == [type |-> "none", owner |-> "", repository |-> ""]
NoJob == [labels |-> <<>>, home |-> NoScope]        \* not queued yet
Gone == [labels |-> <<"gone">>, home |-> NoScope]   \* served or canceled
NoRunner == [status |-> "none", labels |-> <<>>, scope |-> NoScope]

DeploymentInit ==
    /\ controller = "" /\ conf = <<>>
    /\ pool = [i \in Ids |-> NoPool]
    /\ state = [i \in Ids |-> "finished"]
    /\ age = [i \in Ids |-> 0]
    /\ maker = [i \in Ids |-> ""]
    /\ runner = [i \in Ids |-> NoRunner]
    /\ machine = [i \in Ids |-> FALSE]
    /\ job = [j \in Jobs |-> NoJob]
    /\ deployments = MaxDeployments /\ faults = MaxFaults

-----------------------------------------------------------------------------
(* What a worker sees.                                                     *)

Configured == {conf[k] : k \in DOMAIN conf}

\* A slip: finished rows are listed as well.
RowsOfAll(p) == {i \in Ids : pool[i] = p.name}

\* The live rows of a pool.
Rows(p) == {i \in Ids : pool[i] = p.name /\ state[i] # "finished"}

InState(p, s) == {i \in Rows(p) : state[i] = s}

\* Forgejo knows the runner under the scope the pool has now.
Known(p, i) == runner[i].status # "none" /\ runner[i].scope = p.scope

TokenOwner == "me"      \* the user the token belongs to

\* A scope stands for one repository, for those of an owner, or for all: Forgejo
\* lists their jobs under it and gives them to the runners registered there.
Covers(scope, home) ==
    \/ scope.type = "repository" /\ scope = home
    \/ scope.type = "organization" /\ scope.owner = home.owner
    \/ scope.type = "user" /\ home.owner = TokenOwner
    \/ scope.type = "global"

Waiting(p) ==
    {j \in Jobs : /\ job[j] \notin {NoJob, Gone}
                  /\ Covers(p.scope, job[j].home)
                  /\ Matches(p.labels, job[j].labels)}

Needed(p) ==
    NeededFor(Demand(Cardinality(Waiting(p)), p.minIdle, p.maxInstances,
                     p.maxProvisioning, Cardinality(InState(p, "ready")), 0,
                     Cardinality(Rows(p))))

-----------------------------------------------------------------------------
(* What a worker does.                                                     *)

\* The runner is deleted in the scope of the pool, where it may be unknown;
\* one that loses its machine is offline.
RunnerAfter(p, i) ==
    IF Known(p, i) THEN NoRunner
    ELSE IF runner[i].status = "none" THEN runner[i]
    ELSE [runner[i] EXCEPT !.status = "offline"]

\* cleanup, and the retries it may need.
Retire(p, i) ==
    /\ state' = [state EXCEPT ![i] = "finished"]
    /\ age' = [age EXCEPT ![i] = 0]
    /\ runner' = [runner EXCEPT ![i] = RunnerAfter(p, i)]
    /\ machine' = [machine EXCEPT ![i] = FALSE]
    /\ UNCHANGED <<fileVars, pool, maker, job, boundVars>>

\* Managed lists the machines tagged with the pool and the controller.
Managed(p) == {i \in Ids : machine[i] /\ pool[i] = p.name /\ maker[i] = controller}

\* max_lifetime has passed since the row was found running.
Expired(p, i) == state[i] = "running" /\ age[i] >= p.maxLifetime

\* The runner is not found, has lost its connection, or is idle again after a
\* job.
JobOver(p, i) ==
    \/ ~Known(p, i)
    \/ runner[i].status = "offline"
    \/ state[i] = "running" /\ runner[i].status = "idle"

\* The row takes the state of its runner, and the time when that changes.
Follow(i) ==
    /\ state' = [state EXCEPT ![i] = IF runner[i].status = "active"
                                     THEN "running" ELSE "ready"]
    /\ age' = [age EXCEPT ![i] = IF state'[i] = state[i] THEN @ ELSE 0]
    /\ UNCHANGED <<fileVars, pool, farmVars, job, boundVars>>

\* The passage of a pass over a row: what collectOrphans misses, what is too
\* old and what observe finds at its end is retired, and the others are followed.
Observe(p, i) ==
    /\ i \in Rows(p)
    /\ IF i \notin Managed(p) \/ Expired(p, i) \/ JobOver(p, i)
       THEN Retire(p, i) ELSE Follow(i)

\* scaleDown, from rows that may have been observed a while ago.
ScaleDown(p, i) ==
    /\ i \in InState(p, "ready")
    /\ Cardinality(InState(p, "ready")) > p.minIdle + Cardinality(Waiting(p))
    /\ Retire(p, i)

\* A slip: Managed does not look at the pool of a machine.
StrayOfAnyPool(p, i) == machine[i] /\ maker[i] = controller /\ i \notin Rows(p)

Stray(p, i) == i \in Managed(p) /\ i \notin Rows(p)

CollectMachine(p, i) ==
    /\ Stray(p, i)
    /\ machine' = [machine EXCEPT ![i] = FALSE]
    /\ runner' = [runner EXCEPT ![i] =
                      IF runner[i].status = "none" THEN runner[i]
                      ELSE [runner[i] EXCEPT !.status = "offline"]]
    /\ UNCHANGED <<fileVars, rowVars, maker, job, boundVars>>

\* A slip: runners are deleted whoever registered them.
Unclaimed(p, i) == Known(p, i) /\ i \notin Rows(p)

\* A slip: runners of the pool are told by their labels.
AbandonedByLabels(p, i) ==
    /\ Known(p, i) /\ maker[i] = controller
    /\ runner[i].labels = p.labels /\ i \notin Rows(p)

\* Runners lists those of the scope; the description names the controller and
\* the pool.
Abandoned(p, i) ==
    /\ Known(p, i) /\ maker[i] = controller
    /\ pool[i] = p.name /\ i \notin Rows(p)

CollectRunner(p, i) ==
    /\ Abandoned(p, i)
    /\ runner' = [runner EXCEPT ![i] = NoRunner]
    /\ UNCHANGED <<fileVars, rowVars, maker, machine, job, boundVars>>

\* Nothing is left of the instance that had this ID.
Free(i) == state[i] = "finished" /\ ~machine[i] /\ runner[i] = NoRunner

\* IDs are alike: a new instance takes one of those that are free.
NewId == CHOOSE i \in Ids : Free(i)

\* provision, one start of the batch.
Start(p, i) ==
    /\ Needed(p) > 0 /\ Free(i) /\ i = NewId
    /\ pool' = [pool EXCEPT ![i] = p.name]
    /\ state' = [state EXCEPT ![i] = "ready"]
    /\ maker' = [maker EXCEPT ![i] = controller]
    /\ machine' = [machine EXCEPT ![i] = TRUE]
    /\ runner' = [runner EXCEPT ![i] = [status |-> "idle", labels |-> p.labels,
                                        scope |-> p.scope]]
    /\ UNCHANGED <<fileVars, age, job, boundVars>>

\* A start that fail() took back without its machine or its runner.
StartFails(p, i) ==
    /\ Needed(p) > 0 /\ Free(i) /\ i = NewId
    /\ faults > 0 /\ faults' = faults - 1
    /\ pool' = [pool EXCEPT ![i] = p.name]
    /\ maker' = [maker EXCEPT ![i] = controller]
    /\ \E m, r \in BOOLEAN :
           /\ machine' = [machine EXCEPT ![i] = m]
           /\ runner' = [runner EXCEPT ![i] =
                  IF r THEN [status |-> "offline", labels |-> p.labels,
                             scope |-> p.scope]
                  ELSE NoRunner]
    /\ UNCHANGED <<fileVars, state, age, job, deployments>>

\* A pass of a pool that has nothing and needs nothing.
Rest(p) == Rows(p) = {} /\ Needed(p) = 0 /\ UNCHANGED dvars

-----------------------------------------------------------------------------
(* The operator, the clock, and Forgejo.                                   *)

\* The process is started with another configuration; a file that is refused
\* starts nothing.
Deploy(file) ==
    LET pools == [k \in DOMAIN file.pools |-> WithDefaults(file.pools[k])]
    IN  /\ deployments > 0 /\ deployments' = deployments - 1
        /\ Accepted(pools) /\ <<file.controller, pools>> # fileVars
        /\ controller' = file.controller /\ conf' = pools
        /\ UNCHANGED <<rowVars, farmVars, job, faults>>

\* Time goes by for a row found running.
Ages(i) ==
    /\ state[i] = "running" /\ age[i] < MaxAge
    /\ age' = [age EXCEPT ![i] = @ + 1]
    /\ UNCHANGED <<fileVars, pool, state, farmVars, job, boundVars>>

Queue(j, wants) ==
    /\ job[j] = NoJob
    /\ job' = [job EXCEPT ![j] = wants]
    /\ UNCHANGED <<fileVars, rowVars, farmVars, boundVars>>

Cancel(j) ==
    /\ job[j] \notin {NoJob, Gone}
    /\ job' = [job EXCEPT ![j] = Gone]
    /\ UNCHANGED <<fileVars, rowVars, farmVars, boundVars>>

\* Forgejo gives a job to a runner that covers its home and has all its labels.
Takes(i, wants) ==
    /\ Covers(runner[i].scope, wants.home)
    /\ \A k \in DOMAIN wants.labels : \E l \in DOMAIN runner[i].labels :
           runner[i].labels[l] = wants.labels[k]

Assign(j, i) ==
    /\ job[j] \notin {NoJob, Gone}
    /\ runner[i].status = "idle" /\ machine[i]
    /\ Takes(i, job[j])
    /\ job' = [job EXCEPT ![j] = Gone]
    /\ runner' = [runner EXCEPT ![i].status = "active"]
    /\ UNCHANGED <<fileVars, rowVars, maker, machine, boundVars>>

\* The job ends, and the runner is ephemeral.
JobEnds(i) ==
    /\ runner[i].status = "active"
    /\ runner' = [runner EXCEPT ![i] = NoRunner]
    /\ UNCHANGED <<fileVars, rowVars, maker, machine, job, boundVars>>

-----------------------------------------------------------------------------

Visit(p, i) == Observe(p, i) \/ ScaleDown(p, i)

Collect(p, i) == CollectMachine(p, i) \/ CollectRunner(p, i)

DeploymentNext ==
    \/ \E file \in Offered : Deploy(file)
    \/ \E p \in Configured, i \in Ids :
           Visit(p, i) \/ Collect(p, i) \/ Start(p, i) \/ StartFails(p, i)
    \/ \E p \in Configured : Rest(p)
    \/ \E j \in Jobs : (\E wants \in RunsOn : Queue(j, wants)) \/ Cancel(j)
    \/ \E j \in Jobs, i \in Ids : Assign(j, i)
    \/ \E i \in Ids : JobEnds(i) \/ Ages(i)

DeploymentSpec == DeploymentInit /\ [][DeploymentNext]_dvars

PoolNames == UNION {{file.pools[k].name : k \in DOMAIN file.pools} : file \in Offered}

Named(n) == {p \in Configured : p.name = n}

\* Workers make one pass after another.  Forgejo hands jobs out and jobs end;
\* operators owe nothing, nor do those who queue jobs.
DeploymentFairness ==
    /\ \A n \in PoolNames :
          /\ WF_dvars(\E p \in Named(n), i \in Ids : Start(p, i))
          /\ \A i \in Ids : WF_dvars(\E p \in Named(n) : Visit(p, i) \/ Collect(p, i))
    /\ \A j \in Jobs : WF_dvars(\E i \in Ids : Assign(j, i))
    /\ \A i \in Ids : WF_dvars(JobEnds(i))

FairDeploymentSpec == DeploymentSpec /\ DeploymentFairness
=============================================================================
