---------------------------- MODULE MCDeployment ----------------------------
(***************************************************************************)
(* What holds over restarts with other configurations, and the             *)
(* configurations TLC tries.                                               *)
(***************************************************************************)
EXTENDS Deployment, TLC

\* A job waits for at most one pool: two pools never start a machine each for
\* the same job, although every pool counts jobs on its own.
OnePoolPerJob ==
    \A j \in Jobs : Cardinality({p \in Configured : j \in Waiting(p)}) <= 1

\* Some worker of the running process works on what there is of the instance:
\* rows bear the name of a pool, machines and runners also the controller's id.
Owned(i) ==
    \E p \in Configured :
        p.name = pool[i] /\ (state[i] # "finished" \/ maker[i] = controller)

\* What belongs to a pool that is no longer configured stays as it is, and so
\* does what a start left behind under another controller id: no worker of
\* another pool retires such rows, or deletes such machines or registrations as
\* orphans of its own, in a scope they share.
UnconfiguredKept ==
    [][\A i \in Ids : ~Owned(i) =>
           /\ state[i] # "finished" => state'[i] = state[i]
           /\ machine[i] => machine'[i]
           /\ runner[i].status \in {"idle", "offline"} => runner'[i] # NoRunner]_dvars

\* A running job ends with its machine only when the file the process runs with
\* now lets it: the scope or the controller id are others than those the runner
\* was registered under, or max_lifetime has passed, as the file gives it now.
\* (A job that began after the row was last observed may meet a scale-down.)
\* Changed names, labels and limits, pools added or removed, leftovers collected
\* by another process end none.
ActiveJobKept ==
    [][\A i \in Ids : runner[i].status = "active" /\ machine[i] /\ ~machine'[i] =>
           \/ state[i] = "ready"
           \/ maker[i] # controller
           \/ \E p \in Configured :
                  /\ p.name = pool[i]
                  /\ p.scope # runner[i].scope \/ age[i] >= p.maxLifetime]_dvars

\* Pool p has an idle runner that counts as capacity for job j but cannot take it.
Obstructed(p, j) ==
    \E i \in Rows(p) : runner[i].status = "idle" /\ ~Takes(i, job[j])

\* A job that some pool counts is handed to a runner, or leaves the queue,
\* unless an idle runner of that pool does not have the labels of the job:
\* registered before the labels were changed, or asked for more than them.
JobsServed ==
    \A j \in Jobs :
        (\E p \in Configured : j \in Waiting(p))
            ~> \/ \A p \in Configured : j \notin Waiting(p)
               \/ \E p \in Configured : j \in Waiting(p) /\ Obstructed(p, j)

\* What a start left behind and the running process is to collect: the machine,
\* and the runner unless the pool has another scope than the one it was
\* registered in.
Due(i) ==
    /\ state[i] = "finished" /\ Owned(i)
    /\ \/ machine[i]
       \/ /\ runner[i].status = "offline"
          /\ \E p \in Configured : p.name = pool[i] /\ Known(p, i)

\* What a start left behind is collected by a later process as well, while its
\* pool is configured with the same scope and the controller has its id.
LeftoversFollowScope == (\E i \in Ids : Due(i)) ~> (\A i \in Ids : ~Due(i))

\* docs/explanation/lifecycle.md: "FARM watches Forgejo for waiting jobs and
\* creates Incus VMs to provide capacity."  A job that a pool counts gets a
\* runner.
EveryJobServed ==
    \A j \in Jobs :
        (\E p \in Configured : j \in Waiting(p))
            ~> \A p \in Configured : j \notin Waiting(p)

-----------------------------------------------------------------------------

Repository == [type |-> "repository", owner |-> "o", repository |-> "r"]
Organization == [type |-> "organization", owner |-> "o", repository |-> ""]

PoolOf(name, labels, scope, minIdle) ==
    [name |-> name, labels |-> labels, scope |-> scope, minIdle |-> minIdle,
     maxInstances |-> 1, maxProvisioning |-> 0, attemptLimit |-> 0,
     startupTimeout |-> 0, maxLifetime |-> 0]

File(id, pools) == [controller |-> id, pools |-> pools]

Small == PoolOf("small", <<"s">>, Organization, 0)
Large == PoolOf("large", <<"l", "x">>, Organization, 0)

\* Two pools; one of them in another scope, the other with a short lifetime; one
\* alone, with the primary label the other had; both with that label, which is
\* refused; and the two under another controller id.
ManyFiles ==
    { File("a", <<Small, Large>>),
      File("a", <<[Small EXCEPT !.scope = Repository],
                  [Large EXCEPT !.maxLifetime = 1]>>),
      File("a", <<[Small EXCEPT !.labels = <<"l">>]>>),
      File("a", <<[Small EXCEPT !.labels = <<"l">>], Large>>),
      File("b", <<Small, Large>>) }

ManyJobs ==
    { [labels |-> <<"s">>, home |-> Repository],
      [labels |-> <<"l", "x">>, home |-> Repository] }

\* One pool with room for two machines, before and after its label changes.
Relabelled ==
    { File("a", <<[Small EXCEPT !.maxInstances = 2]>>),
      File("a", <<[Small EXCEPT !.maxInstances = 2, !.labels = <<"n">>]>>) }

OldAndNewJobs ==
    { [labels |-> <<"s">>, home |-> Repository],
      [labels |-> <<"n">>, home |-> Repository] }
=============================================================================
