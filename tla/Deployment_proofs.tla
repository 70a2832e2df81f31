-------------------------- MODULE Deployment_proofs --------------------------
(***************************************************************************)
(* Two pools never stand for one job, what belongs to no configured pool   *)
(* is left alone, and a restart ends a job only by the scope, the lifetime *)
(* or the controller id it brings: for all configurations an operator may  *)
(* deploy, in any order and any number.                                    *)
(***************************************************************************)
EXTENDS MCDeployment, FiniteSetTheorems, TLAPS

Statuses == {"none", "idle", "active", "offline"}

IsRunner(r) ==
    /\ r.status \in Statuses
    /\ r = [status |-> r.status, labels |-> r.labels, scope |-> r.scope]

FleetTypeOK ==
    /\ DOMAIN pool = Ids /\ pool = [i \in Ids |-> pool[i]]
    /\ state \in [Ids -> {"ready", "running", "finished"}]
    /\ machine \in [Ids -> BOOLEAN]
    /\ runner = [i \in Ids |-> runner[i]] /\ \A i \in Ids : IsRunner(runner[i])

\* A machine that outlives its row never had a job: it is left of a start.
LeftUnused ==
    \A i \in Ids : machine[i] /\ state[i] = "finished" =>
        runner[i].status \in {"none", "offline"}

Running == conf = <<>> \/ Accepted(conf)

FleetInv == FleetTypeOK /\ LeftUnused /\ Running

-----------------------------------------------------------------------------

LEMMA NoRunnerType == IsRunner(NoRunner) /\ NoRunner.status = "none"
BY DEF IsRunner, NoRunner, Statuses

LEMMA InitFleet == DeploymentInit => FleetInv
BY NoRunnerType DEF DeploymentInit, FleetInv, FleetTypeOK, LeftUnused, Running

\* What a step of a worker, a job or Forgejo does to one instance.
LEMMA OneInstance ==
    ASSUME FleetInv, NEW i \in Ids, NEW n, NEW s \in {"ready", "running", "finished"},
           NEW m \in BOOLEAN, NEW r, IsRunner(r), conf' = conf,
           pool' = [pool EXCEPT ![i] = n], state' = [state EXCEPT ![i] = s],
           machine' = [machine EXCEPT ![i] = m], runner' = [runner EXCEPT ![i] = r],
           m /\ s = "finished" => r.status \in {"none", "offline"}
    PROVE  FleetInv'
<1>1. /\ DOMAIN pool' = Ids /\ pool' = [j \in Ids |-> pool'[j]]
      /\ state' \in [Ids -> {"ready", "running", "finished"}]
      /\ machine' \in [Ids -> BOOLEAN]
  BY DEF FleetInv, FleetTypeOK
<1>2. runner' = [j \in Ids |-> IF j = i THEN r ELSE runner[j]]
  BY DEF FleetInv, FleetTypeOK
<1>3. \A j \in Ids : IsRunner(runner'[j])
  BY <1>2 DEF FleetInv, FleetTypeOK
<1>4. FleetTypeOK'
  BY <1>1, <1>2, <1>3 DEF FleetTypeOK, IsRunner
<1>5. LeftUnused'
  BY <1>2 DEF FleetInv, FleetTypeOK, LeftUnused
<1> QED BY <1>4, <1>5 DEF FleetInv, Running

\* An instance as it is, written as its own update.
LEMMA AsItIs ==
    ASSUME FleetTypeOK, NEW i \in Ids
    PROVE  /\ pool = [pool EXCEPT ![i] = pool[i]]
           /\ state = [state EXCEPT ![i] = state[i]]
           /\ machine = [machine EXCEPT ![i] = machine[i]]
           /\ runner = [runner EXCEPT ![i] = runner[i]]
           /\ state[i] \in {"ready", "running", "finished"}
           /\ machine[i] \in BOOLEAN
           /\ IsRunner(runner[i])
BY DEF FleetTypeOK

LEMMA WithStatus ==
    ASSUME NEW r, IsRunner(r), NEW st \in Statuses
    PROVE  /\ IsRunner([r EXCEPT !.status = st])
           /\ [r EXCEPT !.status = st].status = st
BY DEF IsRunner

LEMMA RetireFleet ==
    ASSUME FleetInv, NEW p, NEW i \in Ids, Retire(p, i) PROVE FleetInv'
<1>1. FleetTypeOK /\ IsRunner(runner[i])
  BY DEF FleetInv, FleetTypeOK
<1>2. IsRunner(RunnerAfter(p, i)) /\ RunnerAfter(p, i).status \in {"none", "offline"}
  BY <1>1, NoRunnerType, WithStatus DEF RunnerAfter, Statuses
<1> QED BY <1>1, <1>2, AsItIs, OneInstance DEF Retire, fileVars

LEMMA VisitFleet ==
    ASSUME FleetInv, NEW p \in Configured, NEW i \in Ids, Visit(p, i) PROVE FleetInv'
<1>1. CASE Retire(p, i)
  BY <1>1, RetireFleet
<1>2. CASE Follow(i)
  <2>1. FleetTypeOK
    BY DEF FleetInv
  <2>2. PICK s \in {"ready", "running"} : state' = [state EXCEPT ![i] = s]
    BY <1>2 DEF Follow
  <2>3. /\ conf' = conf /\ pool' = [pool EXCEPT ![i] = pool[i]]
        /\ machine' = [machine EXCEPT ![i] = machine[i]]
        /\ runner' = [runner EXCEPT ![i] = runner[i]]
        /\ machine[i] \in BOOLEAN /\ IsRunner(runner[i])
    BY <1>2, <2>1, AsItIs DEF Follow, fileVars, farmVars
  <2>4. s # "finished" /\ s \in {"ready", "running", "finished"}
    BY <2>2
  <2> QED BY ONLY FleetInv, <2>2, <2>3, <2>4, OneInstance
<1> QED BY <1>1, <1>2 DEF Visit, Observe, ScaleDown

LEMMA RunnerGone ==
    ASSUME FleetInv, NEW i \in Ids, UNCHANGED <<conf, pool, state, machine>>,
           runner' = [runner EXCEPT ![i] = NoRunner]
    PROVE  FleetInv'
<1>1. FleetTypeOK
  BY DEF FleetInv
<1>2. /\ pool' = [pool EXCEPT ![i] = pool[i]]
      /\ state' = [state EXCEPT ![i] = state[i]]
      /\ machine' = [machine EXCEPT ![i] = machine[i]]
      /\ state[i] \in {"ready", "running", "finished"} /\ machine[i] \in BOOLEAN
  BY <1>1, AsItIs
<1> QED BY <1>2, NoRunnerType, OneInstance

LEMMA CollectFleet ==
    ASSUME FleetInv, NEW p \in Configured, NEW i \in Ids, Collect(p, i) PROVE FleetInv'
<1>1. FleetTypeOK /\ IsRunner(runner[i])
  BY DEF FleetInv, FleetTypeOK
<1>2. CASE CollectMachine(p, i)
  <2> DEFINE left == IF runner[i].status = "none" THEN runner[i]
                     ELSE [runner[i] EXCEPT !.status = "offline"]
  <2>1. IsRunner(left)
    BY <1>1, WithStatus DEF Statuses
  <2>2. /\ conf' = conf /\ machine' = [machine EXCEPT ![i] = FALSE]
        /\ runner' = [runner EXCEPT ![i] = left]
        /\ UNCHANGED <<pool, state>>
    BY <1>2 DEF CollectMachine, rowVars, fileVars
  <2> HIDE DEF left
  <2>3. /\ pool' = [pool EXCEPT ![i] = pool[i]]
        /\ state' = [state EXCEPT ![i] = state[i]]
        /\ state[i] \in {"ready", "running", "finished"}
    BY <1>1, <2>2, AsItIs
  <2> QED BY <2>1, <2>2, <2>3, OneInstance
<1>3. CASE CollectRunner(p, i)
  <2>1. /\ conf' = conf /\ runner' = [runner EXCEPT ![i] = NoRunner]
        /\ UNCHANGED <<pool, state, machine>>
    BY <1>3 DEF CollectRunner, rowVars, fileVars
  <2> QED BY <1>1, <2>1, RunnerGone
<1> QED BY <1>2, <1>3 DEF Collect

LEMMA StartFleet ==
    ASSUME FleetInv, NEW p \in Configured, NEW i \in Ids,
           Start(p, i) \/ StartFails(p, i)
    PROVE  FleetInv'
<1>1. FleetTypeOK
  BY DEF FleetInv
<1>2. CASE Start(p, i)
  <2> DEFINE new == [status |-> "idle", labels |-> p.labels, scope |-> p.scope]
  <2>1. IsRunner(new)
    BY DEF IsRunner, Statuses
  <2> QED BY <1>2, <2>1, OneInstance DEF Start, fileVars
<1>3. CASE StartFails(p, i)
  <2> DEFINE new == [status |-> "offline", labels |-> p.labels, scope |-> p.scope]
  <2>1. IsRunner(new) /\ new.status = "offline"
    BY DEF IsRunner, Statuses
  <2> HIDE DEF new
  <2>2. PICK m \in BOOLEAN, r \in BOOLEAN :
            /\ machine' = [machine EXCEPT ![i] = m]
            /\ runner' = [runner EXCEPT ![i] = IF r THEN new ELSE NoRunner]
    BY <1>3 DEF StartFails, new
  <2>3. /\ IsRunner(IF r THEN new ELSE NoRunner)
        /\ (IF r THEN new ELSE NoRunner).status \in {"none", "offline"}
    BY <2>1, NoRunnerType
  <2>4. /\ conf' = conf /\ pool' = [pool EXCEPT ![i] = p.name]
        /\ state' = [state EXCEPT ![i] = state[i]]
        /\ state[i] \in {"ready", "running", "finished"}
    BY <1>1, <1>3, AsItIs DEF StartFails, fileVars
  <2> QED BY <2>2, <2>3, <2>4, OneInstance
<1> QED BY <1>2, <1>3

LEMMA JobFleet ==
    ASSUME FleetInv, NEW i \in Ids, JobEnds(i) \/ \E j \in Jobs : Assign(j, i)
    PROVE  FleetInv'
<1>1. FleetTypeOK /\ IsRunner(runner[i])
  BY DEF FleetInv, FleetTypeOK
<1>2. CASE JobEnds(i)
  BY <1>2, RunnerGone DEF JobEnds, rowVars, fileVars
<1>3. CASE \E j \in Jobs : Assign(j, i)
  <2>1. /\ runner[i].status = "idle" /\ UNCHANGED <<conf, rowVars, machine>>
        /\ runner' = [runner EXCEPT ![i] = [runner[i] EXCEPT !.status = "active"]]
    BY <1>1, <1>3 DEF Assign, FleetTypeOK, fileVars
  <2>2. ~(machine[i] /\ state[i] = "finished")
    BY <2>1 DEF FleetInv, LeftUnused
  <2>3. IsRunner([runner[i] EXCEPT !.status = "active"])
    BY <1>1, WithStatus DEF Statuses
  <2>4. /\ conf' = conf /\ pool' = [pool EXCEPT ![i] = pool[i]]
        /\ state' = [state EXCEPT ![i] = state[i]]
        /\ machine' = [machine EXCEPT ![i] = machine[i]]
        /\ state[i] \in {"ready", "running", "finished"} /\ machine[i] \in BOOLEAN
    BY <1>1, <2>1, AsItIs DEF rowVars
  <2> QED BY <2>1, <2>2, <2>3, <2>4, OneInstance
<1> QED BY <1>2, <1>3

\* One step per action.
LEMMA StepFleet == FleetInv /\ [DeploymentNext]_dvars => FleetInv'
<1> SUFFICES ASSUME FleetInv, [DeploymentNext]_dvars PROVE FleetInv'
  OBVIOUS
<1>1. CASE \E file \in Offered : Deploy(file)
  <2>1. Accepted(conf') /\ UNCHANGED <<rowVars, runner, machine>>
    BY <1>1 DEF Deploy, farmVars
  <2> QED BY <2>1 DEF FleetInv, FleetTypeOK, LeftUnused, Running, rowVars
<1>2. CASE \E p \in Configured, i \in Ids :
              Visit(p, i) \/ Collect(p, i) \/ Start(p, i) \/ StartFails(p, i)
  BY <1>2, VisitFleet, CollectFleet, StartFleet
<1>3. CASE UNCHANGED <<conf, rowVars, runner, machine>>
  BY <1>3 DEF FleetInv, FleetTypeOK, LeftUnused, Running, rowVars
<1>4. CASE \E p \in Configured : Rest(p)
  BY <1>3, <1>4 DEF Rest, dvars, fileVars, farmVars
<1>5. CASE \E j \in Jobs : (\E wants \in RunsOn : Queue(j, wants)) \/ Cancel(j)
  BY <1>3, <1>5 DEF Queue, Cancel, fileVars, farmVars
<1>6. CASE \E i \in Ids : JobEnds(i) \/ \E j \in Jobs : Assign(j, i)
  BY <1>6, JobFleet
<1>7. CASE UNCHANGED dvars
  BY <1>3, <1>7 DEF dvars, fileVars, farmVars
<1>8. CASE \E i \in Ids : Ages(i)
  <2>1. UNCHANGED <<conf, pool, state, runner, machine>>
    BY <1>8 DEF Ages, fileVars, farmVars
  <2> QED BY <2>1 DEF FleetInv, FleetTypeOK, LeftUnused, Running
<1> QED BY <1>1, <1>2, <1>4, <1>5, <1>6, <1>7, <1>8 DEF DeploymentNext

\* Every reachable state satisfies the inductive invariant.
THEOREM FleetInvariant == DeploymentSpec => []FleetInv
BY InitFleet, StepFleet, PTL DEF DeploymentSpec

-----------------------------------------------------------------------------

\* The labels that come first are unique, so that one of them stands for a job.
LEMMA OneMatch ==
    ASSUME Accepted(conf), NEW j \in Jobs, NEW p \in Configured, NEW q \in Configured,
           j \in Waiting(p), j \in Waiting(q)
    PROVE  p = q
<1>1. PICK k \in DOMAIN conf, l \in DOMAIN conf : p = conf[k] /\ q = conf[l]
  BY DEF Configured
<1>2. p.labels[1] = job[j].labels[1] /\ q.labels[1] = job[j].labels[1]
  BY DEF Waiting, Matches
<1> DEFINE primary == [n \in DOMAIN conf |-> conf[n].labels[1]]
<1>3. Unique(primary)
  BY DEF Accepted
<1>4. primary[k] = primary[l]
  BY <1>1, <1>2
<1>5. k = l
  BY <1>3, <1>4 DEF Unique
<1> QED BY <1>1, <1>5

\* Two pools never start a machine each for one job, whatever is deployed.
THEOREM NoTwoPoolsForAJob == DeploymentSpec => []OnePoolPerJob
<1>1. ASSUME Running, NEW j \in Jobs
      PROVE  Cardinality({p \in Configured : j \in Waiting(p)}) <= 1
  <2> DEFINE S == {p \in Configured : j \in Waiting(p)}
  <2>1. CASE S = {}
    BY <2>1, FS_EmptySet
  <2>2. CASE S # {}
    <3>1. PICK p \in S : TRUE
      BY <2>2
    <3>2. Accepted(conf)
      BY <1>1, <3>1 DEF Running, Configured
    <3>3. \A q \in S : q = p
      BY <3>1, <3>2, OneMatch
    <3>4. S = {p}
      BY <3>1, <3>3
    <3>5. Cardinality({p}) = 1
      BY FS_Singleton
    <3> QED BY <3>4, <3>5
  <2> QED BY <2>1, <2>2
<1>2. FleetInv => OnePoolPerJob
  BY <1>1 DEF FleetInv, OnePoolPerJob
<1> QED BY <1>2, FleetInvariant, PTL

\* Of an instance whose pool is not configured only a job can change anything.
LEMMA Unvisited ==
    ASSUME FleetInv, DeploymentNext, NEW i \in Ids, ~Owned(i)
    PROVE  /\ state[i] # "finished" => state'[i] = state[i]
           /\ machine[i] => machine'[i]
           /\ runner[i].status \in {"idle", "offline"} => runner'[i] # NoRunner
<1>1. FleetTypeOK /\ IsRunner(runner[i])
  BY DEF FleetInv, FleetTypeOK
<1>2. runner[i] = NoRunner => runner[i].status = "none"
  BY NoRunnerType
<1>3. CASE UNCHANGED <<rowVars, runner, machine>>
  BY <1>2, <1>3 DEF rowVars
<1>4. ASSUME NEW p \in Configured, NEW k \in Ids,
             Visit(p, k) \/ Collect(p, k) \/ Start(p, k) \/ StartFails(p, k)
      PROVE  /\ state[i] # "finished" => state'[i] = state[i]
             /\ machine[i] => machine'[i]
             /\ runner[i].status \in {"idle", "offline"} => runner'[i] # NoRunner
  <2>1. CASE k = i
    <3>1. Start(p, i) \/ StartFails(p, i)
      BY <1>4, <2>1 DEF Owned, Visit, Collect, Observe, ScaleDown, CollectMachine,
         CollectRunner, Rows, InState, Stray, Managed, Abandoned
    <3>2. state[i] = "finished" /\ ~machine[i] /\ runner[i].status = "none"
      BY <1>2, <3>1 DEF Start, StartFails, Free
    <3> QED BY <3>2
  <2>2. CASE k # i
    <3>1. /\ state'[i] = state[i] /\ machine'[i] = machine[i] /\ runner'[i] = runner[i]
      BY <1>1, <1>4, <2>2 DEF FleetTypeOK, Visit, Collect, Start, StartFails, Observe,
         ScaleDown, Retire, Follow, CollectMachine, CollectRunner, rowVars, farmVars
    <3> QED BY <1>2, <3>1
  <2> QED BY <2>1, <2>2
<1>5. ASSUME NEW k \in Ids, JobEnds(k) \/ \E j \in Jobs : Assign(j, k)
      PROVE  /\ state'[i] = state[i] /\ machine'[i] = machine[i]
             /\ runner[i].status \in {"idle", "offline"} => runner'[i] # NoRunner
  <2>1. state'[i] = state[i] /\ machine'[i] = machine[i]
    BY <1>5 DEF JobEnds, Assign, rowVars
  <2>2. CASE k = i
    <3>1. CASE JobEnds(i)
      BY <2>1, <3>1 DEF JobEnds
    <3>2. CASE \E j \in Jobs : Assign(j, i)
      <4>1. runner'[i] = [runner[i] EXCEPT !.status = "active"]
        BY <1>1, <3>2 DEF Assign, FleetTypeOK
      <4> QED BY <1>1, <2>1, <4>1, NoRunnerType, WithStatus DEF Statuses
    <3> QED BY <1>5, <2>2, <3>1, <3>2
  <2>3. CASE k # i
    <3>1. runner'[i] = runner[i]
      BY <1>1, <1>5, <2>3 DEF JobEnds, Assign, FleetTypeOK
    <3> QED BY <1>2, <2>1, <3>1
  <2> QED BY <2>2, <2>3
<1>6. CASE DeploymentNext
  <2>1. CASE \E file \in Offered : Deploy(file)
    BY <1>3, <2>1 DEF Deploy, farmVars
  <2>2. CASE \E p \in Configured : Rest(p)
    BY <1>3, <2>2 DEF Rest, dvars, farmVars
  <2>3. CASE \E j \in Jobs : (\E wants \in RunsOn : Queue(j, wants)) \/ Cancel(j)
    BY <1>3, <2>3 DEF Queue, Cancel, farmVars
  <2>4. CASE \E k \in Ids : Ages(k)
    BY <1>2, <2>4 DEF Ages, farmVars
  <2> QED BY <1>4, <1>5, <1>6, <2>1, <2>2, <2>3, <2>4 DEF DeploymentNext
<1> QED BY <1>6

\* No worker touches what belongs to a pool that is not configured, for every
\* set of configurations and every way to share scopes and labels.
THEOREM UnconfiguredStays == DeploymentSpec => UnconfiguredKept
<1>1. FleetInv /\ [DeploymentNext]_dvars =>
          [\A i \in Ids : ~Owned(i) =>
               /\ state[i] # "finished" => state'[i] = state[i]
               /\ machine[i] => machine'[i]
               /\ runner[i].status \in {"idle", "offline"} => runner'[i] # NoRunner]_dvars
  BY Unvisited
<1> QED BY <1>1, FleetInvariant, PTL DEF DeploymentSpec, UnconfiguredKept

-----------------------------------------------------------------------------

\* What the file the process runs with may end a job by.
LetsEnd(i) ==
    \/ maker[i] # controller
    \/ \E p \in Configured :
           /\ p.name = pool[i]
           /\ p.scope # runner[i].scope \/ age[i] >= p.maxLifetime

\* A machine is deleted with its row, or when it has none; the latter never
\* had a job.
LEMMA MachineEnds ==
    ASSUME FleetInv, DeploymentNext, NEW i \in Ids,
           runner[i].status = "active", machine[i], ~machine'[i]
    PROVE  state[i] = "ready" \/ LetsEnd(i)
<1>1. FleetTypeOK
  BY DEF FleetInv
<1>2. PICK p \in Configured, k \in Ids :
          Visit(p, k) \/ Collect(p, k) \/ Start(p, k) \/ StartFails(p, k)
  BY DEF DeploymentNext, Deploy, Rest, dvars, Queue, Cancel, Assign, JobEnds, Ages, farmVars
<1>3. k = i
  BY <1>1, <1>2 DEF FleetTypeOK, Visit, Collect, Start, StartFails, Observe,
     ScaleDown, Retire, Follow, CollectMachine, CollectRunner, rowVars, farmVars
<1>4. CASE ScaleDown(p, i)
  BY <1>4 DEF ScaleDown, InState
<1>5. CASE Observe(p, i)
  <2>1. i \in Rows(p) /\ (i \notin Managed(p) \/ Expired(p, i) \/ JobOver(p, i))
    BY <1>5 DEF Observe, Follow, farmVars
  <2>2. pool[i] = p.name
    BY <2>1 DEF Rows
  <2>3. i \notin Managed(p) => maker[i] # controller
    BY <2>2 DEF Managed
  <2>4. Expired(p, i) => age[i] >= p.maxLifetime
    BY DEF Expired
  <2>5. JobOver(p, i) => p.scope # runner[i].scope
    BY DEF JobOver, Known
  <2> QED BY <2>1, <2>2, <2>3, <2>4, <2>5 DEF LetsEnd
<1>6. CASE CollectMachine(p, i)
  <2>1. state[i] = "finished"
    BY <1>6 DEF CollectMachine, Stray, Managed, Rows
  <2> QED BY <2>1 DEF FleetInv, LeftUnused
<1>7. CASE CollectRunner(p, i) \/ Start(p, i) \/ StartFails(p, i)
  BY <1>7 DEF CollectRunner, rowVars, Start, StartFails, Free
<1> QED BY <1>2, <1>3, <1>4, <1>5, <1>6, <1>7 DEF Visit, Collect

\* However often the configuration changes, a machine is deleted under a running
\* job only for a scope, a lifetime or a controller id that the file in force
\* gives, or when the job began after its row was last observed.
THEOREM JobsOutliveRestarts == DeploymentSpec => ActiveJobKept
<1>1. FleetInv /\ [DeploymentNext]_dvars =>
          [\A i \in Ids : runner[i].status = "active" /\ machine[i] /\ ~machine'[i] =>
               \/ state[i] = "ready"
               \/ maker[i] # controller
               \/ \E p \in Configured :
                      /\ p.name = pool[i]
                      /\ p.scope # runner[i].scope \/ age[i] >= p.maxLifetime]_dvars
  BY MachineEnds DEF LetsEnd
<1> QED BY <1>1, FleetInvariant, PTL DEF DeploymentSpec, ActiveJobKept
=============================================================================
