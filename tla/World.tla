------------------------------- MODULE World -------------------------------
(***************************************************************************)
(* What the controller does not own: the ephemeral runners registered in   *)
(* Forgejo, the virtual machines in Incus and the jobs waiting for the     *)
(* pool.  One runner and one machine at most exist per instance ID, since  *)
(* an ID registers and creates once.                                       *)
(*                                                                         *)
(* A runner is offline until the machine whose configuration was pushed    *)
(* connects.  It takes one job; when the job ends it is removed by         *)
(* Forgejo, possibly after it was seen idle once more ("spent").  Of a     *)
(* runner at work the model also keeps whether the controller has read its *)
(* status since the job began ("seen"); to Forgejo both are active.        *)
(*                                                                         *)
(* A machine under creation ("pending") is an operation Incus has          *)
(* accepted: it goes on when the client stops waiting for it, or dies.  A  *)
(* machine that was given its runner configuration and does not run the    *)
(* runner any more is "stopped"; it never starts again.                    *)
(***************************************************************************)
EXTENDS Lifecycle, Naturals

CONSTANT MaxJobs    \* bound on the jobs waiting at a time

VARIABLES
    runner,         \* runner[i]: the registration made for instance i
    vm,             \* vm[i]: the machine created for instance i
    jobs            \* jobs of the pool's labels with status waiting

worldVars == <<runner, vm, jobs>>

RunnerStates == {"none", "offline", "idle", "active", "seen", "spent"}

VMStates == {"none", "pending", "up", "configured", "stopped"}

WorldTypeOK ==
    /\ runner \in [Ids -> RunnerStates]
    /\ vm \in [Ids -> VMStates]
    /\ jobs \in 0 .. MaxJobs

WorldInit ==
    /\ runner = [i \in Ids |-> "none"]
    /\ vm = [i \in Ids |-> "none"]
    /\ jobs = 0

\* The status Forgejo reports; a runner that is gone answers not found.
Status(i) ==
    CASE runner[i] = "none"  -> "not_found"
      [] runner[i] = "spent" -> "idle"
      [] runner[i] = "seen"  -> "active"
      [] OTHER               -> runner[i]

\* The runner runs a job.
AtWork(i) == runner[i] \in {"active", "seen"}

Connected(i) == runner[i] = "idle" \/ AtWork(i)

\* The machines Managed lists, and those Delete can find.
Machine(i) == vm[i] \in {"up", "configured", "stopped"}

\* Those that were given their runner configuration.
Configured(i) == vm[i] \in {"configured", "stopped"}

Registered(i) == runner[i] # "none"

-----------------------------------------------------------------------------
(* Calls of the controller.                                                *)

Register(i) == runner' = [runner EXCEPT ![i] = "offline"]

DeleteRunner(i) == runner' = [runner EXCEPT ![i] = "none"]

RequestVM(i) == vm' = [vm EXCEPT ![i] = "pending"]

PushConfig(i) == vm' = [vm EXCEPT ![i] = "configured"]

\* A connected runner whose machine disappears is reported offline.
Disconnected(i) ==
    IF Connected(i)
    THEN [runner EXCEPT ![i] = "offline"] ELSE runner

\* Delete succeeds without effect when Incus does not know the machine (yet).
DeleteVM(i) ==
    IF Machine(i)
    THEN vm' = [vm EXCEPT ![i] = "none"] /\ runner' = Disconnected(i)
    ELSE UNCHANGED <<vm, runner>>

\* Delete first stops a machine that runs; what comes after may fail.
StopVM(i) ==
    /\ Configured(i)
    /\ vm' = [vm EXCEPT ![i] = "stopped"] /\ runner' = Disconnected(i)

\* What a deletion has done when it fails, or its answer is lost.
DeleteVMFails(i) == DeleteVM(i) \/ StopVM(i) \/ UNCHANGED <<vm, runner>>

\* The controller is told that a runner is at work.
SeeAtWork(i) ==
    /\ AtWork(i)
    /\ runner' = [runner EXCEPT ![i] = "seen"]

-----------------------------------------------------------------------------
(* Steps of the outside.                                                   *)

\* Incus completes a creation it accepted, whoever still waits for it.
VMAppears(i) ==
    /\ vm[i] = "pending"
    /\ vm' = [vm EXCEPT ![i] = "up"]
    /\ UNCHANGED <<runner, jobs>>

CreationFails(i) ==
    /\ vm[i] = "pending"
    /\ vm' = [vm EXCEPT ![i] = "none"]
    /\ UNCHANGED <<runner, jobs>>

RunnerConnects(i) ==
    /\ vm[i] = "configured" /\ runner[i] = "offline"
    /\ runner' = [runner EXCEPT ![i] = "idle"]
    /\ UNCHANGED <<vm, jobs>>

JobStarts(i) ==
    /\ runner[i] = "idle" /\ jobs > 0
    /\ runner' = [runner EXCEPT ![i] = "active"]
    /\ jobs' = jobs - 1
    /\ UNCHANGED vm

JobEnds(i) ==
    /\ AtWork(i)
    /\ runner' = [runner EXCEPT ![i] = "spent"]
    /\ UNCHANGED <<vm, jobs>>

RunnerExpires(i) ==
    /\ runner[i] = "spent"
    /\ runner' = [runner EXCEPT ![i] = "none"]
    /\ UNCHANGED <<vm, jobs>>

\* The machine is destroyed.
VMLost(i) ==
    /\ Machine(i)
    /\ vm' = [vm EXCEPT ![i] = "none"]
    /\ runner' = Disconnected(i)
    /\ UNCHANGED jobs

\* The runner's process stops for good, the machine stays.
RunnerDrops(i) ==
    /\ Connected(i)
    /\ vm' = [vm EXCEPT ![i] = "stopped"]
    /\ runner' = Disconnected(i)
    /\ UNCHANGED jobs

JobQueued ==
    /\ jobs < MaxJobs
    /\ jobs' = jobs + 1
    /\ UNCHANGED <<runner, vm>>
=============================================================================
