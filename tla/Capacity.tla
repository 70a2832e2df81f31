------------------------------ MODULE Capacity ------------------------------
(***************************************************************************)
(* internal/scheduler: how many instances a pool should start.  A demand   *)
(* is what the scheduler is told: the jobs waiting, the pool's limits and  *)
(* the counts of its non-finished rows.                                    *)
(***************************************************************************)
EXTENDS Integers

\* The smaller of two integers (Go's min).
Least(a, b) == IF a <= b THEN a ELSE b

Demand(waiting, minIdle, maxInstances, maxProvisioning, ready, provisioning, instances) ==
    [waiting |-> waiting, minIdle |-> minIdle,
     maxInstances |-> maxInstances, maxProvisioning |-> maxProvisioning,
     ready |-> ready, provisioning |-> provisioning, instances |-> instances]

\* A slip: the starts in progress do not limit the new ones.
NeededForUncappedStarts(d) ==
    LET needed    == d.waiting + d.minIdle - d.ready - d.provisioning
        instances == d.maxInstances - d.instances
    IN  IF needed <= 0 \/ instances <= 0 THEN 0 ELSE Least(needed, instances)

\* A slip: the instances still bootstrapping are not taken off the demand.
NeededForIgnoringStarts(d) ==
    LET needed       == d.waiting + d.minIdle - d.ready
        instances    == d.maxInstances - d.instances
        provisioning == d.maxProvisioning - d.provisioning
    IN  IF needed <= 0 \/ instances <= 0 \/ provisioning <= 0
        THEN 0
        ELSE Least(Least(needed, instances), provisioning)

\* NeededFor, with its early returns in the order of the code.
NeededFor(d) ==
    LET needed       == d.waiting + d.minIdle - d.ready - d.provisioning
        instances    == d.maxInstances - d.instances
        provisioning == d.maxProvisioning - d.provisioning
    IN  IF needed <= 0 \/ instances <= 0 \/ provisioning <= 0
        THEN 0
        ELSE Least(Least(needed, instances), provisioning)
=============================================================================
