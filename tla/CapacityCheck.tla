--------------------------- MODULE CapacityCheck ---------------------------
(***************************************************************************)
(* NeededFor against a definition of what it is for, over every demand     *)
(* within a bound.  A behaviour is one demand.                             *)
(***************************************************************************)
EXTENDS Capacity, FiniteSets

CONSTANT Bound          \* largest value of a field of the demand

ASSUME BoundAssumption == Bound \in Nat \ {0}

VARIABLE demand

Demands == [waiting : 0 .. Bound, minIdle : 0 .. Bound,
            maxInstances : 1 .. Bound, maxProvisioning : 1 .. Bound,
            ready : 0 .. Bound, provisioning : 0 .. Bound,
            instances : 0 .. Bound]

\* The rows counted ready or bootstrapping are among the instances.
Init == demand \in {d \in Demands : d.ready + d.provisioning <= d.instances}

Next == UNCHANGED demand

Spec == Init /\ [][Next]_demand

\* n more starts are justified: each is asked for and within both limits.
Justified(d, n) ==
    /\ d.ready + d.provisioning + n <= d.waiting + d.minIdle
    /\ d.instances + n <= d.maxInstances
    /\ d.provisioning + n <= d.maxProvisioning

\* The scheduler asks for the largest number of starts that are justified, and
\* for none when even one is not: also when the limits were lowered below what
\* already exists.
NeededIsLargest ==
    LET n == NeededFor(demand)
    IN  /\ n \in Nat
        /\ n > 0 => Justified(demand, n)
        /\ ~Justified(demand, n + 1)
=============================================================================
