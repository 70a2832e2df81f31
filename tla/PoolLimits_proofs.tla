------------------------- MODULE PoolLimits_proofs -------------------------
(***************************************************************************)
(* The limits of a pool hold for any number of instances, whatever crashes *)
(* and failures do, and its circuit implements BootstrapPolicy.  What the  *)
(* limits and the policy read of a step is told once, in StepShape.  The   *)
(* calls of a pass are bounded too, since each of its own takes an         *)
(* instance nearer to its end, and no row is passed over on the way.       *)
(***************************************************************************)
EXTENDS PoolSafety_proofs

\* What most steps keep of an instance: no row appears, none comes back, no
\* start begins, a result is that of a row.
KeepsInstance(i) ==
    /\ state'[i] = Absent <=> state[i] = Absent
    /\ state[i] = "finished" => state'[i] = "finished"
    /\ state'[i] = "bootstrapping" => state[i] = "bootstrapping"
    /\ step'[i] = "insert" <=> step[i] = "insert"
    /\ step'[i] \in ProvisionSteps => step[i] \in ProvisionSteps
    /\ step'[i] = "ok" => step[i] = "ok" \/ state'[i] # Absent

Keeps ==
    /\ UNCHANGED <<attempts, pause, won>>
    /\ \A i \in Ids : KeepsInstance(i)

\* A start reaches the store: its row is inserted, or it is over.
Inserts(i) ==
    /\ UNCHANGED <<attempts, pause, won>>
    /\ step[i] = "insert" /\ state[i] = Absent
    /\ \/ state'[i] = "bootstrapping" /\ step'[i] = "register"
       \/ state'[i] = Absent /\ step'[i] = "err"
    /\ \A j \in Ids \ {i} : state'[j] = state[j] /\ step'[j] = step[j]

LEMMA UnchangedKeeps ==
    ASSUME UNCHANGED <<state, step, attempts, pause, won>>
    PROVE  Keeps
BY DEF Keeps, KeepsInstance

LEMMA InsertShape ==
    ASSUME IInv, NEW i \in Ids, ProvisionInsert(i)
    PROVE  Inserts(i)
<1>1. state \in [Ids -> States \union {Absent}] /\ step \in [Ids -> Steps]
  BY DEF IInv, TypeOK, StoreTypeOK, WorkTypeOK
<1>2. state[i] = Absent
  BY DEF ProvisionInsert, IInv, RowFits
<1> QED BY <1>1, <1>2 DEF ProvisionInsert, Create, WriteState, Goto, Returns, Inserts,
        rowVars, circuitVars, resultVars

LEMMA WorkShape ==
    ASSUME IInv, NEW i \in Ids, Work(i), ~ProvisionInsert(i)
    PROVE  Keeps
<1>1. state \in [Ids -> States \union {Absent}] /\ step \in [Ids -> Steps]
  BY DEF IInv, TypeOK, StoreTypeOK, WorkTypeOK
<1>2. Fits(i)
  BY DEF IInv, RowFits, Fits
<1>3. UNCHANGED <<attempts, pause, won>>
  BY DEF Work, CleanRunner, CleanMachine, CleanPostpone, CleanFinish, ProvisionInsert,
     ProvisionRegister, ProvisionRecord, ProvisionRequest, ProvisionVerify,
     ProvisionBoot, ProvisionAwait, UndoBegin, UndoRunner, UndoVM, UndoEnd,
     circuitVars, resultVars
<1>19. \A j \in Ids \ {i} : KeepsInstance(j)
  <2>1. OwnWork(i)
    BY WorkIsOwn
  <2> QED BY <2>1 DEF OwnWork, KeepsInstance
<1>20. KeepsInstance(i)
  <2> USE <1>1, <1>2 DEF Fits, ProvisionSteps, UndoSteps, CleanupSteps, Goto, Returns,
          rowVars, WriteState, Absent, KeepsInstance
  <2>4. CASE CleanRunner(i)
    BY <2>4 DEF CleanRunner
  <2>5. CASE CleanMachine(i)
    BY <2>5 DEF CleanMachine
  <2>6. CASE CleanPostpone(i)
    BY <2>6 DEF CleanPostpone, Retry
  <2>7. CASE CleanFinish(i)
    BY <2>7 DEF CleanFinish, FinishCleanup
  <2>9. CASE ProvisionRegister(i)
    BY <2>9 DEF ProvisionRegister, Fail
  <2>10. CASE ProvisionRecord(i)
    BY <2>10 DEF ProvisionRecord, SetRegistration, Fail
  <2>11. CASE ProvisionRequest(i)
    BY <2>11 DEF ProvisionRequest, Fail
  <2>12. CASE ProvisionVerify(i)
    BY <2>12 DEF ProvisionVerify, GivesUp, Fail
  <2>13. CASE ProvisionBoot(i)
    BY <2>13 DEF ProvisionBoot, GivesUp, Fail
  <2>14. CASE ProvisionAwait(i)
    BY <2>14 DEF ProvisionAwait, StartCleanup, BeginCleanup, SetOperationalState, GivesUp, Fail
  <2>15. CASE UndoBegin(i)
    BY <2>15 DEF UndoBegin, BeginCleanup
  <2>16. CASE UndoRunner(i)
    BY <2>16 DEF UndoRunner
  <2>17. CASE UndoVM(i)
    BY <2>17 DEF UndoVM
  <2>18. CASE UndoEnd(i)
    BY <2>18 DEF UndoEnd, FinishCleanup, Retry
  <2> QED BY <2>4, <2>5, <2>6, <2>7, <2>9, <2>10, <2>11, <2>12, <2>13, <2>14,
             <2>15, <2>16, <2>17, <2>18 DEF Work
<1> QED BY <1>3, <1>19, <1>20 DEF Keeps

LEMMA VisitShape ==
    ASSUME IInv, NEW i \in Ids, Visit(i), ~Collect(i)
    PROVE  Keeps
<1>1. state \in [Ids -> States \union {Absent}] /\ step \in [Ids -> Steps]
  BY DEF IInv, TypeOK, StoreTypeOK, WorkTypeOK
<1>2. CASE RetireMissing(i) \/ VisitRetire(i) \/ ScaleDown(i)
  <2>1. PICK why : PassCleanup(i, why)
    BY <1>2 DEF RetireMissing, VisitRetire, ScaleDown
  <2>2. CASE UNCHANGED <<rowVars, workVars>>
    BY <2>1, <2>2, UnchangedKeeps DEF PassCleanup, rowVars, workVars, circuitVars, resultVars
  <2>3. CASE StartCleanup(i, why, snap[i].registered)
    <3>1. Quiet
      BY <1>2 DEF RetireMissing, VisitRetire, ScaleDown
    <3> QED BY <1>1, <2>1, <2>3, <3>1 DEF PassCleanup, StartCleanup, BeginCleanup, WriteState,
               AcceptsState, CanTransition, Goto, Keeps, KeepsInstance, Absent,
               ProvisionSteps, circuitVars, resultVars, Quiet
  <2> QED BY <2>1, <2>2, <2>3 DEF PassCleanup
<1>3. CASE VisitObserve(i)
  <2>1. /\ UNCHANGED <<step, attempts, pause, won>>
        /\ \/ UNCHANGED state
           \/ \E s \in {"ready", "running"} : SetOperationalState(i, s)
    BY <1>3 DEF VisitObserve, rowVars, workVars, circuitVars, resultVars
  <2>2. \A s \in {"ready", "running"} : SetOperationalState(i, s) => Keeps
    BY <1>1, <2>1 DEF SetOperationalState, WriteState, AcceptsState, CanTransition, Keeps,
       KeepsInstance, Absent
  <2> QED BY <2>1, <2>2, UnchangedKeeps
<1>4. CASE CleanupReturns(i)
  BY <1>1, <1>4 DEF CleanupReturns, Goto, rowVars, circuitVars, resultVars, Keeps,
     KeepsInstance, ProvisionSteps
<1>5. CASE \/ DeleteOrphanVM(i) \/ DeleteOrphanRunner(i) \/ VisitPostponed(i)
           \/ ScaleDownSkip(i)
  BY <1>5, UnchangedKeeps DEF DeleteOrphanVM, DeleteOrphanRunner, VisitPostponed,
     ScaleDownSkip, rowVars, workVars, circuitVars, resultVars
<1> QED BY <1>2, <1>3, <1>4, <1>5 DEF Visit

\* Every step, by what it does to the starts and to the circuit.
LEMMA StepShape ==
    ASSUME IInv, [Next]_vars
    PROVE  \/ Keeps
           \/ \E i \in Ids : Inserts(i) \/ Collect(i)
           \/ StartProvisioning \/ Settle \/ Crash \/ PauseEnds
<1>1. CASE UNCHANGED vars
  BY <1>1, UnchangedKeeps DEF vars, rowVars, circuitVars, workVars, resultVars
<1>2. ASSUME NEW i \in Ids, Work(i) PROVE Keeps \/ Inserts(i)
  BY <1>2, WorkShape, InsertShape
<1>3. ASSUME NEW i \in Ids, Visit(i) PROVE Keeps \/ Collect(i)
  BY <1>3, VisitShape
<1>4. CASE \/ StartPass \/ ListManaged \/ OrphanVMsDone \/ ListRunners
           \/ ListInstances \/ FetchJobs \/ NothingNeeded \/ PassCallFails
  BY <1>4, UnchangedKeeps DEF StartPass, ListManaged, OrphanVMsDone, ListRunners,
     ListInstances, FetchJobs, NothingNeeded, PassCallFails, rowVars, circuitVars,
     workVars, resultVars
<1>5. CASE Queue \/ \E i \in Ids : Clock(i) \/ Outside(i) \/ Damage(i)
  BY <1>5, UnchangedKeeps DEF Queue, Clock, RetryDue, Age, Outside, Damage, rowVars,
     circuitVars, workVars, resultVars
<1> QED BY <1>1, <1>2, <1>3, <1>4, <1>5 DEF Next, Pass

-----------------------------------------------------------------------------
(* The limits.                                                             *)

\* A smaller set of instances counts less.
LEMMA CountsGrow ==
    ASSUME NEW T \in SUBSET Ids, NEW S \in SUBSET T
    PROVE  /\ Cardinality(S) \in Nat /\ Cardinality(T) \in Nat
           /\ Cardinality(S) <= Cardinality(T)
BY CountsAreNaturals, BoundsAssumption, FS_Subset

\* Instances added to others count at most once each.
LEMMA CountsAdd ==
    ASSUME NEW S \in SUBSET Ids, NEW T \in SUBSET Ids
    PROVE  /\ Cardinality(S \union T) \in Nat
           /\ Cardinality(S \union T) <= Cardinality(S) + Cardinality(T)
<1>1. IsFiniteSet(S) /\ IsFiniteSet(T)
  BY BoundsAssumption, FS_Subset
<1>2. Cardinality(S \union T) = Cardinality(S) + Cardinality(T) - Cardinality(S \intersect T)
  BY <1>1, FS_Union
<1>3. /\ Cardinality(S) \in Nat /\ Cardinality(T) \in Nat
      /\ Cardinality(S \intersect T) \in Nat /\ Cardinality(S \union T) \in Nat
  BY CountsAreNaturals
<1> QED BY <1>2, <1>3

\* What a pass starts fits under both limits.
LEMMA NeededFits ==
    ASSUME waiting \in Nat, Needed > 0
    PROVE  /\ Needed + Cardinality(Live) <= MaxInstances
           /\ Needed + Cardinality(InState("bootstrapping")) <= MaxProvisioning
<1>1. /\ Cardinality(InState("ready")) \in Nat
      /\ Cardinality(InState("bootstrapping")) \in Nat
      /\ Cardinality(Live) \in Nat
  BY CountsAreNaturals DEF InState, Live
<1> DEFINE d == Demand(waiting, MinIdle, MaxInstances, MaxProvisioning,
                       Cardinality(InState("ready")),
                       Cardinality(InState("bootstrapping")),
                       Cardinality(Live))
<1>2. /\ d \in [waiting : Nat, minIdle : Nat, maxInstances : Nat,
                maxProvisioning : Nat, ready : Nat, provisioning : Nat,
                instances : Nat]
      /\ d.maxInstances = MaxInstances /\ d.maxProvisioning = MaxProvisioning
      /\ d.provisioning = Cardinality(InState("bootstrapping"))
      /\ d.instances = Cardinality(Live)
  BY <1>1, ScalingAssumption DEF Demand
<1>3. NeededFor(d) > 0
  BY DEF Needed
<1> HIDE DEF d
<1>4. NeededFor(d) + d.instances <= d.maxInstances
      /\ NeededFor(d) + d.provisioning <= d.maxProvisioning
  BY <1>2, <1>3 DEF NeededFor, Least
<1> QED BY <1>2, <1>4 DEF Needed, d

\* The starts of a pass: as many as the circuit granted, or as there are fresh
\* IDs for, each on an instance without a row.
LEMMA StartsGranted ==
    ASSUME IInv, StartProvisioning
    PROVE  LET grant == Reserve(attempts, pause, Needed, AttemptLimit)
           IN  /\ attempts' = grant.attempts /\ pause' = grant.pause
               /\ UNCHANGED <<state, won>>
               /\ grant.count \in 0 .. Needed
               /\ Starting = {} /\ Inserting = {}
               /\ \A i \in Ids : step'[i] \in {"none", "insert"}
               /\ Starting' = Inserting'
               /\ \A i \in Inserting' : state[i] = Absent
               /\ Cardinality(Inserting') \in 0 .. grant.count
<1> DEFINE grant == Reserve(attempts, pause, Needed, AttemptLimit)
           spawned == Least(grant.count, Cardinality(Fresh))
<1>1. /\ \A i \in Ids : step[i] = "none"
      /\ Needed \in Nat /\ Needed > 0
      /\ attempts \in 0 .. AttemptLimit /\ pause \in Pauses
  BY NeededType, BoundsAssumption DEF StartProvisioning, ScaledDown, Quiet, IInv, TypeOK, PassTypeOK, CountersTypeOK
<1>2. grant.count \in 0 .. Needed
  BY <1>1, ScalingAssumption DEF Reserve, Least, Pauses
<1>3. spawned \in 0 .. grant.count
  BY <1>2, CountsAreNaturals DEF Least, Fresh
<1>4. Starting = {} /\ Inserting = {}
  BY <1>1 DEF Starting, Inserting, ProvisionSteps
<1>5. PICK starts \in SUBSET Fresh :
          /\ \A i \in Ids : step'[i] = IF i \in starts THEN "insert" ELSE "none"
          /\ Cardinality(starts) \in 0 .. grant.count
  <2>1. CASE UNCHANGED step
    <3>1. Cardinality({}) \in 0 .. grant.count
      BY <1>2, <1>1, FS_EmptySet
    <3>2. {} \in SUBSET Fresh /\ \A i \in Ids : step'[i] = IF i \in {} THEN "insert" ELSE "none"
      BY <1>1, <2>1
    <3> QED BY <3>1, <3>2
  <2>2. CASE \E starts \in SUBSET Fresh :
                /\ Cardinality(starts) = spawned
                /\ step' = [i \in Ids |-> IF i \in starts THEN "insert" ELSE step[i]]
    BY <1>1, <1>3, <2>2
  <2> QED BY <2>1, <2>2 DEF StartProvisioning
<1>6. Inserting' = starts /\ Starting' = starts
  BY <1>5 DEF Inserting, Starting, ProvisionSteps, Fresh
<1>7. /\ \A i \in Ids : step'[i] \in {"none", "insert"}
      /\ \A i \in Inserting' : state[i] = Absent
  BY <1>5, <1>6 DEF Fresh
<1>8. /\ attempts' = grant.attempts /\ pause' = grant.pause
      /\ UNCHANGED <<state, won>>
  BY DEF StartProvisioning, rowVars
<1> QED BY <1>2, <1>4, <1>5, <1>6, <1>7, <1>8

LEMMA PlannedInit == Init => Planned
<1> SUFFICES ASSUME Init PROVE Planned
  OBVIOUS
<1>1. Live \union Inserting = {} /\ InState("bootstrapping") \union Inserting = {}
  BY DEF Init, StoreInit, Live, InState, Inserting, Absent
<1> QED BY <1>1, FS_EmptySet, ScalingAssumption DEF Planned

LEMMA PlannedStep ==
    ASSUME IInv, Planned, [Next]_vars
    PROVE  Planned'
<1>1. /\ Live \union Inserting \in SUBSET Ids
      /\ InState("bootstrapping") \union Inserting \in SUBSET Ids
  BY DEF Live, InState, Inserting
<1>2. ASSUME Live' \union Inserting' \subseteq Live \union Inserting,
             InState("bootstrapping")' \union Inserting'
                 \subseteq InState("bootstrapping") \union Inserting
      PROVE  Planned'
  <2>1. /\ Cardinality(Live' \union Inserting') <= Cardinality(Live \union Inserting)
        /\ Cardinality(Live' \union Inserting') \in Nat
        /\ Cardinality(Live \union Inserting) \in Nat
    BY <1>1, <1>2, CountsGrow
  <2>2. /\ Cardinality(InState("bootstrapping")' \union Inserting')
               <= Cardinality(InState("bootstrapping") \union Inserting)
        /\ Cardinality(InState("bootstrapping")' \union Inserting') \in Nat
        /\ Cardinality(InState("bootstrapping") \union Inserting) \in Nat
    BY <1>1, <1>2, CountsGrow
  <2> QED BY <2>1, <2>2, ScalingAssumption DEF Planned
<1>3. CASE Keeps
  BY <1>2, <1>3 DEF Keeps, KeepsInstance, Live, InState, Inserting
<1>4. CASE \E i \in Ids : Inserts(i)
  BY <1>2, <1>4 DEF Inserts, Live, InState, Inserting, Absent
<1>5. CASE (\E i \in Ids : Collect(i)) \/ Settle \/ Crash \/ PauseEnds
  <2>1. state \in [Ids -> States \union {Absent}] /\ step \in [Ids -> Steps]
    BY DEF IInv, TypeOK, StoreTypeOK, WorkTypeOK
  <2>2. UNCHANGED state /\ \A i \in Ids : step'[i] \in {"none", step[i]}
    BY <1>5, <2>1 DEF Collect, Settle, Crash, PauseEnds, rowVars, workVars, Goto
  <2> QED BY <1>2, <2>2 DEF Live, InState, Inserting
<1>6. CASE StartProvisioning
  <2> DEFINE grant == Reserve(attempts, pause, Needed, AttemptLimit)
  <2>1. /\ UNCHANGED state
        /\ grant.count \in 0 .. Needed
        /\ Cardinality(Inserting') \in 0 .. grant.count
    BY <1>6, StartsGranted
  <2>2. Needed > 0 /\ Needed \in Nat /\ waiting \in Nat
    BY <1>6, NeededType, BoundsAssumption DEF StartProvisioning, IInv, TypeOK, PassTypeOK
  <2>3. /\ Needed + Cardinality(Live) <= MaxInstances
        /\ Needed + Cardinality(InState("bootstrapping")) <= MaxProvisioning
    BY <2>2, NeededFits
  <2>4. Live' = Live /\ InState("bootstrapping")' = InState("bootstrapping")
    BY <2>1 DEF Live, InState
  <2>5. /\ Cardinality(Live \union Inserting')
               <= Cardinality(Live) + Cardinality(Inserting')
        /\ Cardinality(Live \union Inserting') \in Nat
        /\ Cardinality(InState("bootstrapping") \union Inserting')
               <= Cardinality(InState("bootstrapping")) + Cardinality(Inserting')
        /\ Cardinality(InState("bootstrapping") \union Inserting') \in Nat
        /\ Cardinality(Live) \in Nat /\ Cardinality(InState("bootstrapping")) \in Nat
    BY CountsAdd, CountsAreNaturals DEF Live, InState, Inserting
  <2> HIDE DEF grant
  <2>6. /\ Cardinality(Live \union Inserting') <= MaxInstances
        /\ Cardinality(InState("bootstrapping") \union Inserting') <= MaxProvisioning
    BY <2>1, <2>2, <2>3, <2>5, ScalingAssumption
  <2>7. /\ (Live \union Inserting)' = Live \union Inserting'
        /\ (InState("bootstrapping") \union Inserting)'
               = InState("bootstrapping") \union Inserting'
    BY <2>4
  <2> QED BY <2>6, <2>7 DEF Planned
<1> QED BY <1>3, <1>4, <1>5, <1>6, StepShape

LEMMA AlwaysPlanned == Spec => [](IInv /\ Planned)
<1>1. IInv /\ Planned /\ [Next]_vars => Planned'
  BY PlannedStep
<1> QED BY <1>1, PlannedInit, Inductive, PTL DEF Spec

\* The rows of a pool never outnumber max_instances: starts count before their
\* rows are there, and a row only stops to count when it is finished.
THEOREM InstancesCapped == Spec => []CapacityRespected
<1>1. Planned => CapacityRespected
  <2>1. Live \in SUBSET (Live \union Inserting) /\ Live \union Inserting \in SUBSET Ids
    BY DEF Live, Inserting
  <2>2. /\ Cardinality(Live) <= Cardinality(Live \union Inserting)
        /\ Cardinality(Live) \in Nat /\ Cardinality(Live \union Inserting) \in Nat
    BY <2>1, CountsGrow
  <2> QED BY <2>2, ScalingAssumption DEF Planned, CapacityRespected
<1> QED BY <1>1, AlwaysPlanned, PTL

\* The rows in bootstrapping never outnumber max_provisioning, whoever left them
\* there.
THEOREM StartsCapped == Spec => []StartsRespected
<1>1. Planned => StartsRespected
  <2> DEFINE B == InState("bootstrapping")
  <2>1. B \in SUBSET (B \union Inserting) /\ B \union Inserting \in SUBSET Ids
    BY DEF InState, Live, Inserting
  <2>2. /\ Cardinality(B) <= Cardinality(B \union Inserting)
        /\ Cardinality(B) \in Nat /\ Cardinality(B \union Inserting) \in Nat
    BY <2>1, CountsGrow
  <2> QED BY <2>2, ScalingAssumption DEF Planned, StartsRespected
<1> QED BY <1>1, AlwaysPlanned, PTL

-----------------------------------------------------------------------------
(* The circuit.                                                            *)

LEMMA BudgetedInit == Init => Budgeted
BY DEF Init, Budgeted, ProbeAlone, ResultOfStart

\* Below the limit no retry time is set, so a batch that uses up the attempts
\* leaves none; at the limit only an elapsed one gives a start, and sets it anew.
LEMMA ReserveShape ==
    ASSUME NEW a \in 0 .. AttemptLimit, NEW p \in Pauses, NEW wanted \in Nat \ {0},
           p # "none" => a = AttemptLimit
    PROVE  LET r == Reserve(a, p, wanted, AttemptLimit)
           IN  \/ /\ a = AttemptLimit /\ r.attempts = a /\ r.pause = "ahead"
                  /\ r.count = IF p = "due" THEN 1 ELSE 0
               \/ /\ a < AttemptLimit /\ p = "none" /\ r.pause = "none"
                  /\ r.count \in 1 .. AttemptLimit - a
                  /\ r.attempts = a + r.count
BY ScalingAssumption DEF Reserve, Least, Pauses

LEMMA BudgetedStep ==
    ASSUME IInv, Budgeted, [Next]_vars
    PROVE  Budgeted'
<1>1. /\ state \in [Ids -> States \union {Absent}] /\ step \in [Ids -> Steps]
      /\ attempts \in 0 .. AttemptLimit /\ pause \in Pauses /\ won \in BOOLEAN
  BY DEF IInv, TypeOK, StoreTypeOK, WorkTypeOK, CountersTypeOK
<1>2. ASSUME Starting' \subseteq Starting, UNCHANGED attempts,
             pause' # "none" => pause # "none"
      PROVE  ProbeAlone'
  <2>1. Starting' \in SUBSET Starting /\ Starting \in SUBSET Ids
    BY <1>2 DEF Starting
  <2>2. /\ Cardinality(Starting') <= Cardinality(Starting)
        /\ Cardinality(Starting') \in Nat /\ Cardinality(Starting) \in Nat
    BY <2>1, CountsGrow
  <2> QED BY <1>2, <2>2 DEF Budgeted, ProbeAlone
<1>3. CASE Keeps
  <2>1. Starting' \subseteq Starting /\ UNCHANGED <<attempts, pause>>
    BY <1>3 DEF Keeps, KeepsInstance, Starting
  <2>2. ResultOfStart'
    BY <1>3 DEF Keeps, KeepsInstance, Budgeted, ResultOfStart
  <2> QED BY <1>2, <2>1, <2>2 DEF Budgeted
<1>4. CASE \E i \in Ids : Inserts(i)
  <2>1. Starting' \subseteq Starting /\ UNCHANGED <<attempts, pause>>
    BY <1>4 DEF Inserts, Starting, ProvisionSteps
  <2>2. ResultOfStart'
    BY <1>4 DEF Inserts, Budgeted, ResultOfStart, Absent
  <2> QED BY <1>2, <2>1, <2>2 DEF Budgeted
<1>5. CASE (\E i \in Ids : Collect(i)) \/ PauseEnds
  <2>1. /\ UNCHANGED <<state, attempts>>
        /\ pause' # "none" => pause # "none"
        /\ \A i \in Ids : step'[i] \in {"none", step[i]}
    BY <1>1, <1>5 DEF Collect, PauseEnds, rowVars, workVars, circuitVars, Goto
  <2>2. Starting' \subseteq Starting
    BY <2>1 DEF Starting, ProvisionSteps
  <2>3. ResultOfStart'
    BY <2>1 DEF Budgeted, ResultOfStart
  <2> QED BY <1>2, <2>1, <2>2, <2>3 DEF Budgeted
<1>6. CASE Settle \/ Crash
  <2>1. /\ \A i \in Ids : step'[i] = "none"
        /\ pause' # "none" => attempts' = AttemptLimit
    <3>1. pause # "none" => attempts = AttemptLimit
      BY DEF Budgeted, ProbeAlone
    <3>2. CASE Settle
      BY <1>1, <3>1, <3>2, ScalingAssumption DEF Settle, Quiet, workVars, circuitVars
    <3>3. CASE Crash
      BY <3>1, <3>3 DEF Crash, circuitVars
    <3> QED BY <1>6, <3>2, <3>3
  <2>2. Starting' = {} /\ ResultOfStart'
    BY <2>1 DEF Starting, ProvisionSteps, ResultOfStart
  <2> QED BY <2>1, <2>2, FS_EmptySet DEF Budgeted, ProbeAlone
<1>7. CASE StartProvisioning
  <2> DEFINE grant == Reserve(attempts, pause, Needed, AttemptLimit)
  <2>1. /\ attempts' = grant.attempts /\ pause' = grant.pause
        /\ \A i \in Ids : step'[i] \in {"none", "insert"}
        /\ Starting' = Inserting' /\ Cardinality(Inserting') \in 0 .. grant.count
    BY <1>7, StartsGranted
  <2>2. Needed \in Nat \ {0}
    BY <1>7, NeededType, BoundsAssumption DEF StartProvisioning, IInv, TypeOK, PassTypeOK
  <2>3. \/ /\ attempts = AttemptLimit /\ grant.attempts = attempts /\ grant.pause = "ahead"
           /\ grant.count = IF pause = "due" THEN 1 ELSE 0
        \/ grant.pause = "none"
    BY <1>1, <2>2, ReserveShape DEF Budgeted, ProbeAlone
  <2> HIDE DEF grant
  <2>4. pause' # "none" => attempts' = AttemptLimit /\ Cardinality(Starting') <= 1
    BY <2>1, <2>3
  <2> QED BY <2>1, <2>4 DEF Budgeted, ProbeAlone, ResultOfStart
<1> QED BY <1>3, <1>4, <1>5, <1>6, <1>7, StepShape

LEMMA AlwaysBudgeted == Spec => [](IInv /\ Budgeted)
<1>1. IInv /\ Budgeted /\ [Next]_vars => Budgeted'
  BY BudgetedStep
<1> QED BY <1>1, BudgetedInit, Inductive, PTL DEF Spec

\* Once the circuit has a retry time the attempts are used up, and at most one
\* start is at work.
THEOREM ProbeIsAlone == Spec => []ProbeAlone
<1>1. Budgeted => ProbeAlone
  BY DEF Budgeted
<1> QED BY <1>1, AlwaysBudgeted, PTL

-----------------------------------------------------------------------------
(* The policy.                                                             *)

\* The rows ever inserted.
Inserted == {i \in Ids : state[i] # Absent}

LEMMA PolicyCounts ==
    /\ Inserting \in SUBSET Ids /\ Inserted \in SUBSET Ids
    /\ Cardinality(Inserting) \in Nat /\ Cardinality(Inserted) \in Nat
    /\ Inserted # {} => Cardinality(Inserted) > 0
<1>1. Inserting \in SUBSET Ids /\ Inserted \in SUBSET Ids
  BY DEF Inserting, Inserted
<1>2. Cardinality(Inserting) \in Nat /\ Cardinality(Inserted) \in Nat
  BY <1>1, CountsAreNaturals
<1>3. IsFiniteSet(Inserted)
  BY <1>1, BoundsAssumption, FS_Subset
<1> QED BY <1>1, <1>2, <1>3, FS_EmptySet

\* BootstrapPolicy's variables, as PoolProperties maps them.
LEMMA PolicyMapping ==
    /\ Policy!PolicyNext <=>
           \/ Policy!Grant \/ Policy!Start \/ Policy!Forget \/ Policy!Succeed
           \/ Policy!Recover \/ Policy!Probe \/ Policy!Withdraw
    /\ UNCHANGED Policy!policyVars <=>
           UNCHANGED <<Allowance, Cardinality(Inserting), Cardinality(Inserted), won>>
    /\ Policy!Grant <=>
           /\ \E n \in 1 .. Allowance :
                 /\ Allowance' = Allowance - n
                 /\ \E m \in 0 .. n : Cardinality(Inserting') = Cardinality(Inserting) + m
           /\ UNCHANGED <<Cardinality(Inserted), won>>
    /\ Policy!Start <=>
           /\ Cardinality(Inserting) > 0
           /\ Cardinality(Inserting') = Cardinality(Inserting) - 1
           /\ Cardinality(Inserted') = Cardinality(Inserted) + 1
           /\ UNCHANGED <<Allowance, won>>
    /\ Policy!Forget <=>
           /\ Cardinality(Inserting') \in 0 .. Cardinality(Inserting)
           /\ won' \in {won, FALSE}
           /\ UNCHANGED <<Allowance, Cardinality(Inserted)>>
    /\ Policy!Succeed <=>
           /\ Cardinality(Inserted) > 0 /\ won' = TRUE
           /\ UNCHANGED <<Allowance, Cardinality(Inserting), Cardinality(Inserted)>>
    /\ Policy!Recover <=>
           /\ won /\ won' = FALSE /\ Allowance' = AttemptLimit
           /\ UNCHANGED <<Cardinality(Inserting), Cardinality(Inserted)>>
    /\ Policy!Probe <=>
           /\ Allowance = 0 /\ Allowance' = 1
           /\ UNCHANGED <<Cardinality(Inserting), Cardinality(Inserted), won>>
    /\ Policy!Withdraw <=>
           /\ Allowance' = 0
           /\ UNCHANGED <<Cardinality(Inserting), Cardinality(Inserted), won>>
BY DEF Policy!PolicyNext, Policy!policyVars, Policy!Grant, Policy!Start, Policy!Forget,
   Policy!Succeed, Policy!Recover, Policy!Probe, Policy!Withdraw, Inserting, Inserted

LEMMA PolicyInitial == Init => Policy!PolicyInit
<1> SUFFICES ASSUME Init PROVE Policy!PolicyInit
  OBVIOUS
<1>1. Inserting = {} /\ Inserted = {}
  BY DEF Init, StoreInit, Inserting, Inserted
<1>2. Allowance = AttemptLimit /\ ~won
  BY ScalingAssumption DEF Init, Allowance
<1> QED BY <1>1, <1>2, FS_EmptySet DEF Policy!PolicyInit, Inserting, Inserted

\* A start that reached the store is started, or forgotten.
LEMMA InsertsPolicy ==
    ASSUME NEW i \in Ids, Inserts(i)
    PROVE  Policy!Start \/ Policy!Forget
<1>1. IsFiniteSet(Inserting) /\ IsFiniteSet(Inserted)
  BY PolicyCounts, BoundsAssumption, FS_Subset
<1>2. i \in Inserting /\ i \notin Inserted
  BY DEF Inserts, Inserting, Inserted
<1>3. Inserting' = Inserting \ {i}
  BY DEF Inserts, Inserting
<1>4. /\ Cardinality(Inserting') = Cardinality(Inserting) - 1
      /\ Cardinality(Inserting) \in Nat /\ Cardinality(Inserting') \in Nat
  BY <1>1, <1>2, <1>3, FS_RemoveElement, FS_CardinalityType
<1>5. UNCHANGED <<Allowance, won>>
  BY DEF Inserts, Allowance
<1>6. CASE state'[i] = "bootstrapping"
  <2>1. Inserted' = Inserted \union {i}
    BY <1>6 DEF Inserts, Inserted, Absent
  <2>2. Cardinality(Inserted') = Cardinality(Inserted) + 1
    BY <1>1, <1>2, <2>1, FS_AddElement
  <2>3. Cardinality(Inserting) > 0
    BY <1>4
  <2> QED BY <1>4, <1>5, <2>2, <2>3, PolicyMapping
<1>7. CASE state'[i] = Absent
  <2>1. Inserted' = Inserted
    BY <1>7 DEF Inserts, Inserted
  <2> QED BY <1>4, <1>5, <2>1, PolicyMapping
<1> QED BY <1>6, <1>7 DEF Inserts

\* A reservation is a grant, or finds the circuit shut and leaves it so.
LEMMA StartPolicy ==
    ASSUME IInv, Budgeted, StartProvisioning
    PROVE  Policy!Grant \/ UNCHANGED Policy!policyVars
<1> DEFINE grant == Reserve(attempts, pause, Needed, AttemptLimit)
<1>1. /\ attempts \in 0 .. AttemptLimit /\ pause \in Pauses
      /\ pause # "none" => attempts = AttemptLimit
      /\ Needed \in Nat \ {0}
  BY NeededType, BoundsAssumption
     DEF StartProvisioning, Budgeted, ProbeAlone, IInv, TypeOK, PassTypeOK, CountersTypeOK
<1>2. /\ attempts' = grant.attempts /\ pause' = grant.pause
      /\ UNCHANGED <<state, won>>
      /\ Inserting = {}
      /\ Cardinality(Inserting') \in 0 .. grant.count
  BY StartsGranted
<1>3. \/ /\ attempts = AttemptLimit /\ grant.attempts = attempts /\ grant.pause = "ahead"
         /\ grant.count = IF pause = "due" THEN 1 ELSE 0
      \/ /\ attempts < AttemptLimit /\ pause = "none" /\ grant.pause = "none"
         /\ grant.count \in 1 .. AttemptLimit - attempts
         /\ grant.attempts = attempts + grant.count
  BY <1>1, ReserveShape
<1> HIDE DEF grant
<1>4. Cardinality(Inserting) = 0 /\ Inserted' = Inserted
  BY <1>2, FS_EmptySet DEF Inserted
<1>5. grant.count \in 0 .. Allowance /\ Allowance' = Allowance - grant.count
  BY <1>1, <1>2, <1>3, ScalingAssumption DEF Allowance
<1>6. Allowance \in Nat
  BY <1>1, ScalingAssumption DEF Allowance
<1>7. CASE grant.count = 0
  <2>1. Cardinality(Inserting') = 0 /\ Allowance' = Allowance
    BY <1>2, <1>5, <1>6, <1>7
  <2> QED BY <1>2, <1>4, <2>1, PolicyMapping
<1>8. CASE grant.count # 0
  <2>1. grant.count \in 1 .. Allowance
    BY <1>5, <1>6, <1>8
  <2>2. \E m \in 0 .. grant.count : Cardinality(Inserting') = Cardinality(Inserting) + m
    BY <1>2, <1>4, <2>1
  <2> QED BY <1>2, <1>4, <1>5, <2>1, <2>2, PolicyMapping
<1> QED BY <1>7, <1>8

\* Results are applied, held back or lost.
LEMMA SettlePolicy ==
    ASSUME IInv, Settle
    PROVE  Policy!PolicyNext \/ UNCHANGED Policy!policyVars
<1>1. attempts \in 0 .. AttemptLimit /\ pause \in Pauses /\ won \in BOOLEAN
  BY DEF IInv, TypeOK, CountersTypeOK
<1>2. Inserting' = Inserting /\ Inserted' = Inserted /\ Cardinality(Inserting) \in Nat
  BY PolicyCounts DEF Settle, rowVars, workVars, Inserting, Inserted
<1>3. won' = FALSE
  BY DEF Settle
<1>4. CASE won /\ attempts' = 0 /\ pause' = "none"
  <2>1. Allowance' = AttemptLimit
    BY <1>4, ScalingAssumption DEF Allowance
  <2> QED BY <1>2, <1>3, <1>4, <2>1, PolicyMapping
<1>5. CASE ~won /\ attempts >= AttemptLimit /\ pause' = "ahead" /\ UNCHANGED attempts
  <2>1. Allowance' = 0
    BY <1>1, <1>5, ScalingAssumption DEF Allowance
  <2>2. won' = won
    BY <1>1, <1>3, <1>5
  <2> QED BY <1>2, <2>1, <2>2, PolicyMapping
<1>6. CASE UNCHANGED circuitVars
  <2>1. Allowance' = Allowance
    BY <1>6 DEF Allowance, circuitVars
  <2>2. Cardinality(Inserting') \in 0 .. Cardinality(Inserting)
    BY <1>2
  <2>3. Policy!Forget
    BY <1>2, <1>3, <2>1, <2>2, PolicyMapping
  <2> QED BY <2>3, PolicyMapping
<1> QED BY <1>4, <1>5, <1>6 DEF Settle

\* One result arrives: a success is that of a row.
LEMMA CollectPolicy ==
    ASSUME IInv, Budgeted, NEW i \in Ids, Collect(i)
    PROVE  Policy!Succeed \/ UNCHANGED Policy!policyVars
<1>1. step \in [Ids -> Steps] /\ won \in BOOLEAN
  BY DEF IInv, TypeOK, WorkTypeOK, CountersTypeOK
<1>2. Inserting' = Inserting
  BY <1>1 DEF Collect, Goto, Inserting
<1>3. Inserted' = Inserted /\ Allowance' = Allowance
  BY DEF Collect, rowVars, circuitVars, Inserted, Allowance
<1>4. CASE step[i] = "ok"
  <2>1. i \in Inserted
    BY <1>4 DEF Budgeted, ResultOfStart, Inserted
  <2>2. Cardinality(Inserted) > 0
    BY <2>1, PolicyCounts
  <2>3. won' = TRUE
    BY <1>1, <1>4 DEF Collect
  <2> QED BY <1>2, <1>3, <2>2, <2>3, PolicyMapping
<1>5. CASE step[i] # "ok"
  <2>1. won' = won
    BY <1>1, <1>5 DEF Collect
  <2> QED BY <1>2, <1>3, <2>1, PolicyMapping
<1> QED BY <1>4, <1>5

LEMMA PolicyStep ==
    ASSUME IInv, Budgeted, [Next]_vars
    PROVE  [Policy!PolicyNext]_Policy!policyVars
<1>1. CASE Keeps
  <2>1. Inserting' = Inserting /\ Inserted' = Inserted
    BY <1>1 DEF Keeps, KeepsInstance, Inserting, Inserted
  <2>2. Allowance' = Allowance /\ won' = won
    BY <1>1 DEF Keeps, Allowance
  <2> QED BY <2>1, <2>2, PolicyMapping
<1>2. CASE \E i \in Ids : Inserts(i)
  BY <1>2, InsertsPolicy, PolicyMapping
<1>3. CASE \E i \in Ids : Collect(i)
  BY <1>3, CollectPolicy, PolicyMapping
<1>4. CASE StartProvisioning
  BY <1>4, StartPolicy, PolicyMapping
<1>5. CASE Settle
  BY <1>5, SettlePolicy
<1>6. CASE Crash
  <2>1. Inserting' = {} /\ Inserted' = Inserted
    BY <1>6 DEF Crash, Inserting, Inserted, rowVars
  <2>2. Cardinality(Inserting') = 0
    BY <2>1, FS_EmptySet
  <2>3. Allowance' = Allowance /\ won' = FALSE
    BY <1>6 DEF Crash, Allowance, circuitVars
  <2>4. Cardinality(Inserting') \in 0 .. Cardinality(Inserting)
    BY <2>2, PolicyCounts
  <2>5. Policy!Forget
    BY <2>1, <2>3, <2>4, PolicyMapping
  <2> QED BY <2>5, PolicyMapping
<1>7. CASE PauseEnds
  <2>1. Inserting' = Inserting /\ Inserted' = Inserted /\ won' = won
    BY <1>7 DEF PauseEnds, Inserting, Inserted, rowVars, workVars, resultVars
  <2>2. Allowance = 0 /\ Allowance' = 1
    BY <1>7, ScalingAssumption DEF PauseEnds, Allowance, Budgeted, ProbeAlone
  <2> QED BY <2>1, <2>2, PolicyMapping
<1> QED BY <1>1, <1>2, <1>3, <1>4, <1>5, <1>6, <1>7, StepShape

\* The circuit implements the documented policy: every start is granted by it,
\* whatever batch, probe, result or crash comes between a reservation and a
\* reset.
THEOREM CircuitImplementsPolicy == Spec => PolicyRespected
<1>1. IInv /\ Budgeted /\ [Next]_vars => [Policy!PolicyNext]_Policy!policyVars
  BY PolicyStep
<1> QED BY <1>1, PolicyInitial, AlwaysBudgeted, PTL
        DEF Spec, PolicyRespected, Policy!PolicySpec

-----------------------------------------------------------------------------
(* What a pass has still to do.                                            *)

\* Every call of the work on an instance leaves fewer of them.
LEMMA WorkShrinks ==
    ASSUME IInv, NEW i \in Ids, Work(i)
    PROVE  CallsLeft(step'[i]) < CallsLeft(step[i])
<1>1. step \in [Ids -> Steps]
  BY DEF IInv, TypeOK, WorkTypeOK
<1> USE <1>1 DEF Goto, Returns, CallsLeft
<1>2. CASE CleanRunner(i)
  BY <1>2 DEF CleanRunner
<1>3. CASE CleanMachine(i)
  BY <1>3 DEF CleanMachine
<1>4. CASE CleanPostpone(i) \/ CleanFinish(i)
  BY <1>4 DEF CleanPostpone, CleanFinish
<1>5. CASE ProvisionInsert(i)
  BY <1>5 DEF ProvisionInsert
<1>6. CASE ProvisionRegister(i) \/ ProvisionRecord(i)
  BY <1>6 DEF ProvisionRegister, ProvisionRecord, Fail
<1>7. CASE ProvisionRequest(i) \/ ProvisionVerify(i)
  BY <1>7 DEF ProvisionRequest, ProvisionVerify, GivesUp, Fail
<1>8. CASE ProvisionBoot(i)
  BY <1>8 DEF ProvisionBoot, GivesUp, Fail
<1>9. CASE ProvisionAwait(i)
  BY <1>9 DEF ProvisionAwait, StartCleanup, GivesUp, Fail
<1>10. CASE UndoBegin(i) \/ UndoRunner(i) \/ UndoVM(i) \/ UndoEnd(i)
  BY <1>10 DEF UndoBegin, UndoRunner, UndoVM, UndoEnd
<1> QED BY <1>2, <1>3, <1>4, <1>5, <1>6, <1>7, <1>8, <1>9, <1>10 DEF Work

\* The pass stays where it is and comes nearer to the end of it.
Nearer ==
    /\ pc' = pc
    /\ \A i \in Ids : ToGo(i)' <= ToGo(i)
    /\ \E i \in Ids : ToGo(i)' < ToGo(i)

LEMMA CallsLeftType ==
    \A s : CallsLeft(s) \in 0 .. 12 /\ (CallsLeft(s) = 0 <=> s = "none")
  BY DEF CallsLeft

\* One instance comes nearer to its end and no other changes.
LEMMA OneNearer ==
    ASSUME NEW i \in Ids, pc' = pc, ToGo(i)' < ToGo(i),
           \A j \in Ids \ {i} : ToGo(j)' = ToGo(j)
    PROVE  Nearer
<1>1. \A j \in Ids : ToGo(j) \in Int /\ ToGo(j)' \in Int
  BY CallsLeftType DEF ToGo
<1> QED BY <1>1 DEF Nearer

LEMMA WorkAdvances ==
    ASSUME IInv, NEW i \in Ids, Work(i)
    PROVE  Nearer
<1>1. OwnWork(i)
  BY WorkIsOwn
<1>2. CallsLeft(step'[i]) < CallsLeft(step[i])
  BY WorkShrinks
<1>3. ToGo(i)' < ToGo(i)
  BY <1>1, <1>2 DEF ToGo, OwnWork
<1>4. \A j \in Ids \ {i} : ToGo(j)' = ToGo(j)
  BY <1>1 DEF ToGo, OwnWork, passVars
<1>5. pc' = pc
  BY <1>1 DEF OwnWork, passVars
<1> QED BY <1>3, <1>4, <1>5, OneNearer

\* A loop that is done with an instance, and nothing at work on it.
LEMMA DoneNearer ==
    ASSUME NEW i \in Ids, i \in todo, pc # "provision", pc' = pc,
           todo' = todo \ {i}, step[i] \in {"none", "ok", "err"}, step'[i] = "none",
           \A j \in Ids \ {i} : step'[j] = step[j]
    PROVE  Nearer
<1>1. ToGo(i)' = 0 /\ ToGo(i) \in {1, 5}
  BY DEF ToGo, CallsLeft
<1>2. ToGo(i)' < ToGo(i)
  BY <1>1
<1>3. \A j \in Ids \ {i} : ToGo(j)' = ToGo(j)
  BY DEF ToGo
<1> QED BY <1>2, <1>3, OneNearer

\* Retiring a row turns a visit into the calls of a cleanup.
LEMMA CleanupNearer ==
    ASSUME IInv, NEW i \in Ids, i \in todo, pc # "provision", Quiet, NEW why,
           PassCleanup(i, why)
    PROVE  Nearer \/ pc' = "idle"
<1>1. CASE EndPass
  BY <1>1 DEF EndPass
<1>2. CASE StartCleanup(i, why, snap[i].registered) /\ UNCHANGED passVars
  <2>1. /\ step[i] = "none" /\ step'[i] = "runner"
        /\ \A j \in Ids \ {i} : step'[j] = step[j]
    BY <1>2, StartCleanupKnown DEF Quiet
  <2>2. ToGo(i)' = 4 /\ ToGo(i) = 5
    BY <1>2, <2>1 DEF ToGo, CallsLeft, passVars
  <2>3. ToGo(i)' < ToGo(i)
    BY <2>2
  <2>4. \A j \in Ids \ {i} : ToGo(j)' = ToGo(j)
    BY <1>2, <2>1 DEF ToGo, passVars
  <2> QED BY <1>2, <2>3, <2>4, OneNearer DEF passVars
<1> QED BY <1>1, <1>2 DEF PassCleanup

LEMMA VisitAdvances ==
    ASSUME IInv, NEW i \in Ids, Visit(i)
    PROVE  Nearer \/ pc' = "idle"
<1>1. CASE DeleteOrphanVM(i) \/ DeleteOrphanRunner(i)
  <2>1. Quiet
    BY <1>1, NothingAtWork DEF DeleteOrphanVM, DeleteOrphanRunner, LoopsWithCleanup
  <2>2. CASE EndPass
    BY <2>2 DEF EndPass
  <2>3. CASE ~EndPass
    <3>1. /\ i \in todo /\ pc # "provision" /\ pc' = pc /\ todo' = todo \ {i}
          /\ UNCHANGED step
      BY <1>1, <2>3 DEF DeleteOrphanVM, DeleteOrphanRunner, workVars
    <3> QED BY <2>1, <3>1, DoneNearer DEF Quiet
  <2> QED BY <2>2, <2>3
<1>2. CASE RetireMissing(i) \/ VisitRetire(i) \/ ScaleDown(i)
  BY <1>2, CleanupNearer DEF RetireMissing, VisitRetire, ScaleDown
<1>3. CASE VisitPostponed(i) \/ ScaleDownSkip(i) \/ VisitObserve(i)
  <2>1. CASE EndPass
    BY <2>1 DEF EndPass
  <2>2. CASE ~EndPass
    <3>1. /\ i \in todo /\ pc # "provision" /\ pc' = pc /\ todo' = todo \ {i}
          /\ UNCHANGED step /\ Quiet
      BY <1>3, <2>2 DEF VisitPostponed, ScaleDownSkip, VisitObserve, Done, workVars
    <3> QED BY <3>1, DoneNearer DEF Quiet
  <2> QED BY <2>1, <2>2
<1>4. CASE CleanupReturns(i)
  <2>1. CASE EndPass
    BY <2>1 DEF EndPass
  <2>2. CASE ~EndPass
    <3>1. /\ pc # "provision" /\ pc' = pc /\ todo' = todo \ {i}
          /\ step[i] = "ok" /\ step'[i] = "none" /\ \A j \in Ids \ {i} : step'[j] = step[j]
      BY <1>4, <2>2 DEF CleanupReturns, Goto, IInv, TypeOK, WorkTypeOK
    <3>2. i \in todo
      BY <3>1 DEF IInv, OneAtATime
    <3> QED BY <3>1, <3>2, DoneNearer
  <2> QED BY <2>1, <2>2
<1>5. CASE Collect(i)
  <2>1. /\ pc = "provision" /\ pc' = pc /\ step[i] \in {"ok", "err"} /\ step'[i] = "none"
        /\ \A j \in Ids \ {i} : step'[j] = step[j]
    BY <1>5 DEF Collect, Goto, passVars, IInv, TypeOK, WorkTypeOK
  <2>2. ToGo(i)' = 0 /\ ToGo(i) = 1
    BY <2>1 DEF ToGo, CallsLeft
  <2>3. ToGo(i)' < ToGo(i)
    BY <2>2
  <2>4. \A j \in Ids \ {i} : ToGo(j)' = ToGo(j)
    BY <2>1 DEF ToGo
  <2> QED BY <2>1, <2>3, <2>4, OneNearer
<1> QED BY <1>1, <1>2, <1>3, <1>4, <1>5 DEF Visit

\* A step of the pass, or of work it started, comes nearer or leaves the place.
LEMMA OwnStepAdvances ==
    ASSUME IInv, pc # "idle", Pass \/ \E i \in Ids : Work(i)
    PROVE  \/ Nearer
           \/ pc' \in {NextPlace(pc), "idle"} /\ pc' # pc
<1>1. ASSUME NEW i \in Ids, Work(i) PROVE Nearer
  BY <1>1, WorkAdvances
<1>2. ASSUME NEW i \in Ids, Visit(i) PROVE Nearer \/ pc' = "idle"
  BY <1>2, VisitAdvances
<1>3. CASE \/ StartPass \/ ListManaged \/ OrphanVMsDone \/ ListRunners
           \/ ListInstances \/ FetchJobs
  BY <1>3 DEF StartPass, ListManaged, OrphanVMsDone, ListRunners, ListInstances,
     FetchJobs, NextPlace
<1>4. CASE NothingNeeded \/ Settle \/ PassCallFails
  BY <1>4 DEF NothingNeeded, Settle, PassCallFails, EndPass
<1>5. CASE StartProvisioning
  BY <1>5 DEF StartProvisioning, ScaledDown, EndPass, NextPlace
<1> QED BY <1>1, <1>2, <1>3, <1>4, <1>5 DEF Pass

\* Any other step leaves the pass where it is, or ends it.
LEMMA OtherStepKeeps ==
    ASSUME [Next]_vars, ~(Pass \/ \E i \in Ids : Work(i))
    PROVE  pc' = "idle" \/ UNCHANGED <<passVars, workVars>>
<1>1. CASE Crash
  BY <1>1 DEF Crash, EndPass
<1>2. CASE \/ (\E i \in Ids : Clock(i) \/ Outside(i) \/ Damage(i))
           \/ PauseEnds \/ Queue \/ UNCHANGED vars
  BY <1>2 DEF Clock, Outside, Damage, PauseEnds, Queue, vars
<1> QED BY <1>1, <1>2 DEF Next

\* A pass never comes back to a place, and at each it only comes nearer to the
\* end: no loop meets an instance twice, no goroutine does a call again.
THEOREM PassesAdvance == Spec => PassAdvances
<1>1. ASSUME IInv, [Next]_vars, pc # "idle"
      PROVE  /\ pc' \in {pc, NextPlace(pc), "idle"}
             /\ pc' = pc =>
                    /\ \A i \in Ids : ToGo(i)' <= ToGo(i)
                    /\ Pass \/ (\E i \in Ids : Work(i)) =>
                           \E i \in Ids : ToGo(i)' < ToGo(i)
  <2>1. CASE Pass \/ \E i \in Ids : Work(i)
    BY <1>1, <2>1, OwnStepAdvances DEF Nearer
  <2>2. CASE ~(Pass \/ \E i \in Ids : Work(i))
    <3>1. CASE pc' = "idle"
      BY <1>1, <3>1
    <3>2. CASE UNCHANGED <<passVars, workVars>>
      <4>1. \A i \in Ids : ToGo(i) \in Int /\ ToGo(i)' = ToGo(i)
        BY <3>2, CallsLeftType DEF ToGo, passVars, workVars
      <4>2. \A i \in Ids : ToGo(i)' <= ToGo(i)
        BY <4>1
      <4> QED BY <2>2, <3>2, <4>2 DEF passVars
    <3> QED BY <1>1, <2>2, <3>1, <3>2, OtherStepKeeps
  <2> QED BY <2>1, <2>2
<1>2. IInv /\ [Next]_vars =>
          [pc # "idle" =>
               /\ pc' \in {pc, NextPlace(pc), "idle"}
               /\ pc' = pc =>
                      /\ \A i \in Ids : ToGo(i)' <= ToGo(i)
                      /\ Pass \/ (\E i \in Ids : Work(i)) =>
                             \E i \in Ids : ToGo(i)' < ToGo(i)]_vars
  BY <1>1
<1> QED BY <1>2, Inductive, PTL DEF Spec, PassAdvances

-----------------------------------------------------------------------------
(* What a pass leaves behind it.                                           *)

\* Nothing of the rows or of the loop changes.
LEMMA UnchangedHandled ==
    ASSUME HandledSoFar, UNCHANGED <<pc, todo, state, retry, step>>
    PROVE  HandledSoFar'
BY DEF HandledSoFar, Handled

\* Nothing is at work, and the pass is not in a loop over the rows.
LEMMA ElsewhereHandled ==
    ASSUME \A i \in Ids : step'[i] # "ok", pc' \notin {"instances", "scaleDown"}
    PROVE  HandledSoFar'
BY DEF HandledSoFar

\* A cleanup leaves its row finished, or in cleaning with more to do.
LEMMA WorkHandled ==
    ASSUME IInv, Rested, HandledSoFar, NEW i \in Ids, Work(i)
    PROVE  HandledSoFar'
<1>1. OwnWork(i) /\ WritesRow(i) /\ Fits(i)'
  BY WorkIsOwn, WorkRow
<1>2. CASE pc = "provision"
  BY <1>1, <1>2 DEF OwnWork, passVars, HandledSoFar
<1>3. CASE pc # "provision"
  <2>1. i \in todo /\ step[i] \notin ProvisionSteps \union UndoSteps
    BY <1>1, <1>3 DEF OwnWork, IInv, OneAtATime
  <2>2. CleanRunner(i) \/ CleanMachine(i) \/ CleanPostpone(i) \/ CleanFinish(i)
    BY <2>1 DEF Work, ProvisionInsert, ProvisionRegister, ProvisionRecord,
       ProvisionRequest, ProvisionVerify, ProvisionBoot, ProvisionAwait, UndoBegin,
       UndoRunner, UndoVM, UndoEnd, ProvisionSteps, UndoSteps
  <2>3. /\ state[i] = "cleaning" /\ step'[i] # "none"
        /\ step'[i] = "ok" => state'[i] = "finished"
    BY <1>1, <2>2, ColumnsTyped DEF CleanRunner, CleanMachine, CleanPostpone,
       CleanFinish, Goto, Returns, FinishCleanup, WriteState, ColumnTypes, OwnWork,
       IInv, RowFits, CleanupSteps
  <2>4. Handled(i)'
    BY <1>1, <2>3 DEF Handled, WritesRow, RowAdvances, CanTransition, Absent
  <2>5. \A j \in Ids \ {i} : RowKept(j)
    BY <1>1 DEF WritesRow
  <2>6. UNCHANGED <<pc, todo>>
    BY <1>1 DEF OwnWork, passVars
  <2> QED BY <1>3, <2>1, <2>3, <2>4, <2>5, <2>6 DEF HandledSoFar, Handled, RowKept
<1> QED BY <1>2, <1>3

\* The pass starts to clean up a row of the loop it is in, or stops.
LEMMA PassCleanupHandled ==
    ASSUME IInv, HandledSoFar, Quiet, NEW i \in Ids, NEW why, pc # "provision",
           PassCleanup(i, why)
    PROVE  HandledSoFar'
<1>1. CASE EndPass /\ UNCHANGED workVars
  BY <1>1, ElsewhereHandled DEF EndPass, Quiet, workVars
<1>2. CASE StartCleanup(i, why, snap[i].registered) /\ UNCHANGED passVars
  <2>1. /\ WritesRow(i) /\ state'[i] = "cleaning" /\ step'[i] = "runner"
        /\ UNCHANGED <<pc, todo>>
    BY <1>2, StartCleanupRow, StartCleanupKnown DEF passVars
  <2>2. \A j \in Ids \ {i} : RowKept(j)
    BY <2>1 DEF WritesRow
  <2> QED BY <2>1, <2>2 DEF HandledSoFar, Handled, RowKept
<1> QED BY <1>1, <1>2 DEF PassCleanup

\* A row is not left before it is handled.
LEMMA VisitHandled ==
    ASSUME IInv, HandledSoFar, NEW i \in Ids, Visit(i)
    PROVE  HandledSoFar'
<1>0. ColumnTypes
  BY ColumnsTyped
<1>1. CASE DeleteOrphanVM(i) \/ DeleteOrphanRunner(i)
  BY <1>1, ElsewhereHandled, NothingAtWork DEF DeleteOrphanVM, DeleteOrphanRunner,
     LoopsWithCleanup, EndPass, Quiet, workVars
<1>2. CASE RetireMissing(i) \/ VisitRetire(i) \/ ScaleDown(i)
  BY <1>2, PassCleanupHandled DEF RetireMissing, VisitRetire, ScaleDown
<1>3. CASE VisitPostponed(i)
  <2>1. /\ Quiet /\ pc = "instances" /\ i \in todo /\ Done(i)
        /\ UNCHANGED <<state, retry, step>>
    BY <1>3 DEF VisitPostponed, rowVars, workVars
  <2>2. state[i] = "cleaning" /\ retry[i] = "ahead"
    <3>1. snap[i] = Row(i)
      BY <2>1 DEF IInv, Unvisited, LoopsWithCleanup, Quiet
    <3> QED BY <1>3, <3>1 DEF VisitPostponed, Postponed, Row
  <2> QED BY <2>1, <2>2 DEF HandledSoFar, Handled, Done, Quiet
<1>4. CASE VisitObserve(i)
  <2>1. Quiet /\ UNCHANGED workVars /\ pc = "instances"
    BY <1>4 DEF VisitObserve
  <2>2. CASE EndPass
    BY <2>1, <2>2, ElsewhereHandled DEF EndPass, Quiet, workVars
  <2>3. ASSUME NEW s \in {"ready", "running"}, SetOperationalState(i, s), Done(i)
        PROVE  HandledSoFar'
    <3>1. /\ state'[i] = s /\ UNCHANGED <<step, pc>> /\ todo' = todo \ {i}
          /\ \A j \in Ids \ {i} : state'[j] = state[j] /\ retry'[j] = retry[j]
      BY <1>0, <2>1, <2>3 DEF SetOperationalState, WriteState, Done, workVars, ColumnTypes
    <3> QED BY <2>1, <3>1 DEF HandledSoFar, Handled, Quiet
  <2> QED BY <1>4, <2>2, <2>3 DEF VisitObserve
<1>5. CASE ScaleDownSkip(i)
  BY <1>5 DEF ScaleDownSkip, Done, HandledSoFar, Handled, rowVars, workVars
<1>6. CASE CleanupReturns(i)
  <2>1. /\ UNCHANGED <<state, retry>> /\ pc # "provision"
        /\ step'[i] = "none" /\ \A j \in Ids \ {i} : step'[j] = step[j]
    BY <1>0, <1>6 DEF CleanupReturns, Goto, rowVars, ColumnTypes
  <2>2. CASE EndPass
    BY <2>1, <2>2 DEF EndPass, HandledSoFar
  <2>3. CASE step[i] = "ok" /\ todo' = todo \ {i} /\ UNCHANGED pc
    <3>1. state[i] = "finished"
      BY <2>1, <2>3 DEF HandledSoFar
    <3> QED BY <2>1, <2>3, <3>1 DEF HandledSoFar, Handled
  <2> QED BY <1>6, <2>2, <2>3 DEF CleanupReturns
<1>7. CASE Collect(i)
  BY <1>7 DEF Collect, passVars, HandledSoFar
<1> QED BY <1>1, <1>2, <1>3, <1>4, <1>5, <1>6, <1>7 DEF Visit

\* One step per action.
LEMMA HandledStep ==
    ASSUME IInv, Rested, HandledSoFar, [Next]_vars
    PROVE  HandledSoFar'
<1>1. ASSUME NEW i \in Ids, Work(i) PROVE HandledSoFar'
  BY <1>1, WorkHandled
<1>2. ASSUME NEW i \in Ids, Visit(i) PROVE HandledSoFar'
  BY <1>2, VisitHandled
<1>3. CASE \/ StartPass \/ ListManaged \/ OrphanVMsDone \/ ListRunners \/ NothingNeeded
           \/ Settle \/ PassCallFails
  <2>1. Quiet
    BY <1>3, NothingAtWork DEF StartPass, ListManaged, OrphanVMsDone, ListRunners,
       NothingNeeded, ScaledDown, Settle, PassCallFails, LoopsWithCleanup
  <2>2. pc' \notin {"instances", "scaleDown"} /\ UNCHANGED step
    BY <1>3 DEF StartPass, ListManaged, OrphanVMsDone, ListRunners, NothingNeeded,
       Settle, PassCallFails, EndPass, workVars
  <2> QED BY <2>1, <2>2, ElsewhereHandled DEF Quiet
<1>4. CASE ListInstances
  <2>1. Quiet /\ pc' = "instances" /\ todo' = Live /\ UNCHANGED <<state, retry, step>>
    BY <1>4, NothingAtWork DEF ListInstances, LoopsWithCleanup, rowVars, workVars
  <2> QED BY <2>1 DEF HandledSoFar, Handled, Live, Quiet, Absent
<1>5. CASE FetchJobs
  BY <1>5 DEF FetchJobs, HandledSoFar, Handled, rowVars, workVars
<1>6. CASE StartProvisioning
  <2>1. CASE EndPass /\ UNCHANGED step
    BY <1>6, <2>1, ElsewhereHandled DEF StartProvisioning, ScaledDown, Quiet, EndPass
  <2>2. CASE pc' = "provision"
    BY <2>2 DEF HandledSoFar
  <2> QED BY <1>6, <2>1, <2>2 DEF StartProvisioning
<1>7. ASSUME NEW i \in Ids, Clock(i) PROVE HandledSoFar'
  <2>1. /\ UNCHANGED <<pc, todo, state, step>>
        /\ \A j \in Ids : retry'[j] = "none" => retry[j] = "none"
    BY <1>7, ColumnsTyped DEF Clock, RetryDue, Age, passVars, workVars, ColumnTypes
  <2> QED BY <2>1 DEF HandledSoFar, Handled
<1>8. CASE \/ (\E i \in Ids : Outside(i) \/ Damage(i))
           \/ PauseEnds \/ Queue \/ UNCHANGED vars
  BY <1>8, UnchangedHandled DEF Outside, Damage, PauseEnds, Queue, vars, rowVars,
     passVars, workVars
<1>9. CASE Crash
  BY <1>9, ElsewhereHandled DEF Crash, EndPass
<1> QED BY <1>1, <1>2, <1>3, <1>4, <1>5, <1>6, <1>7, <1>8, <1>9 DEF Next, Pass

\* A pass that comes to its decision has passed over no row: what it counts as
\* starting is nothing, and what it counts as being cleaned up is postponed.
THEOREM PassesSkipNothing == Spec => []NothingSkipped
<1>1. Init => HandledSoFar
  BY DEF Init, HandledSoFar
<1>2. IInv /\ Rested /\ HandledSoFar /\ [Next]_vars => HandledSoFar'
  BY HandledStep
<1>3. HandledSoFar => NothingSkipped
  BY DEF HandledSoFar, Handled, NothingSkipped
<1>4. AccountKept => IInv
  BY DEF AccountKept
<1> QED BY <1>1, <1>2, <1>3, <1>4, AlwaysRested, PTL DEF Spec
=============================================================================
