----------------------- MODULE PoolController_proofs -----------------------
(***************************************************************************)
(* Safety of the reconciliation of a pool for any number of instances, any *)
(* limits, faults and crashes.                                             *)
(***************************************************************************)
EXTENDS PoolProperties, FiniteSetTheorems, TLAPS

-----------------------------------------------------------------------------
(* Types.                                                                  *)

LEMMA CountsAreNaturals ==
    ASSUME NEW S \in SUBSET Ids
    PROVE  Cardinality(S) \in Nat
  BY BoundsAssumption, FS_Subset, FS_CardinalityType

LEMMA NeededType ==
    ASSUME waiting \in Nat
    PROVE  Needed \in Nat
<1>1. /\ Cardinality(InState("ready")) \in Nat
      /\ Cardinality(InState("bootstrapping")) \in Nat
      /\ Cardinality(Live) \in Nat
  BY CountsAreNaturals DEF InState, Live
<1> DEFINE d == Demand(waiting, MinIdle, MaxInstances, MaxProvisioning,
                       Cardinality(InState("ready")),
                       Cardinality(InState("bootstrapping")),
                       Cardinality(Live))
<1>2. d \in [waiting : Nat, minIdle : Nat, maxInstances : Nat,
             maxProvisioning : Nat, ready : Nat, provisioning : Nat,
             instances : Nat]
  BY <1>1, ScalingAssumption DEF Demand
<1> HIDE DEF d
<1>3. NeededFor(d) \in Nat
  BY <1>2 DEF NeededFor, Least
<1> QED BY <1>3 DEF Needed, d

LEMMA ReserveType ==
    ASSUME NEW a \in 0 .. AttemptLimit, NEW p \in Pauses,
           NEW wanted \in Nat, wanted > 0
    PROVE  LET r == Reserve(a, p, wanted, AttemptLimit)
           IN  /\ r.attempts \in 0 .. AttemptLimit
               /\ r.pause \in Pauses
               /\ r.count \in Nat
  BY ScalingAssumption DEF Reserve, Least, Pauses

LEMMA ListingType ==
    ASSUME StoreTypeOK
    PROVE  Listing \in [Ids -> [state : States \union {Absent}, registered : BOOLEAN]]
  BY DEF Listing, Row, Unlisted, StoreTypeOK

LEMMA TypeInit == Init => TypeOK
<1> SUFFICES ASSUME Init PROVE TypeOK
  OBVIOUS
<1>1. StoreTypeOK
  BY DEF Init, StoreInit, StoreTypeOK
<1>2. WorldTypeOK
  BY BoundsAssumption DEF Init, WorldInit, WorldTypeOK, RunnerStates, VMStates
<1>3. PassTypeOK
  BY BoundsAssumption DEF Init, PassTypeOK, NoRows, Unlisted, PassSteps
<1>4. WorkTypeOK
  BY DEF Init, WorkTypeOK, Steps
<1>5. /\ attempts \in 0 .. AttemptLimit /\ pause \in Pauses
      /\ faults \in 0 .. MaxFaults /\ crashes \in 0 .. MaxCrashes
  BY ScalingAssumption, BoundsAssumption DEF Init, Pauses
<1>6. won \in BOOLEAN /\ lost \in BOOLEAN
  BY DEF Init
<1>7. CountersTypeOK
  BY <1>5, <1>6 DEF CountersTypeOK
<1> QED BY <1>1, <1>2, <1>3, <1>4, <1>7 DEF TypeOK

\* The writes of the store keep the rows well formed.
LEMMA WriteType ==
    ASSUME StoreTypeOK, NEW i \in Ids,
           \/ Create(i) \/ SetRegistration(i) \/ FinishCleanup(i) \/ Retry(i)
           \/ RetryDue(i) \/ Age(i) \/ UNCHANGED rowVars
           \/ \E s \in {"ready", "running"} : SetOperationalState(i, s)
           \/ \E why \in Reasons \union {NoReason} : BeginCleanup(i, why)
    PROVE  StoreTypeOK'
<1> USE DEF StoreTypeOK, WriteState, States
<1>1. CASE Create(i)
  BY <1>1 DEF Create
<1>2. CASE SetRegistration(i)
  BY <1>2 DEF SetRegistration
<1>3. CASE FinishCleanup(i)
  BY <1>3 DEF FinishCleanup
<1>4. CASE Retry(i)
  BY <1>4 DEF Retry
<1>5. CASE RetryDue(i)
  BY <1>5 DEF RetryDue
<1>6. CASE Age(i)
  BY <1>6 DEF Age
<1>7. CASE UNCHANGED rowVars
  BY <1>7 DEF rowVars
<1>8. ASSUME NEW s \in {"ready", "running"}, SetOperationalState(i, s)
      PROVE  StoreTypeOK'
  BY <1>8 DEF SetOperationalState
<1>9. ASSUME NEW why \in Reasons \union {NoReason}, BeginCleanup(i, why)
      PROVE  StoreTypeOK'
  BY <1>9 DEF BeginCleanup
<1> QED BY <1>1, <1>2, <1>3, <1>4, <1>5, <1>6, <1>7, <1>8, <1>9

\* What can happen to runners, machines and jobs keeps them well formed.
LEMMA WorldType ==
    ASSUME WorldTypeOK, NEW i \in Ids,
           \/ UNCHANGED worldVars
           \/ Register(i) /\ UNCHANGED <<vm, jobs>>
           \/ DeleteRunner(i) /\ UNCHANGED <<vm, jobs>>
           \/ RequestVM(i) /\ UNCHANGED <<runner, jobs>>
           \/ PushConfig(i) /\ UNCHANGED <<runner, jobs>>
           \/ DeleteVM(i) /\ UNCHANGED jobs
           \/ DeleteVMFails(i) /\ UNCHANGED jobs
           \/ SeeAtWork(i) /\ UNCHANGED <<vm, jobs>>
           \/ VMAppears(i) \/ RunnerConnects(i) \/ JobStarts(i) \/ JobEnds(i)
           \/ RunnerExpires(i) \/ CreationFails(i) \/ VMLost(i) \/ RunnerDrops(i)
           \/ JobQueued
    PROVE  WorldTypeOK'
<1> USE BoundsAssumption DEF WorldTypeOK, RunnerStates, VMStates, worldVars
<1>1. Disconnected(i) \in [Ids -> RunnerStates]
  BY DEF Disconnected
<1>2. CASE (DeleteVM(i) \/ DeleteVMFails(i)) /\ UNCHANGED jobs
  BY <1>1, <1>2 DEF DeleteVMFails, DeleteVM, StopVM
<1>3. CASE VMLost(i) \/ RunnerDrops(i)
  BY <1>1, <1>3 DEF VMLost, RunnerDrops
<1>4. CASE \/ Register(i) /\ UNCHANGED <<vm, jobs>>
           \/ DeleteRunner(i) /\ UNCHANGED <<vm, jobs>>
           \/ RequestVM(i) /\ UNCHANGED <<runner, jobs>>
           \/ PushConfig(i) /\ UNCHANGED <<runner, jobs>>
           \/ SeeAtWork(i) /\ UNCHANGED <<vm, jobs>>
           \/ UNCHANGED worldVars
  BY <1>4 DEF SeeAtWork, Register, DeleteRunner, RequestVM, PushConfig
<1>5. CASE VMAppears(i) \/ RunnerConnects(i) \/ RunnerExpires(i) \/ CreationFails(i)
  BY <1>5 DEF VMAppears, RunnerConnects, RunnerExpires, CreationFails
<1>6. CASE JobStarts(i) \/ JobEnds(i) \/ JobQueued
  BY <1>6 DEF JobStarts, JobEnds, JobQueued
<1> QED BY <1>2, <1>3, <1>4, <1>5, <1>6

\* A pass that ends leaves nothing of its loops.
LEMMA PassEndType == EndPass => PassTypeOK'
  BY BoundsAssumption DEF EndPass, PassTypeOK, PassSteps, NoRows, Unlisted

\* What a goroutine does next, and what it has still to delete.
LEMMA WorkType ==
    ASSUME WorkTypeOK, NEW i \in Ids,
           \/ UNCHANGED workVars
           \/ \E s \in Steps :
                 \/ Returns(i, s)
                 \/ Goto(i, s) /\ UNCHANGED <<undo, dirty>>
                 \/ /\ Goto(i, s)
                    /\ \E u \in SUBSET {"runner", "vm"} : undo' = [undo EXCEPT ![i] = u]
                    /\ UNCHANGED dirty
                 \/ Goto(i, s) /\ dirty' = [dirty EXCEPT ![i] = TRUE] /\ UNCHANGED undo
    PROVE  WorkTypeOK'
  BY DEF WorkTypeOK, workVars, Returns, Goto

\* A call that only uses the budget of faults.
LEMMA BudgetType ==
    ASSUME CountersTypeOK, UNCHANGED <<circuitVars, resultVars, crashes>>,
           Works \/ Fault
    PROVE  CountersTypeOK'
<1>1. /\ attempts' \in 0 .. AttemptLimit /\ pause' \in Pauses
      /\ faults' \in 0 .. MaxFaults /\ crashes' \in 0 .. MaxCrashes
  BY BoundsAssumption DEF CountersTypeOK, circuitVars, Works, Fault
<1>2. won' \in BOOLEAN /\ lost' \in BOOLEAN
  BY DEF CountersTypeOK, resultVars
<1> QED BY <1>1, <1>2 DEF CountersTypeOK

LEMMA CallsUseBudget ==
    /\ Answers => Works
    /\ CallFails => Works \/ Fault
  BY DEF Answers, CallFails

LEMMA UnchangedTypes ==
    /\ StoreTypeOK /\ UNCHANGED rowVars => StoreTypeOK'
    /\ WorldTypeOK /\ UNCHANGED worldVars => WorldTypeOK'
    /\ PassTypeOK /\ UNCHANGED passVars => PassTypeOK'
    /\ WorkTypeOK /\ UNCHANGED workVars => WorkTypeOK'
<1>1. StoreTypeOK /\ UNCHANGED rowVars => StoreTypeOK'
  BY DEF StoreTypeOK, rowVars
<1>2. WorldTypeOK /\ UNCHANGED worldVars => WorldTypeOK'
  BY DEF WorldTypeOK, worldVars
<1>3. PassTypeOK /\ UNCHANGED passVars => PassTypeOK'
  BY DEF PassTypeOK, passVars
<1>4. WorkTypeOK /\ UNCHANGED workVars => WorkTypeOK'
  BY DEF WorkTypeOK, workVars
<1> QED BY <1>1, <1>2, <1>3, <1>4

LEMMA StartCleanupType ==
    ASSUME TypeOK, NEW i \in Ids, NEW why \in Reasons \union {NoReason},
           NEW known \in BOOLEAN, StartCleanup(i, why, known)
    PROVE  /\ Works
           /\ StoreTypeOK'
           /\ WorkTypeOK'
<1>1. Works
  BY DEF StartCleanup, Answers
<1>2. StoreTypeOK'
  BY WriteType DEF StartCleanup, TypeOK
<1>3. WorkTypeOK'
  BY DEF StartCleanup, TypeOK, WorkTypeOK, Goto, Steps, CleanupSteps
<1> QED BY <1>1, <1>2, <1>3

\* The goroutines and the cleanup.
LEMMA WorkStepType ==
    ASSUME TypeOK, NEW i \in Ids, Work(i)
    PROVE  TypeOK'
<1> USE UnchangedTypes, CallsUseBudget DEF TypeOK
<1>1. CASE CleanRunner(i)
  <2>1. StoreTypeOK' /\ PassTypeOK'
    BY <1>1 DEF CleanRunner
  <2>2. WorldTypeOK'
    BY <1>1, WorldType DEF CleanRunner, worldVars
  <2>3. WorkTypeOK'
    BY <1>1, WorkType DEF CleanRunner, Steps, CleanupSteps
  <2>4. CountersTypeOK'
    BY <1>1, BudgetType DEF CleanRunner
  <2> QED BY <2>1, <2>2, <2>3, <2>4
<1>2. CASE CleanMachine(i)
  <2>1. StoreTypeOK' /\ PassTypeOK'
    BY <1>2 DEF CleanMachine
  <2>2. WorldTypeOK'
    BY <1>2, WorldType DEF CleanMachine, worldVars
  <2>3. WorkTypeOK'
    BY <1>2, WorkType DEF CleanMachine, Steps, CleanupSteps
  <2>4. CountersTypeOK'
    BY <1>2, BudgetType DEF CleanMachine, WriteFails
  <2> QED BY <2>1, <2>2, <2>3, <2>4
<1>3. CASE CleanPostpone(i)
  <2>1. StoreTypeOK' /\ PassTypeOK'
    BY <1>3, WriteType DEF CleanPostpone, passVars
  <2>2. WorldTypeOK'
    BY <1>3 DEF CleanPostpone
  <2>3. WorkTypeOK'
    BY <1>3, WorkType DEF CleanPostpone, Steps, CleanupSteps
  <2>4. CountersTypeOK'
    BY <1>3, BudgetType DEF CleanPostpone
  <2> QED BY <2>1, <2>2, <2>3, <2>4
<1>4. CASE CleanFinish(i)
  <2>1. StoreTypeOK' /\ PassTypeOK'
    BY <1>4, WriteType DEF CleanFinish, passVars
  <2>2. WorldTypeOK'
    BY <1>4 DEF CleanFinish
  <2>3. WorkTypeOK'
    BY <1>4, WorkType DEF CleanFinish, Steps, CleanupSteps
  <2>4. CountersTypeOK'
    BY <1>4, BudgetType DEF CleanFinish, WriteFails
  <2> QED BY <2>1, <2>2, <2>3, <2>4
<1>5. CASE ProvisionInsert(i)
  <2>1. StoreTypeOK' /\ PassTypeOK'
    BY <1>5, WriteType DEF ProvisionInsert, passVars
  <2>2. WorldTypeOK'
    BY <1>5 DEF ProvisionInsert
  <2>3. WorkTypeOK'
    BY <1>5, WorkType DEF ProvisionInsert, Fail, GivesUp, Steps, ProvisionSteps, UndoSteps
  <2>4. CountersTypeOK'
    BY <1>5, BudgetType DEF ProvisionInsert, Fail, GivesUp
  <2> QED BY <2>1, <2>2, <2>3, <2>4
<1>6. CASE ProvisionRegister(i)
  <2>1. StoreTypeOK' /\ PassTypeOK'
    BY <1>6 DEF ProvisionRegister
  <2>2. WorldTypeOK'
    BY <1>6, WorldType DEF ProvisionRegister, worldVars
  <2>3. WorkTypeOK'
    BY <1>6, WorkType DEF ProvisionRegister, Fail, GivesUp, Steps, ProvisionSteps, UndoSteps
  <2>4. CountersTypeOK'
    BY <1>6, BudgetType DEF ProvisionRegister, Fail, GivesUp, WriteFails
  <2> QED BY <2>1, <2>2, <2>3, <2>4
<1>7. CASE ProvisionRecord(i)
  <2>1. StoreTypeOK' /\ PassTypeOK'
    BY <1>7, WriteType DEF ProvisionRecord, passVars
  <2>2. WorldTypeOK'
    BY <1>7 DEF ProvisionRecord
  <2>3. WorkTypeOK'
    BY <1>7, WorkType DEF ProvisionRecord, Fail, GivesUp, Steps, ProvisionSteps, UndoSteps
  <2>4. CountersTypeOK'
    BY <1>7, BudgetType DEF ProvisionRecord, Fail, GivesUp
  <2> QED BY <2>1, <2>2, <2>3, <2>4
<1>8. CASE ProvisionRequest(i)
  <2>1. StoreTypeOK' /\ PassTypeOK'
    BY <1>8 DEF ProvisionRequest
  <2>2. WorldTypeOK'
    BY <1>8, WorldType DEF ProvisionRequest, worldVars
  <2>3. WorkTypeOK'
    BY <1>8, WorkType DEF ProvisionRequest, Fail, GivesUp, Steps, ProvisionSteps, UndoSteps
  <2>4. CountersTypeOK'
    BY <1>8, BudgetType DEF ProvisionRequest, Fail, GivesUp, WriteFails
  <2> QED BY <2>1, <2>2, <2>3, <2>4
<1>9. CASE ProvisionVerify(i)
  <2>1. StoreTypeOK' /\ PassTypeOK'
    BY <1>9 DEF ProvisionVerify
  <2>2. WorldTypeOK'
    BY <1>9 DEF ProvisionVerify
  <2>3. WorkTypeOK'
    BY <1>9, WorkType DEF ProvisionVerify, Fail, GivesUp, Steps, ProvisionSteps, UndoSteps
  <2>4. CountersTypeOK'
    BY <1>9, BudgetType DEF ProvisionVerify, Fail, GivesUp
  <2> QED BY <2>1, <2>2, <2>3, <2>4
<1>10. CASE ProvisionBoot(i)
  <2>1. StoreTypeOK' /\ PassTypeOK'
    BY <1>10 DEF ProvisionBoot
  <2>2. WorldTypeOK'
    BY <1>10, WorldType DEF ProvisionBoot, worldVars
  <2>3. WorkTypeOK'
    BY <1>10, WorkType DEF ProvisionBoot, Fail, GivesUp, Steps, ProvisionSteps, UndoSteps
  <2>4. CountersTypeOK'
    BY <1>10, BudgetType DEF ProvisionBoot, Fail, GivesUp
  <2> QED BY <2>1, <2>2, <2>3, <2>4
<1>11. CASE UndoBegin(i)
  <2>1. StoreTypeOK' /\ PassTypeOK'
    BY <1>11, WriteType DEF UndoBegin, passVars, Reasons, FailureReasons
  <2>2. WorldTypeOK'
    BY <1>11 DEF UndoBegin
  <2>3. WorkTypeOK'
    BY <1>11, WorkType DEF UndoBegin, Steps, UndoSteps
  <2>4. CountersTypeOK'
    BY <1>11, BudgetType DEF UndoBegin
  <2> QED BY <2>1, <2>2, <2>3, <2>4
<1>12. CASE UndoRunner(i)
  <2>1. StoreTypeOK' /\ PassTypeOK'
    BY <1>12 DEF UndoRunner
  <2>2. WorldTypeOK'
    BY <1>12, WorldType DEF UndoRunner, worldVars
  <2>3. WorkTypeOK'
    BY <1>12, WorkType DEF UndoRunner, Steps, UndoSteps
  <2>4. CountersTypeOK'
    BY <1>12, BudgetType DEF UndoRunner
  <2> QED BY <2>1, <2>2, <2>3, <2>4
<1>13. CASE UndoVM(i)
  <2>1. StoreTypeOK' /\ PassTypeOK'
    BY <1>13 DEF UndoVM
  <2>2. WorldTypeOK'
    BY <1>13, WorldType DEF UndoVM, worldVars
  <2>3. WorkTypeOK'
    BY <1>13, WorkType DEF UndoVM, Steps, UndoSteps
  <2>4. CountersTypeOK'
    BY <1>13, BudgetType DEF UndoVM
  <2> QED BY <2>1, <2>2, <2>3, <2>4
<1>14. CASE UndoEnd(i)
  <2>1. StoreTypeOK' /\ PassTypeOK'
    BY <1>14, WriteType DEF UndoEnd, passVars
  <2>2. WorldTypeOK'
    BY <1>14 DEF UndoEnd
  <2>3. WorkTypeOK'
    BY <1>14, WorkType DEF UndoEnd, Steps, UndoSteps
  <2>4. CountersTypeOK'
    BY <1>14, BudgetType DEF UndoEnd
  <2> QED BY <2>1, <2>2, <2>3, <2>4
<1>15. CASE ProvisionAwait(i)
  <2> WorldTypeOK'
    BY <1>15, WorldType DEF ProvisionAwait, worldVars
  <2>1. CASE StartCleanup(i, "job_completed", TRUE)
    BY <1>15, <2>1, StartCleanupType, BudgetType
       DEF ProvisionAwait, Reasons, SuccessReasons
  <2>2. CASE ~StartCleanup(i, "job_completed", TRUE)
    <3>1. StoreTypeOK' /\ PassTypeOK'
      BY <1>15, <2>2, WriteType DEF ProvisionAwait
    <3>2. WorkTypeOK'
      BY <1>15, <2>2, WorkType DEF ProvisionAwait, GivesUp, Fail, Steps, UndoSteps
    <3>3. CountersTypeOK'
      BY <1>15, <2>2, BudgetType DEF ProvisionAwait, GivesUp, WriteFails
    <3> QED BY <3>1, <3>2, <3>3
  <2> QED BY <2>1, <2>2
<1> QED BY <1>1, <1>2, <1>3, <1>4, <1>5, <1>6, <1>7, <1>8, <1>9, <1>10, <1>11, <1>12, <1>13, <1>14, <1>15 DEF Work

LEMMA PassCleanupType ==
    ASSUME TypeOK, NEW i \in Ids, NEW why \in Reasons \union {NoReason},
           PassCleanup(i, why)
    PROVE  TypeOK'
<1> USE UnchangedTypes DEF TypeOK
<1>1. CASE StartCleanup(i, why, snap[i].registered) /\ UNCHANGED passVars
  <2>1. snap[i].registered \in BOOLEAN
    BY DEF PassTypeOK
  <2>2. Works /\ StoreTypeOK' /\ WorkTypeOK'
    BY <1>1, <2>1, StartCleanupType
  <2>3. CountersTypeOK' /\ WorldTypeOK' /\ PassTypeOK'
    BY <1>1, <2>2, BudgetType DEF PassCleanup
  <2> QED BY <2>2, <2>3
<1>2. CASE WriteFails(AcceptsState(i, "cleaning")) /\ EndPass /\ UNCHANGED <<rowVars, workVars>>
  BY <1>2, CallsUseBudget, PassEndType, BudgetType DEF PassCleanup, WriteFails
<1> QED BY <1>1, <1>2 DEF PassCleanup

\* One row leaves the loop.
LEMMA DoneType ==
    ASSUME PassTypeOK, NEW i \in Ids, Done(i) PROVE PassTypeOK'
  BY DEF PassTypeOK, Done

LEMMA RetireReasonType ==
    ASSUME StoreTypeOK, NEW i \in Ids
    PROVE  RetireReason(i) \in Reasons \union {NoReason}
  BY DEF RetireReason, StoreTypeOK, Reasons, SuccessReasons, FailureReasons

\* The loops of the pass, and what returns to them.
LEMMA VisitStepType ==
    ASSUME TypeOK, NEW i \in Ids, Visit(i)
    PROVE  TypeOK'
<1> USE UnchangedTypes, CallsUseBudget DEF TypeOK
<1>1. CASE DeleteOrphanVM(i)
  <2>1. PassTypeOK'
    BY <1>1, PassEndType DEF DeleteOrphanVM, PassTypeOK
  <2>2. StoreTypeOK' /\ WorldTypeOK' /\ WorkTypeOK'
    BY <1>1, WorldType DEF DeleteOrphanVM, worldVars
  <2>3. CountersTypeOK'
    BY <1>1, BudgetType DEF DeleteOrphanVM
  <2> QED BY <2>1, <2>2, <2>3
<1>2. CASE DeleteOrphanRunner(i)
  <2>1. PassTypeOK'
    BY <1>2, PassEndType DEF DeleteOrphanRunner, PassTypeOK
  <2>2. StoreTypeOK' /\ WorldTypeOK' /\ WorkTypeOK'
    BY <1>2, WorldType DEF DeleteOrphanRunner, worldVars
  <2>3. CountersTypeOK'
    BY <1>2, BudgetType DEF DeleteOrphanRunner
  <2> QED BY <2>1, <2>2, <2>3
<1>3. CASE RetireMissing(i) \/ VisitRetire(i) \/ ScaleDown(i)
  BY <1>3, PassCleanupType, RetireReasonType
     DEF RetireMissing, VisitRetire, ScaleDown, Reasons, SuccessReasons, FailureReasons
<1>4. CASE VisitPostponed(i) \/ ScaleDownSkip(i)
  BY <1>4, DoneType, BudgetType
     DEF VisitPostponed, ScaleDownSkip, Works
<1>5. CASE VisitObserve(i)
  <2> DEFINE s == IF Status(i) = "idle" THEN "ready" ELSE "running"
  <2>1. StoreTypeOK'
    BY <1>5, WriteType DEF VisitObserve
  <2>2. PassTypeOK'
    BY <1>5, DoneType, PassEndType DEF VisitObserve
  <2>3. WorldTypeOK' /\ WorkTypeOK'
    BY <1>5, WorldType DEF VisitObserve, worldVars
  <2>4. CountersTypeOK'
    BY <1>5, BudgetType DEF VisitObserve, WriteFails
  <2> QED BY <2>1, <2>2, <2>3, <2>4
<1>6. CASE CleanupReturns(i)
  <2>1. PassTypeOK'
    BY <1>6, PassEndType DEF CleanupReturns, PassTypeOK
  <2>2. WorkTypeOK'
    BY <1>6, WorkType DEF CleanupReturns, Steps
  <2>3. StoreTypeOK' /\ WorldTypeOK' /\ CountersTypeOK'
    BY <1>6, BudgetType DEF CleanupReturns, Works
  <2> QED BY <2>1, <2>2, <2>3
<1>7. CASE Collect(i)
  <2>1. WorkTypeOK'
    BY <1>7, WorkType DEF Collect, Steps
  <2>2. StoreTypeOK' /\ WorldTypeOK' /\ PassTypeOK'
    BY <1>7 DEF Collect
  <2>3. won' \in BOOLEAN /\ lost' \in BOOLEAN
    BY <1>7 DEF Collect
  <2>4. CountersTypeOK'
    BY <1>7, <2>3 DEF Collect, CountersTypeOK, circuitVars
  <2> QED BY <2>1, <2>2, <2>4
<1> QED BY <1>1, <1>2, <1>3, <1>4, <1>5, <1>6, <1>7 DEF Visit

LEMMA StartProvisioningType ==
    ASSUME TypeOK, StartProvisioning
    PROVE  TypeOK'
<1> DEFINE grant == Reserve(attempts, pause, Needed, AttemptLimit)
           spawned == Least(grant.count, Cardinality(Fresh))
<1> USE UnchangedTypes DEF TypeOK
<1>1. /\ grant.attempts \in 0 .. AttemptLimit
      /\ grant.pause \in Pauses
  BY NeededType, ReserveType DEF StartProvisioning, PassTypeOK, CountersTypeOK
<1>2. StoreTypeOK' /\ WorldTypeOK'
  BY DEF StartProvisioning
<1>3. attempts' = grant.attempts /\ pause' = grant.pause
  BY DEF StartProvisioning
<1>4. CASE EndPass /\ UNCHANGED <<step, lost>>
  <2>1. WorkTypeOK' /\ PassTypeOK'
    BY <1>4, PassEndType DEF StartProvisioning, workVars
  <2>2. won' \in BOOLEAN /\ lost' \in BOOLEAN
    BY <1>4 DEF StartProvisioning, CountersTypeOK
  <2>3. CountersTypeOK'
    BY <1>1, <1>3, <2>2 DEF StartProvisioning, CountersTypeOK
  <2> QED BY <1>2, <2>1, <2>3
<1>5. CASE /\ \E starts \in SUBSET Fresh :
                /\ Cardinality(starts) = spawned
                /\ step' = [i \in Ids |-> IF i \in starts THEN "insert"
                                          ELSE step[i]]
           /\ lost' = (spawned < grant.count)
           /\ pc' = "provision" /\ snap' = NoRows /\ todo' = {}
           /\ waiting' = 0 /\ excess' = 0 /\ UNCHANGED missing
  <2>1. WorkTypeOK'
    BY <1>5 DEF StartProvisioning, WorkTypeOK, Steps, ProvisionSteps
  <2>2. PassTypeOK'
    BY <1>5, BoundsAssumption DEF PassTypeOK, PassSteps, NoRows, Unlisted
  <2>3. won' \in BOOLEAN /\ lost' \in BOOLEAN
    BY <1>5 DEF StartProvisioning, CountersTypeOK
  <2>4. CountersTypeOK'
    BY <1>1, <1>3, <2>3 DEF StartProvisioning, CountersTypeOK
  <2> QED BY <1>2, <2>1, <2>2, <2>4
<1> QED BY <1>4, <1>5 DEF StartProvisioning

\* The pass between its loops.
LEMMA PassStepType ==
    ASSUME TypeOK, Pass
    PROVE  TypeOK'
<1> USE UnchangedTypes, CallsUseBudget DEF TypeOK
<1>1. CASE StartPass
  BY <1>1, ListingType, BudgetType DEF StartPass, PassTypeOK, PassSteps, Works
<1>2. CASE ListManaged
  <2>1. PassTypeOK'
    BY <1>2 DEF ListManaged, PassTypeOK, PassSteps, OrphanVMs, Listed
  <2> QED BY <1>2, <2>1, BudgetType DEF ListManaged, Works
<1>3. CASE OrphanVMsDone
  <2>1. PassTypeOK'
    BY <1>3 DEF OrphanVMsDone, PassTypeOK, PassSteps
  <2> QED BY <1>3, <2>1, BudgetType DEF OrphanVMsDone, Works
<1>4. CASE ListRunners
  <2>1. PassTypeOK'
    BY <1>4 DEF ListRunners, PassTypeOK, PassSteps, OrphanRunners
  <2> QED BY <1>4, <2>1, BudgetType DEF ListRunners
<1>5. CASE ListInstances
  <2>1. PassTypeOK'
    BY <1>5, ListingType DEF ListInstances, PassTypeOK, PassSteps, Live
  <2> QED BY <1>5, <2>1, BudgetType DEF ListInstances, Works
<1>6. CASE FetchJobs
  <2>1. Cardinality(InState("ready")) \in Nat
    BY CountsAreNaturals DEF InState, Live
  <2>2. PassTypeOK'
    BY <1>6, <2>1, ListingType, BoundsAssumption, ScalingAssumption
       DEF FetchJobs, PassTypeOK, WorldTypeOK, PassSteps, InState, Live
  <2> QED BY <1>6, <2>2, BudgetType DEF FetchJobs, Works
<1>7. CASE NothingNeeded
  BY <1>7, PassEndType, BudgetType DEF NothingNeeded, Works
<1>8. CASE StartProvisioning
  BY <1>8, StartProvisioningType
<1>9. CASE Settle
  <2>1. won' \in BOOLEAN /\ lost' \in BOOLEAN
    BY <1>9 DEF Settle
  <2>2. CountersTypeOK'
    BY <1>9, <2>1, ScalingAssumption, BoundsAssumption
       DEF Settle, CountersTypeOK, Pauses, Works, Fault, circuitVars
  <2> QED BY <1>9, <2>2, PassEndType DEF Settle
<1>10. CASE PassCallFails
  BY <1>10, PassEndType, BudgetType DEF PassCallFails
<1>11. CASE \E i \in Ids : Visit(i)
  BY <1>11, VisitStepType
<1> QED BY <1>1, <1>2, <1>3, <1>4, <1>5, <1>6, <1>7, <1>8, <1>9, <1>10, <1>11 DEF Pass

\* Everything outside the controller, and its crash.
LEMMA OutsideStepType ==
    ASSUME TypeOK,
           \/ \E i \in Ids : Clock(i) \/ Outside(i) \/ Damage(i)
           \/ Crash \/ PauseEnds \/ Queue
    PROVE  TypeOK'
<1> USE UnchangedTypes DEF TypeOK
<1>1. ASSUME NEW i \in Ids, Clock(i) PROVE TypeOK'
  BY <1>1, WriteType, BudgetType DEF Clock, Works
<1>2. ASSUME NEW i \in Ids, Outside(i) PROVE TypeOK'
  BY <1>2, WorldType, BudgetType DEF Outside, Works
<1>3. ASSUME NEW i \in Ids, Damage(i) PROVE TypeOK'
  BY <1>3, WorldType, BudgetType DEF Damage
<1>4. CASE Crash
  <2>1. WorkTypeOK'
    BY <1>4 DEF Crash, WorkTypeOK, Steps
  <2>2. won' \in BOOLEAN /\ lost' \in BOOLEAN
    BY <1>4 DEF Crash
  <2>3. CountersTypeOK'
    BY <1>4, <2>2, BoundsAssumption DEF Crash, CountersTypeOK, circuitVars
  <2> QED BY <1>4, <2>1, <2>3, PassEndType DEF Crash
<1>5. CASE PauseEnds
  <2>1. CountersTypeOK'
    BY <1>5 DEF PauseEnds, CountersTypeOK, Pauses, resultVars
  <2> QED BY <1>5, <2>1 DEF PauseEnds
<1>6. CASE Queue
  <2>1. WorldTypeOK'
    BY <1>6, BoundsAssumption DEF Queue, JobQueued, WorldTypeOK
  <2> QED BY <1>6, <2>1, BudgetType DEF Queue, Works
<1> QED BY <1>1, <1>2, <1>3, <1>4, <1>5, <1>6

LEMMA TypeStep == TypeOK /\ [Next]_vars => TypeOK'
<1> SUFFICES ASSUME TypeOK, [Next]_vars PROVE TypeOK'
  OBVIOUS
<1>1. CASE UNCHANGED vars
  <2>1. CountersTypeOK'
    BY <1>1 DEF TypeOK, CountersTypeOK, vars, circuitVars, resultVars
  <2> QED BY <1>1, <2>1, UnchangedTypes DEF TypeOK, vars
<1>2. CASE Next
  BY <1>2, WorkStepType, PassStepType, OutsideStepType DEF Next
<1> QED BY <1>1, <1>2

\* Every state the controller, its failures, its crashes and the outside can
\* reach has well-formed rows, and the attempts of the bootstrap circuit never
\* pass bootstrap_attempt_limit.
THEOREM TypeCorrect == Spec => []TypeOK
  BY TypeInit, TypeStep, PTL DEF Spec
=============================================================================
