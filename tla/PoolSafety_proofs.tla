------------------------- MODULE PoolSafety_proofs -------------------------
(***************************************************************************)
(* IInv is inductive: the controller's stale knowledge of its rows never   *)
(* misleads it, for any number of instances, faults and crashes.  What it  *)
(* writes of a row, and deletes of what the row stands for, then comes in  *)
(* one order only.                                                         *)
(***************************************************************************)
EXTENDS PoolInvariant, PoolController_proofs

\* What is proved of a step, types aside.
Known == OneAtATime /\ RowFits /\ Unvisited /\ OrphansKnown

LEMMA KnownInit == Init => Known
  BY DEF Init, Known, OneAtATime, RowFits, Unvisited, OrphansKnown, LoopsWithCleanup,
         ProvisionSteps, UndoSteps, CleanupSteps

\* Outside of provisioning and the loops with a cleanup nothing is at work.
LEMMA NothingAtWork ==
    ASSUME IInv, pc \notin LoopsWithCleanup \union {"provision"}
    PROVE  Quiet
  BY DEF IInv, OneAtATime, Quiet, LoopsWithCleanup

\* A pass that ends with nothing at work needs to know nothing.
LEMMA KnownAtRest ==
    ASSUME IInv, Quiet, EndPass, UNCHANGED workVars
    PROVE  Known'
<1>1. \A i \in Ids : step'[i] = "none" /\ ~dirty'[i]
  BY DEF IInv, RowFits, Quiet, workVars
<1>2. pc' = "idle"
  BY DEF EndPass
<1> QED BY <1>1, <1>2 DEF Known, OneAtATime, RowFits, Unvisited, OrphansKnown,
           LoopsWithCleanup, ProvisionSteps, UndoSteps, CleanupSteps

-----------------------------------------------------------------------------
(* Goroutines and cleanups.                                                *)

\* Work on an instance touches its own row only and stays work; a cleanup
\* stays a cleanup.
OwnWork(i) ==
    /\ UNCHANGED passVars
    /\ \A j \in Ids \ {i} : /\ state'[j] = state[j]
                            /\ registered'[j] = registered[j]
                            /\ step'[j] = step[j]
                            /\ dirty'[j] = dirty[j]
    /\ step[i] # "none" /\ step'[i] # "none"
    /\ step'[i] \in ProvisionSteps \union UndoSteps =>
           step[i] \in ProvisionSteps \union UndoSteps
    /\ step[i] \notin ProvisionSteps \union UndoSteps =>
           /\ registered'[i] = registered[i]
           /\ i \in Live' => i \in Live

\* The row of i after a step of i.
Fits(i) ==
    /\ step[i] = "insert" => state[i] = Absent
    /\ step[i] \in ProvisionSteps \ {"insert"} => state[i] = "bootstrapping"
    /\ step[i] \in CleanupSteps => state[i] = "cleaning"
    /\ step[i] = "undoBegin" => state[i] = "bootstrapping"
    /\ step[i] \in {"undoRunner", "undoVM", "undoEnd"} /\ ~dirty[i] =>
           state[i] = "cleaning"
    /\ dirty[i] => step[i] \in {"undoRunner", "undoVM", "undoEnd"}

LEMMA OwnWorkIsEnough ==
    ASSUME IInv, NEW i \in Ids, OwnWork(i), Fits(i)'
    PROVE  Known'
<1>1. RowFits'
  BY DEF IInv, RowFits, OwnWork, Fits
<1>2. OneAtATime'
  BY DEF IInv, OneAtATime, OwnWork, passVars, LoopsWithCleanup
<1>3. Unvisited'
  BY DEF IInv, TypeOK, PassTypeOK, Unvisited, OwnWork, passVars, Live, Row
<1>4. CASE pc = "provision"
  BY <1>1, <1>2, <1>3, <1>4 DEF Known, OrphansKnown, OwnWork, passVars
<1>5. CASE pc # "provision"
  <2>1. step[i] \notin ProvisionSteps \union UndoSteps /\ pc \in LoopsWithCleanup
    BY <1>5 DEF IInv, OneAtATime, OwnWork
  <2>2. \A j \in Live' : j \in Live /\ registered'[j] = registered[j]
    BY <2>1 DEF OwnWork, Live
  <2>3. OrphansKnown'
    BY <2>1, <2>2 DEF IInv, OrphansKnown, OwnWork, passVars, LoopsWithCleanup
  <2> QED BY <1>1, <1>2, <1>3, <2>3 DEF Known
<1> QED BY <1>4, <1>5

LEMMA StartCleanupKnown ==
    ASSUME IInv, NEW i \in Ids, NEW why, NEW known, StartCleanup(i, why, known)
    PROVE  /\ state'[i] = "cleaning" /\ step'[i] = "runner"
           /\ \A j \in Ids \ {i} : state'[j] = state[j] /\ step'[j] = step[j]
           /\ i \in Live
           /\ UNCHANGED <<registered, dirty>>
<1>1. state \in [Ids -> States \union {Absent}] /\ step \in [Ids -> Steps]
  BY DEF IInv, TypeOK, StoreTypeOK, WorkTypeOK
<1> QED BY <1>1 DEF StartCleanup, BeginCleanup, WriteState, Goto, Live, AcceptsState,
           CanTransition, Absent

LEMMA WorkIsOwn ==
    ASSUME IInv, NEW i \in Ids, Work(i)
    PROVE  OwnWork(i) /\ Fits(i)'
<1>1. /\ state \in [Ids -> States \union {Absent}]
      /\ registered \in [Ids -> BOOLEAN]
      /\ step \in [Ids -> Steps]
      /\ dirty \in [Ids -> BOOLEAN]
  BY DEF IInv, TypeOK, StoreTypeOK, WorkTypeOK
<1>2. Fits(i)
  BY DEF IInv, RowFits, Fits
<1> USE <1>1, <1>2 DEF Fits, OwnWork, ProvisionSteps, UndoSteps, CleanupSteps, Goto,
        Returns, rowVars, passVars, WriteState, Absent
<1>4. CASE CleanRunner(i)
  BY <1>4 DEF CleanRunner, Live
<1>5. CASE CleanMachine(i)
  BY <1>5 DEF CleanMachine, Live
<1>6. CASE CleanPostpone(i)
  BY <1>6 DEF CleanPostpone, Retry, Live
<1>7. CASE CleanFinish(i)
  BY <1>7 DEF CleanFinish, FinishCleanup, Live
<1>8. CASE ProvisionInsert(i)
  BY <1>8 DEF ProvisionInsert, Create
<1>9. CASE ProvisionRegister(i)
  BY <1>9 DEF ProvisionRegister, Fail
<1>10. CASE ProvisionRecord(i)
  BY <1>10 DEF ProvisionRecord, SetRegistration, Fail
<1>11. CASE ProvisionRequest(i)
  BY <1>11 DEF ProvisionRequest, Fail
<1>12. CASE ProvisionVerify(i)
  BY <1>12 DEF ProvisionVerify, GivesUp, Fail
<1>13. CASE ProvisionBoot(i)
  BY <1>13 DEF ProvisionBoot, GivesUp, Fail
<1>14. CASE ProvisionAwait(i)
  <2>1. CASE StartCleanup(i, "job_completed", TRUE)
    BY <1>14, <2>1, StartCleanupKnown DEF ProvisionAwait
  <2>2. CASE ~StartCleanup(i, "job_completed", TRUE)
    BY <1>14, <2>2 DEF ProvisionAwait, SetOperationalState, GivesUp, Fail
  <2> QED BY <2>1, <2>2
<1>15. CASE UndoBegin(i)
  BY <1>15 DEF UndoBegin, BeginCleanup
<1>16. CASE UndoRunner(i)
  BY <1>16 DEF UndoRunner
<1>17. CASE UndoVM(i)
  BY <1>17 DEF UndoVM
<1>18. CASE UndoEnd(i)
  BY <1>18 DEF UndoEnd, FinishCleanup, Retry
<1> QED BY <1>4, <1>5, <1>6, <1>7, <1>8, <1>9, <1>10, <1>11, <1>12, <1>13, <1>14,
           <1>15, <1>16, <1>17, <1>18 DEF Work

LEMMA WorkKnown ==
    ASSUME IInv, NEW i \in Ids, Work(i)
    PROVE  Known'
BY WorkIsOwn, OwnWorkIsEnough

-----------------------------------------------------------------------------
(* The pass.                                                               *)

\* Nothing is at work, and no row changes.
AtRest == /\ \A i \in Ids : step'[i] = "none" /\ ~dirty'[i]
          /\ UNCHANGED <<state, registered>>

LEMMA RestsWhenQuiet ==
    ASSUME IInv, Quiet, UNCHANGED <<rowVars, workVars>>
    PROVE  AtRest /\ OneAtATime' /\ RowFits' /\ Listing' = Listing
<1>1. AtRest
  BY DEF IInv, RowFits, AtRest, Quiet, rowVars, workVars
<1>2. Listing' = Listing
  BY <1>1 DEF AtRest, Listing, Live, Row
<1> QED BY <1>1, <1>2 DEF AtRest, OneAtATime, RowFits, ProvisionSteps, UndoSteps, CleanupSteps

\* The pass starts to clean up a row, or stops.
LEMMA PassCleanupKnown ==
    ASSUME IInv, Quiet, NEW i \in todo, NEW why, pc \in LoopsWithCleanup,
           PassCleanup(i, why)
    PROVE  Known'
<1>1. i \in Ids /\ todo \subseteq Ids
  BY DEF IInv, TypeOK, PassTypeOK
<1>2. CASE EndPass /\ UNCHANGED <<rowVars, workVars>>
  BY <1>2, KnownAtRest
<1>3. CASE StartCleanup(i, why, snap[i].registered) /\ UNCHANGED passVars
  <2>1. /\ state'[i] = "cleaning" /\ step'[i] = "runner"
        /\ \A j \in Ids \ {i} : state'[j] = state[j] /\ step'[j] = "none"
        /\ i \in Live
        /\ UNCHANGED <<registered, passVars>>
        /\ \A j \in Ids : ~dirty'[j]
    <3>1. \A j \in Ids : ~dirty[j] /\ step[j] = "none"
      BY DEF IInv, RowFits, Quiet
    <3> QED BY <1>1, <1>3, <3>1, StartCleanupKnown
  <2>2. OneAtATime'
    BY <1>1, <2>1 DEF OneAtATime, passVars, ProvisionSteps, UndoSteps
  <2>3. RowFits'
    BY <1>1, <2>1 DEF RowFits, ProvisionSteps, UndoSteps, CleanupSteps
  <2>4. Unvisited'
    BY <1>1, <2>1 DEF IInv, Unvisited, passVars, Quiet, Live, Row
  <2>5. Live' = Live
    BY <1>1, <2>1 DEF Live, Absent
  <2>6. OrphansKnown'
    BY <2>1, <2>5 DEF IInv, OrphansKnown, passVars, LoopsWithCleanup
  <2> QED BY <2>2, <2>3, <2>4, <2>6 DEF Known
<1> QED BY <1>2, <1>3 DEF PassCleanup

LEMMA VisitKnown ==
    ASSUME IInv, NEW i \in Ids, Visit(i)
    PROVE  Known'
<1>1. CASE DeleteOrphanVM(i)
  <2>1. Quiet
    BY <1>1, NothingAtWork DEF DeleteOrphanVM, LoopsWithCleanup
  <2>2. CASE EndPass
    BY <1>1, <2>1, <2>2, KnownAtRest DEF DeleteOrphanVM
  <2>3. CASE todo' = todo \ {i} /\ UNCHANGED <<pc, snap, missing, waiting, excess>>
    <3>1. AtRest /\ OneAtATime' /\ RowFits' /\ Listing' = Listing
      BY <1>1, <2>1, RestsWhenQuiet DEF DeleteOrphanVM
    <3>2. Unvisited'
      BY <1>1, <2>3 DEF DeleteOrphanVM, Unvisited, LoopsWithCleanup
    <3>3. Live' = Live
      BY <3>1 DEF AtRest, Live
    <3>4. OrphansKnown'
      BY <1>1, <2>3, <3>1, <3>3 DEF DeleteOrphanVM, IInv, OrphansKnown
    <3> QED BY <3>1, <3>2, <3>4 DEF Known
  <2> QED BY <1>1, <2>2, <2>3 DEF DeleteOrphanVM
<1>2. CASE DeleteOrphanRunner(i)
  <2>1. Quiet
    BY <1>2, NothingAtWork DEF DeleteOrphanRunner, LoopsWithCleanup
  <2>2. CASE EndPass
    BY <1>2, <2>1, <2>2, KnownAtRest DEF DeleteOrphanRunner
  <2>3. CASE todo' = todo \ {i} /\ UNCHANGED <<pc, snap, missing, waiting, excess>>
    BY <1>2, <2>1, <2>3, RestsWhenQuiet
       DEF DeleteOrphanRunner, Known, AtRest, IInv, Unvisited, OrphansKnown, Live, LoopsWithCleanup
  <2> QED BY <1>2, <2>2, <2>3 DEF DeleteOrphanRunner
<1>3. CASE RetireMissing(i) \/ VisitRetire(i) \/ ScaleDown(i)
  BY <1>3, PassCleanupKnown DEF RetireMissing, VisitRetire, ScaleDown, LoopsWithCleanup
<1>4. CASE VisitPostponed(i) \/ ScaleDownSkip(i)
  <2>1. AtRest /\ OneAtATime' /\ RowFits'
    BY <1>4, RestsWhenQuiet DEF VisitPostponed, ScaleDownSkip
  <2>2. /\ pc \in {"instances", "scaleDown"} /\ pc' = pc /\ snap' = snap
        /\ todo' \subseteq todo /\ todo \subseteq Ids /\ Quiet
    BY <1>4 DEF VisitPostponed, ScaleDownSkip, Done, IInv, TypeOK, PassTypeOK
  <2>3. Unvisited'
    BY <2>1, <2>2 DEF IInv, AtRest, Unvisited, Quiet, Live, Row, LoopsWithCleanup
  <2>4. OrphansKnown'
    BY <2>2 DEF OrphansKnown
  <2> QED BY <2>1, <2>3, <2>4 DEF Known
<1>5. CASE VisitObserve(i)
  <2>1. CASE EndPass
    BY <1>5, <2>1, KnownAtRest DEF VisitObserve, Done, EndPass
  <2>2. CASE Done(i)
    <3>1. /\ todo \subseteq Ids /\ state \in [Ids -> States \union {Absent}]
          /\ \A j \in Ids : step'[j] = "none" /\ ~dirty'[j]
      BY <1>5 DEF IInv, TypeOK, PassTypeOK, StoreTypeOK, RowFits, VisitObserve, Quiet, workVars
    <3>2. /\ pc' = "instances" /\ todo' = todo \ {i} /\ snap' = snap
          /\ \A j \in todo' : j \in Ids \ {i} /\ j \in Live /\ snap[j] = Row(j)
      BY <1>5, <2>2, <3>1 DEF VisitObserve, Done, IInv, Unvisited, LoopsWithCleanup, Quiet
    <3>3. \A j \in Ids \ {i} : state'[j] = state[j] /\ registered'[j] = registered[j]
      BY <1>5, <3>1 DEF VisitObserve, SetOperationalState, WriteState, rowVars
    <3> QED BY <3>1, <3>2, <3>3
            DEF Known, OneAtATime, RowFits, Unvisited, OrphansKnown, Live, Row,
                ProvisionSteps, UndoSteps, CleanupSteps
  <2> QED BY <1>5, <2>1, <2>2 DEF VisitObserve
<1>6. CASE CleanupReturns(i)
  <2>1. /\ pc \in LoopsWithCleanup /\ i \in todo
        /\ \A j \in Ids : step'[j] = "none" /\ ~dirty'[j]
        /\ UNCHANGED <<state, registered>>
    BY <1>6 DEF CleanupReturns, IInv, TypeOK, WorkTypeOK, OneAtATime, RowFits, Goto, rowVars
  <2>2. OneAtATime' /\ RowFits'
    BY <2>1 DEF OneAtATime, RowFits, ProvisionSteps, UndoSteps, CleanupSteps
  <2>3. CASE EndPass
    BY <2>2, <2>3 DEF EndPass, Known, Unvisited, OrphansKnown, LoopsWithCleanup
  <2>4. CASE todo' = todo \ {i} /\ UNCHANGED <<pc, snap, missing, waiting>>
    <3>1. todo \subseteq Ids /\ \A j \in todo' : step[j] = "none"
      BY <1>6, <2>4 DEF CleanupReturns, IInv, TypeOK, PassTypeOK, OneAtATime
    <3>2. Unvisited'
      BY <2>1, <2>4, <3>1 DEF IInv, Unvisited, Live, Row
    <3>3. OrphansKnown'
      BY <2>1, <2>4 DEF IInv, OrphansKnown, Live, LoopsWithCleanup
    <3> QED BY <2>2, <3>2, <3>3 DEF Known
  <2> QED BY <1>6, <2>3, <2>4 DEF CleanupReturns
<1>7. CASE Collect(i)
  <2>1. /\ pc = "provision" /\ pc' = "provision"
        /\ UNCHANGED <<state, registered, dirty>>
        /\ \A j \in Ids \ {i} : step'[j] = step[j]
        /\ step'[i] = "none" /\ step[i] \in {"ok", "err"}
    BY <1>7 DEF Collect, IInv, TypeOK, WorkTypeOK, Goto, rowVars, passVars
  <2>2. OneAtATime'
    BY <2>1 DEF OneAtATime
  <2>3. RowFits'
    BY <2>1 DEF IInv, RowFits, ProvisionSteps, CleanupSteps
  <2> QED BY <2>1, <2>2, <2>3 DEF Known, Unvisited, OrphansKnown, LoopsWithCleanup
<1> QED BY <1>1, <1>2, <1>3, <1>4, <1>5, <1>6, <1>7 DEF Visit

\* A pass that has moved on with nothing at work only has to show what the
\* next loop counts on.
LEMMA PassMovesOn ==
    ASSUME IInv, Quiet, UNCHANGED <<rowVars, workVars>>, Unvisited', OrphansKnown'
    PROVE  Known'
  BY RestsWhenQuiet DEF Known

LEMMA PassKnown ==
    ASSUME IInv, Pass
    PROVE  Known'
<1>0. todo \subseteq Ids /\ missing \subseteq Ids
  BY DEF IInv, TypeOK, PassTypeOK
<1>1. CASE StartPass
  <2>1. Quiet
    BY <1>1, NothingAtWork DEF StartPass, LoopsWithCleanup
  <2>2. pc' = "managed" /\ snap' = Listing /\ Listing' = Listing
    BY <1>1, <2>1, RestsWhenQuiet DEF StartPass
  <2> QED BY <1>1, <2>1, <2>2, PassMovesOn
          DEF StartPass, Unvisited, OrphansKnown, LoopsWithCleanup
<1>2. CASE ListManaged
  <2>1. Quiet
    BY <1>2, NothingAtWork DEF ListManaged, LoopsWithCleanup
  <2>2. snap' = snap /\ snap = Listing /\ Listing' = Listing /\ pc' = "orphanVMs" /\ Live' = Live
    BY <1>2, <2>1, RestsWhenQuiet DEF ListManaged, IInv, OrphansKnown, rowVars, Live
  <2>3. Listed = Live
    BY <2>2 DEF Listed, Listing, Live, Row, Unlisted, Absent
  <2>4. todo' \intersect Live = {} /\ missing' \subseteq Live
    BY <1>2, <2>3 DEF ListManaged, OrphanVMs
  <2> QED BY <1>2, <2>1, <2>2, <2>4, PassMovesOn
          DEF ListManaged, Unvisited, OrphansKnown, LoopsWithCleanup
<1>3. CASE OrphanVMsDone
  <2>1. Quiet
    BY <1>3, NothingAtWork DEF OrphanVMsDone, LoopsWithCleanup
  <2>2. /\ snap' = snap /\ snap = Listing /\ todo' \subseteq Live /\ pc' = "missing"
        /\ UNCHANGED <<state, registered>>
    BY <1>3 DEF OrphanVMsDone, IInv, OrphansKnown, rowVars
  <2>3. Live' = Live /\ \A i \in Live : Row(i)' = Row(i) /\ snap[i] = Row(i)
    BY <2>2 DEF Live, Row, Listing
  <2>4. \A i \in Live : snap[i].state = state[i] /\ snap[i].registered = registered[i]
    BY <2>2 DEF Listing, Live, Row
  <2>5. Unvisited'
    BY <2>2, <2>3 DEF Unvisited
  <2>6. OrphansKnown'
    BY <2>2, <2>3, <2>4 DEF OrphansKnown, Live
  <2> QED BY <1>3, <2>1, <2>5, <2>6, PassMovesOn DEF OrphanVMsDone
<1>4. CASE ListRunners
  <2>1. /\ pc' = "orphanRunners" /\ snap' = snap /\ todo' \subseteq OrphanRunners
        /\ UNCHANGED <<state, registered>> /\ Live' = Live
    BY <1>4 DEF ListRunners, rowVars, Live
  <2>2. \A i \in Live : snap[i].state # Absent /\ snap[i].registered = registered[i]
    BY <1>4 DEF ListRunners, IInv, OrphansKnown
  <2>3. \A i \in todo' \intersect Live : ~registered[i]
    BY <2>1, <2>2 DEF OrphanRunners, Listed, Live
  <2> QED BY <1>4, <2>1, <2>2, <2>3, PassMovesOn
          DEF ListRunners, Unvisited, OrphansKnown, LoopsWithCleanup
<1>5. CASE ListInstances
  <2>1. Quiet
    BY <1>5, NothingAtWork DEF ListInstances, LoopsWithCleanup
  <2>2. /\ pc' = "instances" /\ snap' = Listing /\ todo' = Live
        /\ UNCHANGED <<state, registered>> /\ Live' = Live
    BY <1>5 DEF ListInstances, rowVars, Live
  <2>3. Unvisited'
    BY <2>2 DEF Unvisited, Live, Row, Listing
  <2> QED BY <1>5, <2>1, <2>2, <2>3, PassMovesOn DEF ListInstances, OrphansKnown
<1>6. CASE FetchJobs
  <2>2. /\ pc' = "scaleDown" /\ snap' = Listing /\ todo' = InState("ready")
        /\ UNCHANGED <<state, registered>> /\ Live' = Live
    BY <1>6 DEF FetchJobs, rowVars, Live
  <2>3. Unvisited'
    BY <2>2 DEF Unvisited, InState, Live, Row, Listing
  <2> QED BY <1>6, <2>2, <2>3, PassMovesOn DEF FetchJobs, OrphansKnown
<1>7. CASE NothingNeeded
  BY <1>7, KnownAtRest DEF NothingNeeded, ScaledDown
<1>8. CASE StartProvisioning
  <2>1. /\ Quiet /\ UNCHANGED <<rowVars, undo, dirty>>
        /\ \A i \in Ids : ~dirty'[i]
    BY <1>8 DEF StartProvisioning, ScaledDown, IInv, RowFits, Quiet
  <2>2. CASE EndPass /\ UNCHANGED step
    BY <2>1, <2>2, KnownAtRest DEF workVars
  <2>3. CASE /\ pc' = "provision"
             /\ \E starts \in SUBSET Fresh :
                   step' = [i \in Ids |-> IF i \in starts THEN "insert" ELSE step[i]]
    <3>1. \A i \in Ids : step'[i] \in {"none", "insert"}
                         /\ (step'[i] = "insert" => state[i] = Absent)
      BY <2>1, <2>3 DEF Quiet, Fresh
    <3>2. OneAtATime'
      BY <2>3, <3>1 DEF OneAtATime
    <3>3. RowFits'
      BY <2>1, <3>1 DEF RowFits, ProvisionSteps, UndoSteps, CleanupSteps, rowVars
    <3> QED BY <2>3, <3>2, <3>3 DEF Known, Unvisited, OrphansKnown, LoopsWithCleanup
  <2> QED BY <1>8, <2>2, <2>3 DEF StartProvisioning
<1>9. CASE Settle
  BY <1>9, KnownAtRest DEF Settle
<1>10. CASE PassCallFails
  BY <1>10, KnownAtRest DEF PassCallFails
<1>11. CASE \E i \in Ids : Visit(i)
  BY <1>11, VisitKnown
<1> QED BY <1>1, <1>2, <1>3, <1>4, <1>5, <1>6, <1>7, <1>8, <1>9, <1>10, <1>11 DEF Pass

-----------------------------------------------------------------------------
(* Outside, and the theorems.                                              *)

\* Nothing the controller knows of its rows depends on anything else.
LEMMA KnownUnchanged ==
    ASSUME IInv, UNCHANGED <<state, registered, passVars, workVars>>
    PROVE  Known'
<1>1. OneAtATime' /\ RowFits'
  BY DEF IInv, OneAtATime, RowFits, passVars, workVars
<1>2. Live' = Live /\ Listing' = Listing /\ \A i \in Ids : Row(i)' = Row(i)
  BY DEF Live, Listing, Row
<1>3. todo \subseteq Ids
  BY DEF IInv, TypeOK, PassTypeOK
<1>4. Unvisited'
  BY <1>2, <1>3 DEF IInv, Unvisited, passVars, workVars
<1>5. OrphansKnown'
  BY <1>2 DEF IInv, OrphansKnown, passVars
<1> QED BY <1>1, <1>4, <1>5 DEF Known

LEMMA KnownStep == IInv /\ [Next]_vars => Known'
<1> SUFFICES ASSUME IInv, [Next]_vars PROVE Known'
  OBVIOUS
<1>1. CASE UNCHANGED vars
  BY <1>1, KnownUnchanged DEF vars, rowVars
<1>2. CASE Pass
  BY <1>2, PassKnown
<1>3. ASSUME NEW i \in Ids, Work(i) PROVE Known'
  BY <1>3, WorkKnown
<1>4. ASSUME NEW i \in Ids, Clock(i) \/ Outside(i) \/ Damage(i) PROVE Known'
  BY <1>4, KnownUnchanged DEF Clock, RetryDue, Age, Outside, Damage, rowVars
<1>5. CASE Crash
  <2>1. \A i \in Ids : step'[i] = "none" /\ ~dirty'[i]
    BY <1>5 DEF Crash
  <2>2. pc' = "idle"
    BY <1>5 DEF Crash, EndPass
  <2> QED BY <2>1, <2>2 DEF Known, OneAtATime, RowFits, Unvisited, OrphansKnown,
             LoopsWithCleanup, ProvisionSteps, UndoSteps, CleanupSteps
<1>6. CASE PauseEnds \/ Queue
  BY <1>6, KnownUnchanged DEF PauseEnds, Queue, rowVars
<1> QED BY <1>1, <1>2, <1>3, <1>4, <1>5, <1>6 DEF Next

LEMMA Inductive == Spec => []IInv
<1>1. Init => IInv
  BY TypeInit, KnownInit DEF IInv, Known
<1>2. IInv /\ [Next]_vars => IInv'
  BY TypeStep, KnownStep DEF IInv, Known
<1> QED BY <1>1, <1>2, PTL DEF Spec

\* No call the controller makes meets a row in a state that refuses the write,
\* and no loop visits a row that changed since it was listed.
THEOREM WritesAccepted == Spec => []NoWriteRefused
<1>1. IInv => NoWriteRefused
  BY DEF IInv, NoWriteRefused, RowFits, Unvisited, LoopsWithCleanup
<1> QED BY <1>1, Inductive, PTL

\* What the orphan collection deletes belongs to no live row.
THEOREM OrphansNeverTracked == Spec => []OrphansAreUntracked
<1>1. IInv => OrphansAreUntracked
  BY DEF IInv, OrphansAreUntracked, OrphansKnown
<1> QED BY <1>1, Inductive, PTL

-----------------------------------------------------------------------------
(* Rows, runners and machines.                                             *)

\* The functions Account reads, with their domains and ranges.
RowTypes ==
    /\ state \in [Ids -> States \union {Absent}]
    /\ registered \in [Ids -> BOOLEAN]
    /\ reason \in [Ids -> Reasons \union {NoReason}]
    /\ runner \in [Ids -> RunnerStates] /\ vm \in [Ids -> VMStates]
    /\ step \in [Ids -> Steps] /\ undo \in [Ids -> SUBSET {"runner", "vm"}]
    /\ dirty \in [Ids -> BOOLEAN]

LEMMA RowsTyped == IInv => RowTypes
BY DEF IInv, TypeOK, StoreTypeOK, WorldTypeOK, WorkTypeOK, RowTypes

\* Nothing of instance j changes.
Untouched(j) ==
    /\ state'[j] = state[j] /\ registered'[j] = registered[j]
    /\ reason'[j] = reason[j] /\ runner'[j] = runner[j] /\ vm'[j] = vm[j]
    /\ step'[j] = step[j] /\ undo'[j] = undo[j] /\ dirty'[j] = dirty[j]

LEMMA UntouchedAccount ==
    ASSUME NEW j \in Ids, Account(j), Untouched(j)
    PROVE  Account(j)'
BY DEF Account, RowTells, WorldFits, WorkTells, Untouched, Configured, Connected, AtWork

\* What a deletion of the machine does.
LEMMA DeleteVMEffect ==
    ASSUME RowTypes, NEW i \in Ids, DeleteVM(i)
    PROVE  /\ vm'[i] = IF Machine(i) THEN "none" ELSE vm[i]
           /\ runner'[i] = IF Machine(i) /\ runner[i] \in {"idle", "active", "seen"}
                           THEN "offline" ELSE runner[i]
           /\ \A j \in Ids \ {i} : vm'[j] = vm[j] /\ runner'[j] = runner[j]
BY DEF RowTypes, DeleteVM, Disconnected, Connected, AtWork

\* What is left of a machine whose deletion fails.
LEMMA DeleteVMFailsEffect ==
    ASSUME RowTypes, NEW i \in Ids, DeleteVMFails(i)
    PROVE  /\ \/ vm'[i] = vm[i] /\ runner'[i] = runner[i]
              \/ /\ Machine(i) /\ vm'[i] = "none"
                 /\ runner'[i] = IF runner[i] \in {"idle", "active", "seen"}
                                 THEN "offline" ELSE runner[i]
              \/ /\ Configured(i) /\ vm'[i] = "stopped"
                 /\ runner'[i] = IF runner[i] \in {"idle", "active", "seen"}
                                 THEN "offline" ELSE runner[i]
           /\ \A j \in Ids \ {i} : vm'[j] = vm[j] /\ runner'[j] = runner[j]
<1>1. CASE DeleteVM(i)
  BY <1>1, DeleteVMEffect
<1>2. CASE StopVM(i)
  BY <1>2 DEF RowTypes, StopVM, Disconnected, Connected, AtWork
<1> QED BY <1>1, <1>2 DEF DeleteVMFails

\* A cleanup begins: the reason it gives has to be true of the row.
LEMMA StartCleanupAccount ==
    ASSUME RowTypes, NEW i \in Ids, Account(i), NEW why \in Reasons, NEW known \in BOOLEAN,
           StartCleanup(i, why, known), UNCHANGED worldVars,
           known = registered[i],
           reason[i] = NoReason =>
               /\ why # "bootstrap_failed"
               /\ why = "controller_recovery" <=> ~registered[i]
               /\ why = "job_completed" => runner[i] \in {"none", "spent"}
               /\ why = "instance_missing" => vm[i] = "none"
               /\ why \in {"idle_timeout", "max_lifetime"} => vm[i] \notin {"pending", "up"}
               /\ why \in {"idle_timeout", "runner_offline"} => runner[i] # "seen"
    PROVE  Account(i)' /\ \A j \in Ids \ {i} : Untouched(j)
<1>1. /\ state'[i] = "cleaning" /\ registered' = registered
      /\ reason'[i] = IF reason[i] = NoReason THEN why ELSE reason[i]
      /\ step'[i] = "runner" /\ undo'[i] = IF known THEN {"runner", "vm"} ELSE {"vm"}
      /\ runner' = runner /\ vm' = vm /\ dirty' = dirty
      /\ \A j \in Ids \ {i} : Untouched(j)
  BY DEF StartCleanup, BeginCleanup, WriteState, Goto, RowTypes, Untouched, worldVars
<1>2. state[i] \notin {Absent, "finished"}
  BY DEF StartCleanup, BeginCleanup, AcceptsState, CanTransition, Absent
<1>3. why # NoReason
  BY DEF Reasons, SuccessReasons, FailureReasons, NoReason
<1>4. RowTells(i)' /\ WorldFits(i)' /\ WorkTells(i)'
  BY <1>1, <1>2, <1>3 DEF Account, RowTells, WorldFits, WorkTells, UndoSteps, Absent,
     ServedReasons, Reasons, SuccessReasons, FailureReasons, Configured, Connected, AtWork
<1> QED BY <1>1, <1>4 DEF Account

\* A goroutine, or a cleanup, keeps the account of its own instance.
LEMMA WorkAccount ==
    ASSUME IInv, NEW i \in Ids, Account(i), Work(i)
    PROVE  Account(i)' /\ \A j \in Ids \ {i} : Untouched(j)
<1>1. RowTypes
  BY RowsTyped
<1>2. Fits(i)
  BY DEF IInv, RowFits, Fits
<1>14. CASE ProvisionAwait(i)
  <2>1. state[i] = "bootstrapping" /\ registered[i] /\ reason[i] = NoReason
    BY <1>1, <1>2, <1>14 DEF ProvisionAwait, Fits, ProvisionSteps, Account, WorkTells,
       RowTells, RowTypes
  <2>2. CASE StartCleanup(i, "job_completed", TRUE) /\ Status(i) = "not_found"
    <3>1. runner[i] = "none"
      BY <1>1, <2>2 DEF Status, RowTypes, RunnerStates
    <3>2. UNCHANGED worldVars
      BY <1>14, <3>1 DEF ProvisionAwait, SeeAtWork, AtWork, worldVars
    <3>3. "job_completed" \in Reasons
      BY DEF Reasons, SuccessReasons
    <3> QED BY <1>1, <2>1, <2>2, <3>1, <3>2, <3>3, StartCleanupAccount
  <2> USE <1>1, <2>1 DEF Account, RowTells, WorldFits, WorkTells, RowTypes, Untouched,
          Configured, Connected, AtWork, RunnerStates, VMStates
  <2>3. CASE /\ SetOperationalState(i, "ready") /\ Returns(i, "ok")
             /\ Status(i) = "idle" /\ UNCHANGED <<runner, vm>>
    BY <2>3 DEF SetOperationalState, WriteState, Returns, Goto, Status, UndoSteps, Absent,
       NoReason
  <2>4. CASE /\ SetOperationalState(i, "running") /\ Returns(i, "ok")
             /\ SeeAtWork(i) /\ UNCHANGED vm
    BY <2>4 DEF SetOperationalState, WriteState, Returns, Goto, SeeAtWork, UndoSteps, Absent,
       NoReason
  <2>5. CASE UNCHANGED <<rowVars, runner, vm>> /\ Returns(i, "err")
    BY <2>5 DEF Returns, Goto, rowVars, UndoSteps
  <2>6. CASE /\ UNCHANGED <<rowVars, vm>> /\ GivesUp(i, {"runner", "vm"})
             /\ SeeAtWork(i) \/ UNCHANGED runner
    BY <2>6 DEF GivesUp, Fail, Goto, SeeAtWork, rowVars, UndoSteps, NoReason
  <2> QED BY <1>14, <2>2, <2>3, <2>4, <2>5, <2>6 DEF ProvisionAwait
<1> USE <1>1 DEF Account, RowTells, WorldFits, WorkTells, Untouched, RowTypes, Goto,
        Returns, rowVars, worldVars, workVars, WriteState, Absent, NoReason, Configured,
        Connected, AtWork
<1>4. CASE CleanRunner(i)
  BY <1>2, <1>4 DEF CleanRunner, DeleteRunner, UndoSteps, Fits, CleanupSteps
<1>5. CASE CleanMachine(i)
  BY <1>2, <1>5, DeleteVMEffect, DeleteVMFailsEffect DEF CleanMachine, Machine, VMStates, UndoSteps, Fits, CleanupSteps
<1>6. CASE CleanPostpone(i)
  BY <1>6 DEF CleanPostpone, Retry, UndoSteps
<1>7. CASE CleanFinish(i)
  BY <1>2, <1>7 DEF CleanFinish, FinishCleanup, UndoSteps, ServedReasons, Fits, CleanupSteps
<1>8. CASE ProvisionInsert(i)
  BY <1>2, <1>8 DEF ProvisionInsert, Create, UndoSteps, Fits
<1>9. CASE ProvisionRegister(i)
  BY <1>2, <1>9 DEF ProvisionRegister, Register, Fail, UndoSteps, Fits, ProvisionSteps, ServedReasons, Reasons, SuccessReasons, FailureReasons
<1>10. CASE ProvisionRecord(i)
  BY <1>2, <1>10 DEF ProvisionRecord, SetRegistration, Fail, UndoSteps, Fits, ProvisionSteps
<1>11. CASE ProvisionRequest(i)
  BY <1>2, <1>11 DEF ProvisionRequest, RequestVM, Fail, UndoSteps, Fits, ProvisionSteps
<1>12. CASE ProvisionVerify(i)
  BY <1>2, <1>12 DEF ProvisionVerify, GivesUp, Fail, UndoSteps, Fits, ProvisionSteps
<1>13. CASE ProvisionBoot(i)
  BY <1>2, <1>13 DEF ProvisionBoot, PushConfig, GivesUp, Fail, UndoSteps, Fits, ProvisionSteps
<1>15. CASE UndoBegin(i)
  BY <1>2, <1>15 DEF UndoBegin, BeginCleanup, UndoSteps, Fits, ServedReasons
<1>16. CASE UndoRunner(i)
  BY <1>16 DEF UndoRunner, DeleteRunner, UndoSteps
<1>17. CASE UndoVM(i)
  BY <1>17, DeleteVMEffect, DeleteVMFailsEffect DEF UndoVM, Machine, UndoSteps
<1>18. CASE UndoEnd(i)
  BY <1>2, <1>18 DEF UndoEnd, FinishCleanup, Retry, UndoSteps, Fits, ServedReasons
<1> QED BY <1>4, <1>5, <1>6, <1>7, <1>8, <1>9, <1>10, <1>11, <1>12, <1>13, <1>14,
           <1>15, <1>16, <1>17, <1>18 DEF Work

LEMMA WorkAccounted ==
    ASSUME IInv, Accounted, NEW i \in Ids, Work(i)
    PROVE  Accounted'
<1>1. \A j \in Ids : Account(j)'
  BY WorkAccount, UntouchedAccount DEF Accounted
<1>2. /\ UNCHANGED passVars /\ step[i] # "none" /\ step'[i] # "none"
      /\ \A j \in Ids \ {i} : Untouched(j)
  BY WorkIsOwn, WorkAccount DEF Accounted, OwnWork
<1>3. pc # "orphanVMs" /\ todo \subseteq Ids
  BY <1>2 DEF IInv, OneAtATime, LoopsWithCleanup, TypeOK, PassTypeOK
<1>4. LoopsRely'
  BY <1>2, <1>3 DEF Accounted, LoopsRely, Untouched, passVars
<1> QED BY <1>1, <1>4 DEF Accounted

\* The loops lose nothing they rely on when rows and work stay as they are, and
\* no machine comes back.
LEMMA LoopsKeep ==
    ASSUME IInv, LoopsRely, UNCHANGED <<pc, state, step>>,
           todo' \subseteq todo, missing' = missing,
           \A i \in Ids : vm[i] = "none" => vm'[i] = "none"
    PROVE  LoopsRely'
<1>1. todo \subseteq Ids /\ missing \subseteq Ids
  BY DEF IInv, TypeOK, PassTypeOK
<1> QED BY <1>1 DEF LoopsRely

\* The pass deletes what no row accounts for.
LEMMA OrphanAccount ==
    ASSUME IInv, NEW i \in Ids, Account(i), UNCHANGED <<rowVars, workVars>>,
           \/ UNCHANGED <<vm, runner>>
           \/ DeleteVMFails(i)
           \/ DeleteRunner(i) /\ UNCHANGED vm
    PROVE  /\ Account(i)' /\ \A j \in Ids \ {i} : Untouched(j)
           /\ \A j \in Ids : vm[j] = "none" => vm'[j] = "none"
<1>1. RowTypes
  BY RowsTyped
<1>2. /\ \/ vm'[i] = vm[i] /\ runner'[i] \in {runner[i], "none"}
         \/ /\ vm[i] # "none"
            /\ vm'[i] = "none" \/ (Configured(i) /\ vm'[i] = "stopped")
            /\ runner'[i] = IF runner[i] \in {"idle", "active", "seen"}
                            THEN "offline" ELSE runner[i]
      /\ \A j \in Ids \ {i} : vm'[j] = vm[j] /\ runner'[j] = runner[j]
  <2>1. CASE UNCHANGED <<vm, runner>>
    BY <2>1
  <2>2. CASE DeleteVMFails(i)
    BY <1>1, <2>2, DeleteVMFailsEffect DEF Machine, Configured
  <2>3. CASE DeleteRunner(i) /\ UNCHANGED vm
    BY <1>1, <2>3 DEF DeleteRunner, RowTypes
  <2> QED BY <2>1, <2>2, <2>3
<1>3. Account(i)'
  BY <1>1, <1>2 DEF Account, RowTells, WorldFits, WorkTells, rowVars, workVars, RowTypes,
     Configured, Connected, AtWork
<1> QED BY <1>1, <1>2, <1>3 DEF Untouched, rowVars, workVars

\* The reason a pass gives for retiring a live row is true of its runner and its
\* machine.
LEMMA RetireReasonTells ==
    ASSUME IInv, NEW i \in Live, Account(i), snap[i] = Row(i), RetireReason(i) # NoReason
    PROVE  LET why == RetireReason(i)
           IN  /\ why \in Reasons
               /\ reason[i] = NoReason =>
                   /\ why # "bootstrap_failed"
                   /\ why = "controller_recovery" <=> ~registered[i]
                   /\ why = "job_completed" => runner[i] \in {"none", "spent"}
                   /\ why = "instance_missing" => vm[i] = "none"
                   /\ why \in {"idle_timeout", "max_lifetime"} => vm[i] \notin {"pending", "up"}
                   /\ why \in {"idle_timeout", "runner_offline"} => runner[i] # "seen"
<1> DEFINE why == RetireReason(i)
<1>1. RowTypes /\ i \in Ids
  BY RowsTyped DEF Live
<1>2. snap[i].state = state[i] /\ snap[i].registered = registered[i]
  BY DEF Row
<1>3. CASE state[i] = "cleaning"
  <2>1. reason[i] # NoReason /\ why = reason[i]
    BY <1>2, <1>3 DEF Account, RowTells, RetireReason, Retiring, Abandoned,
       Observed
  <2> QED BY <1>1, <2>1 DEF RowTypes
<1>4. CASE state[i] # "cleaning"
  <2>1. /\ why \in Reasons
        /\ why = "max_lifetime" => state[i] = "running"
        /\ why = "controller_recovery" => ~registered[i]
        /\ why # "controller_recovery" => Observed(i) \/ state[i] = "running"
        /\ why = "runner_offline" => Status(i) = "offline"
        /\ why = "job_completed" => JobDone(i)
        /\ why \notin {"bootstrap_failed", "instance_missing", "idle_timeout"}
    BY <1>2, <1>4 DEF RetireReason, Retiring, Abandoned, Reasons, SuccessReasons,
       FailureReasons, NoReason
  <2>2. why # "controller_recovery" => registered[i]
    BY <1>2, <2>1 DEF Observed, Account, RowTells
  <2>3. why = "job_completed" => runner[i] \in {"none", "spent"}
    BY <1>1, <1>2, <2>1 DEF JobDone, Status, Account, RowTells, RowTypes, RunnerStates
  <2>4. why = "max_lifetime" => vm[i] \notin {"pending", "up"}
    BY <2>1 DEF Account, RowTells
  <2>5. why = "runner_offline" => runner[i] # "seen"
    BY <2>1 DEF Status
  <2> QED BY <2>1, <2>2, <2>3, <2>4, <2>5
<1> QED BY <1>3, <1>4

\* The pass starts to clean up a row for a reason that is true of it, or stops.
LEMMA PassCleanupAccounted ==
    ASSUME IInv, Accounted, Quiet, NEW i \in todo, NEW why \in Reasons,
           pc \in LoopsWithCleanup, PassCleanup(i, why),
           reason[i] = NoReason =>
               /\ why # "bootstrap_failed"
               /\ why = "controller_recovery" <=> ~registered[i]
               /\ why = "job_completed" => runner[i] \in {"none", "spent"}
               /\ why = "instance_missing" => vm[i] = "none"
               /\ why \in {"idle_timeout", "max_lifetime"} => vm[i] \notin {"pending", "up"}
               /\ why \in {"idle_timeout", "runner_offline"} => runner[i] # "seen"
    PROVE  Accounted'
<1>1. i \in Ids /\ todo \subseteq Ids /\ snap[i] = Row(i) /\ RowTypes
  BY RowsTyped DEF IInv, TypeOK, PassTypeOK, Unvisited, Quiet
<1>2. CASE EndPass /\ UNCHANGED <<rowVars, workVars>>
  <2>1. \A j \in Ids : Untouched(j)
    BY <1>2 DEF PassCleanup, Untouched, rowVars, workVars, worldVars
  <2>2. LoopsRely'
    BY <1>2 DEF EndPass, LoopsRely
  <2> QED BY <2>1, <2>2, UntouchedAccount DEF Accounted
<1>3. CASE StartCleanup(i, why, snap[i].registered) /\ UNCHANGED passVars
  <2>1. snap[i].registered = registered[i] /\ registered[i] \in BOOLEAN
    BY <1>1 DEF Row, RowTypes
  <2>2. Account(i)' /\ \A j \in Ids \ {i} : Untouched(j)
    BY <1>1, <1>3, <2>1, StartCleanupAccount DEF PassCleanup, Accounted
  <2>3. step'[i] = "runner"
    BY <1>1, <1>3 DEF StartCleanup, Goto, RowTypes
  <2>4. LoopsRely'
    BY <1>1, <1>3, <2>2, <2>3 DEF Accounted, LoopsRely, Untouched, passVars, LoopsWithCleanup
  <2> QED BY <1>1, <2>2, <2>4, UntouchedAccount DEF Accounted
<1> QED BY <1>2, <1>3 DEF PassCleanup

LEMMA VisitAccounted ==
    ASSUME IInv, Accounted, SeenRecorded, NEW i \in Ids, Visit(i)
    PROVE  Accounted'
<1>0. RowTypes /\ todo \subseteq Ids /\ missing \subseteq Ids
  BY RowsTyped DEF IInv, TypeOK, PassTypeOK
<1>1. CASE DeleteOrphanVM(i) \/ DeleteOrphanRunner(i)
  <2>1. /\ UNCHANGED <<rowVars, workVars>>
        /\ \/ UNCHANGED <<vm, runner>>
           \/ DeleteVMFails(i)
           \/ DeleteRunner(i) /\ UNCHANGED vm
    BY <1>1 DEF DeleteOrphanVM, DeleteOrphanRunner, DeleteVMFails
  <2>2. /\ Account(i)' /\ \A j \in Ids \ {i} : Untouched(j)
        /\ \A j \in Ids : vm[j] = "none" => vm'[j] = "none"
    <3>1. Account(i)
      BY DEF Accounted
    <3> QED BY <2>1, <3>1, OrphanAccount
  <2>3. CASE EndPass
    BY <2>2, <2>3, UntouchedAccount DEF Accounted, EndPass, LoopsRely
  <2>4. CASE todo' = todo \ {i} /\ UNCHANGED <<pc, missing>>
    <3>1. LoopsRely'
      BY <2>1, <2>2, <2>4, LoopsKeep DEF Accounted, rowVars, workVars
    <3> QED BY <2>2, <3>1, UntouchedAccount DEF Accounted
  <2>5. EndPass \/ (todo' = todo \ {i} /\ UNCHANGED <<pc, missing>>)
    BY <1>1 DEF DeleteOrphanVM, DeleteOrphanRunner
  <2> QED BY <2>3, <2>4, <2>5
<1>2. CASE RetireMissing(i)
  <2>1. /\ Quiet /\ i \in todo /\ pc \in LoopsWithCleanup
        /\ PassCleanup(i, "instance_missing")
        /\ state[i] \in {"ready", "running"} /\ vm[i] = "none"
    BY <1>2 DEF RetireMissing, Accounted, LoopsRely, LoopsWithCleanup, Quiet
  <2>2. registered[i]
    BY <2>1 DEF Accounted, Account, RowTells
  <2> QED BY <2>1, <2>2, PassCleanupAccounted DEF Reasons, FailureReasons
<1>3. CASE VisitRetire(i)
  <2>1. /\ Quiet /\ i \in todo /\ pc \in LoopsWithCleanup
        /\ PassCleanup(i, RetireReason(i)) /\ RetireReason(i) # NoReason
        /\ i \in Live /\ snap[i] = Row(i)
    BY <1>3 DEF VisitRetire, IInv, Unvisited, LoopsWithCleanup, Quiet
  <2> QED BY <2>1, RetireReasonTells, PassCleanupAccounted DEF Accounted
<1>4. CASE ScaleDown(i)
  <2>1. /\ Quiet /\ i \in todo /\ pc \in LoopsWithCleanup
        /\ PassCleanup(i, "idle_timeout")
        /\ state[i] = "ready"
    BY <1>4 DEF ScaleDown, Accounted, LoopsRely, LoopsWithCleanup, Quiet
  <2>2. registered[i] /\ vm[i] \notin {"pending", "up"} /\ runner[i] # "seen"
    BY <1>4, <2>1 DEF Accounted, Account, RowTells, ScaleDown, SeenRecorded, Observable
  <2> QED BY <2>1, <2>2, PassCleanupAccounted DEF Reasons, SuccessReasons
<1>5. CASE VisitPostponed(i) \/ ScaleDownSkip(i)
  <2>1. UNCHANGED <<rowVars, worldVars, workVars>> /\ Done(i)
    BY <1>5 DEF VisitPostponed, ScaleDownSkip
  <2>2. \A j \in Ids : Untouched(j)
    BY <2>1 DEF Untouched, rowVars, worldVars, workVars
  <2>3. LoopsRely'
    BY <2>1, LoopsKeep DEF Accounted, Done, rowVars, worldVars, workVars
  <2> QED BY <2>2, <2>3, UntouchedAccount DEF Accounted
<1>6. CASE VisitObserve(i)
  <2>1. /\ pc = "instances" /\ Quiet /\ i \in todo /\ i \in Live /\ snap[i] = Row(i)
        /\ UNCHANGED <<vm, jobs, workVars>>
        /\ IF AtWork(i) THEN SeeAtWork(i) ELSE UNCHANGED runner
    BY <1>6 DEF VisitObserve, IInv, Unvisited, LoopsWithCleanup, Quiet
  <2>2. LoopsRely'
    BY <1>6, <2>1 DEF VisitObserve, Done, EndPass, LoopsRely
  <2>3. /\ registered[i] /\ reason[i] = NoReason /\ step[i] = "none" /\ Account(i)
        /\ state[i] \in {"bootstrapping", "ready", "running"}
    BY <1>6, <2>1 DEF VisitObserve, Observed, Row, Accounted, Account, RowTells, Quiet
  <2>4. /\ runner'[i] = IF AtWork(i) THEN "seen" ELSE runner[i]
        /\ vm' = vm
        /\ UNCHANGED <<step, undo, dirty>>
        /\ \A j \in Ids \ {i} : runner'[j] = runner[j]
    BY <1>0, <2>1 DEF SeeAtWork, workVars, RowTypes
  <2>5. CASE UNCHANGED rowVars
    <3>1. Account(i)' /\ \A j \in Ids \ {i} : Untouched(j)
      BY <2>3, <2>4, <2>5 DEF Untouched, rowVars, Account, RowTells, WorldFits, WorkTells,
         UndoSteps, Configured, Connected, AtWork, NoReason
    <3> QED BY <2>2, <3>1, UntouchedAccount DEF Accounted
  <2>6. ASSUME NEW s \in {"ready", "running"}, SetOperationalState(i, s),
               s = IF Status(i) = "idle" THEN "ready" ELSE "running"
        PROVE  Account(i)' /\ \A j \in Ids \ {i} : Untouched(j)
    <3>1. Status(i) \in {"idle", "active"} /\ ~JobDone(i)
      BY <1>0, <1>6, <2>1, <2>3 DEF VisitObserve, RetireReason, Observed, Abandoned, Retiring,
         JobDone, Status, RowTypes, RunnerStates, NoReason, Row
    <3>2. /\ runner[i] \in {"idle", "active", "seen", "spent"}
          /\ vm[i] \notin {"pending", "up"}
          /\ s = "running" => AtWork(i)
          /\ s = "ready" => state[i] # "running" /\ ~AtWork(i)
      BY <1>0, <2>1, <2>3, <2>6, <3>1 DEF JobDone, Status, Row, RowTypes, RunnerStates,
         Account, WorldFits, Connected, AtWork
    <3>3. /\ state' = [state EXCEPT ![i] = s]
          /\ UNCHANGED <<registered, reason>>
      BY <2>6 DEF SetOperationalState, WriteState
    <3> QED BY <1>0, <2>3, <2>4, <3>2, <3>3 DEF Account, RowTells, WorldFits, WorkTells,
         Untouched, RowTypes, UndoSteps, Absent, NoReason, Configured, Connected, AtWork
  <2> QED BY <1>6, <2>2, <2>5, <2>6, UntouchedAccount DEF VisitObserve, Accounted
<1>7. CASE CleanupReturns(i) \/ Collect(i)
  <2>1. /\ UNCHANGED <<rowVars, worldVars, undo, dirty>>
        /\ step' = [step EXCEPT ![i] = "none"]
    BY <1>7 DEF CleanupReturns, Collect, Goto
  <2>2. Account(i)' /\ \A j \in Ids \ {i} : Untouched(j)
    BY <1>0, <2>1 DEF Accounted, Account, RowTells, WorldFits, WorkTells, Untouched,
       rowVars, worldVars, RowTypes, UndoSteps, Configured, Connected, AtWork
  <2>3. CASE EndPass
    BY <2>2, <2>3, UntouchedAccount DEF Accounted, EndPass, LoopsRely
  <2>4. CASE CleanupReturns(i) /\ todo' = todo \ {i} /\ UNCHANGED <<pc, missing>>
    <3>1. step[i] # "none"
      BY <2>4 DEF CleanupReturns
    <3>2. pc # "orphanVMs"
      BY <2>4, <3>1 DEF CleanupReturns, IInv, OneAtATime, LoopsWithCleanup
    <3>3. LoopsRely'
      BY <1>0, <2>2, <2>4, <3>2 DEF Accounted, LoopsRely, Untouched
    <3> QED BY <2>2, <3>3, UntouchedAccount DEF Accounted
  <2>5. CASE Collect(i)
    <3>1. LoopsRely'
      BY <2>5 DEF Collect, LoopsRely, passVars
    <3> QED BY <2>2, <3>1, UntouchedAccount DEF Accounted
  <2> QED BY <1>7, <2>3, <2>4, <2>5 DEF CleanupReturns
<1> QED BY <1>1, <1>2, <1>3, <1>4, <1>5, <1>6, <1>7 DEF Visit

\* A pass that lists, ends or moves on changes no row, no runner, no machine.
LEMMA PassListsAccounted ==
    ASSUME IInv, Accounted, UNCHANGED <<rowVars, worldVars, undo, dirty>>,
           \A i \in Ids : step'[i] = step[i],
           \/ EndPass
           \/ pc' \in PassSteps \ {"orphanVMs", "missing", "scaleDown"}
    PROVE  Accounted'
<1>1. \A i \in Ids : Untouched(i)
  BY DEF Untouched, rowVars, worldVars
<1>2. LoopsRely'
  BY DEF LoopsRely, EndPass
<1> QED BY <1>1, <1>2, UntouchedAccount DEF Accounted

LEMMA PassAccounted ==
    ASSUME IInv, Accounted, SeenRecorded, Pass
    PROVE  Accounted'
<1>0. RowTypes /\ todo \subseteq Ids /\ missing \subseteq Ids
  BY RowsTyped DEF IInv, TypeOK, PassTypeOK
<1>1. CASE StartPass \/ ListRunners \/ ListInstances \/ NothingNeeded \/ PassCallFails \/ Settle
  <2>1. /\ UNCHANGED <<rowVars, worldVars, workVars>>
        /\ EndPass \/ pc' \in PassSteps \ {"orphanVMs", "missing", "scaleDown"}
    BY <1>1 DEF StartPass, ListRunners, ListInstances, NothingNeeded, PassCallFails, Settle,
       PassSteps
  <2> QED BY <2>1, PassListsAccounted DEF workVars
<1>2. CASE ListManaged \/ OrphanVMsDone \/ FetchJobs
  <2>1. \A i \in Ids : Untouched(i)
    BY <1>2 DEF ListManaged, OrphanVMsDone, FetchJobs, Untouched, rowVars, worldVars, workVars
  <2>2. CASE ListManaged
    <3>1. snap = Listing /\ pc' = "orphanVMs"
      BY <2>2 DEF ListManaged, IInv, OrphansKnown
    <3>2. \A i \in missing' : /\ i \in Ids /\ ~Machine(i)
                              /\ snap[i].state \in {"ready", "running"}
      BY <2>2 DEF ListManaged, Listed
    <3>3. \A i \in missing' : state[i] \in {"ready", "running"}
      BY <3>1, <3>2 DEF Listing, Row, Unlisted, Absent
    <3>4. \A i \in missing' : vm[i] = "none"
      BY <1>0, <3>2, <3>3 DEF Accounted, Account, RowTells, Machine, RowTypes, VMStates
    <3>5. LoopsRely'
      BY <2>1, <3>1, <3>2, <3>3, <3>4 DEF LoopsRely, Untouched
    <3> QED BY <2>1, <3>5, UntouchedAccount DEF Accounted
  <2>3. CASE OrphanVMsDone
    <3>1. LoopsRely'
      BY <1>0, <2>1, <2>3 DEF OrphanVMsDone, Accounted, LoopsRely, Untouched
    <3> QED BY <2>1, <3>1, UntouchedAccount DEF Accounted
  <2>4. CASE FetchJobs
    <3>1. LoopsRely'
      BY <2>1, <2>4 DEF FetchJobs, LoopsRely, Untouched, InState, Live
    <3> QED BY <2>1, <3>1, UntouchedAccount DEF Accounted
  <2> QED BY <1>2, <2>2, <2>3, <2>4
<1>3. CASE StartProvisioning
  <2>1. UNCHANGED <<rowVars, worldVars, undo, dirty>>
    BY <1>3 DEF StartProvisioning
  <2>2. CASE EndPass /\ UNCHANGED step
    BY <2>1, <2>2, PassListsAccounted
  <2>3. CASE /\ pc' = "provision"
             /\ \E starts \in SUBSET Fresh :
                   step' = [i \in Ids |-> IF i \in starts THEN "insert" ELSE step[i]]
    <3>1. ASSUME NEW i \in Ids PROVE Account(i)'
      <4>1. Account(i) /\ Quiet
        BY <1>3 DEF Accounted, StartProvisioning, ScaledDown
      <4>2. \/ step'[i] = "none"
            \/ step'[i] = "insert" /\ state[i] = Absent
        BY <2>3, <4>1 DEF Quiet, Fresh
      <4> QED BY <2>1, <4>1, <4>2 DEF Account, RowTells, WorldFits, WorkTells, UndoSteps,
              rowVars, worldVars, Configured, Connected, AtWork
    <3>2. LoopsRely'
      BY <2>3 DEF LoopsRely
    <3> QED BY <3>1, <3>2 DEF Accounted
  <2> QED BY <1>3, <2>2, <2>3 DEF StartProvisioning
<1>4. CASE \E i \in Ids : Visit(i)
  BY <1>4, VisitAccounted
<1> QED BY <1>1, <1>2, <1>3, <1>4 DEF Pass

\* Runners and machines come and go; no machine comes back.
LEMMA OutsideAccounted ==
    ASSUME IInv, Accounted, NEW i \in Ids, Outside(i) \/ Damage(i)
    PROVE  Accounted'
<1>1. RowTypes /\ UNCHANGED <<rowVars, passVars, workVars>>
  BY RowsTyped DEF Outside, Damage
<1>2. Account(i)
  BY DEF Accounted
<1>3. /\ \A j \in Ids \ {i} : vm'[j] = vm[j] /\ runner'[j] = runner[j]
      /\ \/ vm[i] = "pending" /\ vm'[i] \in {"up", "none"} /\ runner'[i] = runner[i]
         \/ /\ vm'[i] = vm[i]
            /\ \/ vm[i] = "configured" /\ runner[i] = "offline" /\ runner'[i] = "idle"
               \/ runner[i] = "idle" /\ runner'[i] = "active"
               \/ runner[i] \in {"active", "seen"} /\ runner'[i] = "spent"
               \/ runner[i] = "spent" /\ runner'[i] = "none"
         \/ /\ vm[i] \in {"up", "configured", "stopped"} /\ vm'[i] = "none"
            /\ runner'[i] = IF runner[i] \in {"idle", "active", "seen"}
                            THEN "offline" ELSE runner[i]
         \/ /\ runner[i] \in {"idle", "active", "seen"} /\ vm'[i] = "stopped"
            /\ runner'[i] = "offline"
  BY <1>1 DEF Outside, Damage, VMAppears, RunnerConnects, JobStarts, JobEnds,
     RunnerExpires, CreationFails, VMLost, RunnerDrops, Disconnected, Machine, RowTypes,
     Connected, AtWork
<1>4. Account(i)'
  BY <1>1, <1>2, <1>3 DEF Account, RowTells, WorldFits, WorkTells, RowTypes, rowVars, workVars,
     Configured, Connected, AtWork
<1>5. \A j \in Ids \ {i} : Untouched(j)
  BY <1>1, <1>3 DEF Untouched, rowVars, workVars
<1>6. \A j \in Ids : vm[j] = "none" => vm'[j] = "none"
  BY <1>2, <1>3 DEF Account, WorldFits, Connected, AtWork
<1>7. LoopsRely'
  BY <1>1, <1>6, LoopsKeep DEF Accounted, passVars, rowVars, workVars
<1> QED BY <1>4, <1>5, <1>7, UntouchedAccount DEF Accounted

LEMMA AccountedInit == Init => Accounted
BY DEF Init, StoreInit, WorldInit, Accounted, Account, RowTells, WorldFits, WorkTells,
   LoopsRely, UndoSteps, NoReason, Absent, ServedReasons, Reasons, SuccessReasons,
   FailureReasons, Configured, Connected, AtWork

LEMMA AccountedStep == AccountKept /\ [Next]_vars => Accounted'
<1> SUFFICES ASSUME IInv, Accounted, SeenRecorded, [Next]_vars PROVE Accounted'
  BY DEF AccountKept
<1>1. CASE UNCHANGED <<rowVars, worldVars, passVars, workVars>>
  <2>1. \A i \in Ids : Untouched(i)
    BY <1>1 DEF Untouched, rowVars, worldVars, workVars
  <2>2. LoopsRely'
    BY <1>1 DEF Accounted, LoopsRely, rowVars, worldVars, passVars, workVars
  <2> QED BY <2>1, <2>2, UntouchedAccount DEF Accounted
<1>2. CASE Pass
  BY <1>2, PassAccounted
<1>3. ASSUME NEW i \in Ids, Work(i) PROVE Accounted'
  BY <1>3, WorkAccounted
<1>4. ASSUME NEW i \in Ids, Outside(i) \/ Damage(i) PROVE Accounted'
  BY <1>4, OutsideAccounted
<1>5. CASE (\E i \in Ids : Clock(i)) \/ Queue
  <2>1. UNCHANGED <<state, registered, reason, runner, vm, passVars, workVars>>
    BY <1>5 DEF Clock, RetryDue, Age, Queue, JobQueued, rowVars, worldVars
  <2>2. \A i \in Ids : Untouched(i)
    BY <2>1 DEF Untouched, workVars
  <2>3. LoopsRely'
    BY <2>1 DEF Accounted, LoopsRely, passVars, workVars
  <2> QED BY <2>2, <2>3, UntouchedAccount DEF Accounted
<1>6. CASE Crash
  <2>1. /\ UNCHANGED <<rowVars, worldVars>> /\ pc' = "idle"
        /\ \A i \in Ids : step'[i] = "none"
    BY <1>6 DEF Crash, EndPass
  <2>2. \A i \in Ids : Account(i)'
    BY <2>1 DEF Accounted, Account, RowTells, WorldFits, WorkTells, UndoSteps, rowVars,
       worldVars, Configured, Connected, AtWork
  <2> QED BY <2>1, <2>2 DEF Accounted, LoopsRely
<1> QED BY <1>1, <1>2, <1>3, <1>4, <1>5, <1>6 DEF Next, vars, PauseEnds

\* What the pass has read it has written; only a goroutine's row is in the
\* making.
LEMMA WorkSeen ==
    ASSUME IInv, Accounted, SeenRecorded, NEW i \in Ids, Work(i)
    PROVE  SeenRecorded'
<1>1. /\ UNCHANGED passVars /\ step[i] # "none"
      /\ \A j \in Ids \ {i} : Untouched(j)
  BY WorkIsOwn, WorkAccount DEF Accounted, OwnWork
<1>2. CASE pc = "provision"
  BY <1>1, <1>2 DEF SeenRecorded, Observable, passVars
<1>3. CASE pc # "provision"
  <2>1. state[i] = "cleaning" /\ step[i] \in CleanupSteps
    <3>1. step[i] \notin ProvisionSteps \union UndoSteps /\ step[i] \notin {"ok", "err"}
      BY <1>1, <1>3, WorkIsOwn DEF IInv, OneAtATime, Work, CleanRunner, CleanMachine,
         CleanPostpone, CleanFinish, ProvisionInsert, ProvisionRegister, ProvisionRecord,
         ProvisionRequest, ProvisionVerify, ProvisionBoot, ProvisionAwait, UndoBegin,
         UndoRunner, UndoVM, UndoEnd, ProvisionSteps, UndoSteps
    <3>2. step[i] \in CleanupSteps
      BY <1>1, <3>1, RowsTyped DEF RowTypes, Steps
    <3> QED BY <3>2 DEF IInv, RowFits
  <2>2. state'[i] \in {"cleaning", "finished"}
    <3>1. RowTypes
      BY RowsTyped
    <3>2. CleanRunner(i) \/ CleanMachine(i) \/ CleanPostpone(i) \/ CleanFinish(i)
      BY <2>1 DEF Work, CleanupSteps, ProvisionInsert, ProvisionRegister, ProvisionRecord,
         ProvisionRequest, ProvisionVerify, ProvisionBoot, ProvisionAwait, UndoBegin,
         UndoRunner, UndoVM, UndoEnd
    <3> QED BY <2>1, <3>1, <3>2 DEF CleanRunner, CleanMachine, CleanPostpone, CleanFinish,
            Retry, FinishCleanup, WriteState, rowVars, RowTypes
  <2> QED BY <1>1, <2>2 DEF SeenRecorded, Observable, passVars, Untouched
<1> QED BY <1>2, <1>3

LEMMA VisitSeen ==
    ASSUME IInv, Accounted, SeenRecorded, NEW i \in Ids, Visit(i)
    PROVE  SeenRecorded'
<1>0. RowTypes
  BY RowsTyped
<1>1. CASE DeleteOrphanVM(i) \/ DeleteOrphanRunner(i)
  BY <1>1 DEF DeleteOrphanVM, DeleteOrphanRunner, EndPass, SeenRecorded, Observable, rowVars,
     workVars
<1>2. CASE RetireMissing(i) \/ VisitRetire(i) \/ ScaleDown(i)
  <2>1. PICK why : PassCleanup(i, why)
    BY <1>2 DEF RetireMissing, VisitRetire, ScaleDown
  <2>2. CASE StartCleanup(i, why, snap[i].registered) /\ UNCHANGED passVars
    <3>1. /\ state'[i] = "cleaning" /\ UNCHANGED runner
          /\ \A j \in Ids \ {i} : state'[j] = state[j] /\ step'[j] = step[j]
      BY <2>1, <2>2, StartCleanupKnown DEF PassCleanup, worldVars
    <3> QED BY <2>2, <3>1 DEF SeenRecorded, Observable, passVars
  <2>3. CASE EndPass /\ UNCHANGED <<rowVars, workVars>>
    BY <1>2, <2>3 DEF EndPass, SeenRecorded, Observable, rowVars, workVars, RetireMissing,
       VisitRetire, ScaleDown
  <2> QED BY <2>1, <2>2, <2>3 DEF PassCleanup
<1>3. CASE VisitPostponed(i)
  <2>1. UNCHANGED <<state, runner, step, pc>> /\ todo' = todo \ {i}
    BY <1>3 DEF VisitPostponed, Done, rowVars, worldVars, workVars
  <2>2. snap[i] = Row(i)
    BY <1>3 DEF VisitPostponed, IInv, Unvisited, LoopsWithCleanup, Quiet
  <2>3. state[i] = "cleaning"
    BY <1>3, <2>2 DEF VisitPostponed, Postponed, Row
  <2> QED BY <2>1, <2>3 DEF SeenRecorded, Observable
<1>4. CASE ScaleDownSkip(i)
  BY <1>4 DEF ScaleDownSkip, Done, SeenRecorded, Observable, rowVars, worldVars, workVars
<1>5. CASE VisitObserve(i)
  <2>1. Quiet /\ UNCHANGED step /\ \A j \in Ids \ {i} : runner'[j] = runner[j]
    BY <1>0, <1>5 DEF VisitObserve, SeeAtWork, workVars, RowTypes
  <2>2. CASE EndPass
    BY <2>1, <2>2 DEF EndPass, SeenRecorded, Observable, Quiet
  <2>3. ASSUME NEW s \in {"ready", "running"}, SetOperationalState(i, s), Done(i),
               s = IF Status(i) = "idle" THEN "ready" ELSE "running"
        PROVE  SeenRecorded'
    <3>1. state' = [state EXCEPT ![i] = s]
      BY <2>3 DEF SetOperationalState, WriteState
    <3>2. s = "ready" => runner'[i] # "seen"
      BY <1>0, <1>5, <2>3 DEF VisitObserve, SeeAtWork, AtWork, Status
    <3> QED BY <1>0, <1>5, <2>1, <2>3, <3>1, <3>2 DEF Done, SeenRecorded, Observable, Quiet,
            VisitObserve, RowTypes
  <2> QED BY <1>5, <2>2, <2>3 DEF VisitObserve
<1>6. CASE CleanupReturns(i) \/ Collect(i)
  <2>1. /\ UNCHANGED <<state, runner>> /\ step' = [step EXCEPT ![i] = "none"]
        /\ step[i] # "none"
    BY <1>6 DEF CleanupReturns, Collect, Goto, rowVars, worldVars
  <2> QED BY <1>0, <1>6, <2>1 DEF CleanupReturns, Collect, EndPass, SeenRecorded, Observable,
          passVars, RowTypes
<1> QED BY <1>1, <1>2, <1>3, <1>4, <1>5, <1>6 DEF Visit

LEMMA SeenStep == AccountKept /\ [Next]_vars => SeenRecorded'
<1> SUFFICES ASSUME IInv, Accounted, SeenRecorded, [Next]_vars PROVE SeenRecorded'
  BY DEF AccountKept
<1>0. RowTypes
  BY RowsTyped
<1>1. ASSUME NEW i \in Ids, Work(i) PROVE SeenRecorded'
  BY <1>1, WorkSeen
<1>2. ASSUME NEW i \in Ids, Visit(i) PROVE SeenRecorded'
  BY <1>2, VisitSeen
<1>3. CASE \/ StartPass \/ ListManaged \/ OrphanVMsDone \/ ListRunners \/ NothingNeeded
           \/ PassCallFails \/ Settle \/ Crash
  <2>1. /\ UNCHANGED <<state, runner>> /\ Observable' = {} /\ pc' # "provision"
        /\ step' = step \/ \A i \in Ids : step'[i] = "none"
        /\ pc = "provision" => \A i \in Ids : step'[i] = "none"
    BY <1>3 DEF StartPass, ListManaged, OrphanVMsDone, ListRunners, NothingNeeded, Quiet,
       PassCallFails, Settle, Crash, EndPass, Observable, rowVars, worldVars, workVars,
       ScaledDown
  <2> QED BY <2>1 DEF SeenRecorded
<1>4. CASE ListInstances
  BY <1>4 DEF ListInstances, SeenRecorded, Observable, Live, Absent, rowVars, worldVars,
     workVars
<1>5. CASE FetchJobs
  BY <1>5 DEF FetchJobs, SeenRecorded, Observable, Quiet, rowVars, worldVars, workVars
<1>6. CASE StartProvisioning
  <2>1. /\ UNCHANGED <<state, runner>> /\ Quiet
        /\ \/ EndPass /\ UNCHANGED step
           \/ pc' = "provision"
    BY <1>6 DEF StartProvisioning, ScaledDown, rowVars, worldVars
  <2> QED BY <2>1 DEF EndPass, SeenRecorded, Observable, Quiet
<1>7. ASSUME NEW i \in Ids, Outside(i) \/ Damage(i) PROVE SeenRecorded'
  <2>1. /\ UNCHANGED <<state, step, passVars>>
        /\ \A j \in Ids : runner'[j] = "seen" => runner[j] = "seen"
    BY <1>0, <1>7 DEF Outside, Damage, VMAppears, RunnerConnects, JobStarts, JobEnds,
       RunnerExpires, CreationFails, VMLost, RunnerDrops, Disconnected, RowTypes, rowVars,
       workVars
  <2> QED BY <2>1 DEF SeenRecorded, Observable, passVars
<1>8. CASE (\E i \in Ids : Clock(i)) \/ PauseEnds \/ Queue \/ UNCHANGED vars
  BY <1>8 DEF Clock, RetryDue, Age, PauseEnds, Queue, JobQueued, vars, rowVars, worldVars,
     passVars, workVars, SeenRecorded, Observable
<1> QED BY <1>1, <1>2, <1>3, <1>4, <1>5, <1>6, <1>7, <1>8 DEF Next, Pass

LEMMA AlwaysAccounted == Spec => []AccountKept
<1>1. Init => SeenRecorded
  BY DEF Init, SeenRecorded, Observable
<1>2. IInv /\ Accounted /\ SeenRecorded <=> AccountKept
  BY DEF AccountKept
<1> QED BY <1>1, <1>2, AccountedStep, SeenStep, AccountedInit, Inductive, PTL DEF Spec

\* A finished row leaves neither the runner it has on record behind nor a machine
\* that was given its runner configuration; and no machine at all if it idled
\* out, lived too long or had lost its machine.
THEOREM FinishedRowsAccountedFor == Spec => []NothingLeftBehind
<1>1. ASSUME AccountKept, NEW i \in Ids, state[i] = "finished"
      PROVE  /\ registered[i] => ~Registered(i)
             /\ ~Configured(i)
             /\ reason[i] \in {"idle_timeout", "max_lifetime", "instance_missing"} =>
                    vm[i] = "none"
  BY <1>1, RowsTyped DEF AccountKept, Accounted, Account, RowTells, Registered, Configured,
     RowTypes, VMStates
<1>2. AccountKept => NothingLeftBehind
  BY <1>1 DEF NothingLeftBehind
<1> QED BY <1>2, AlwaysAccounted, PTL

\* A row says job_completed only of a runner that waits for no job and runs
\* none, although the status it was decided on is old.
THEOREM JobsAreCompleted == Spec => []JobCompletedIsTrue
<1>1. AccountKept => JobCompletedIsTrue
  BY DEF AccountKept, Accounted, Account, RowTells, JobCompletedIsTrue, Connected, AtWork
<1> QED BY <1>1, AlwaysAccounted, PTL

\* The calls that can end a job: deleting the registration, deleting or stopping
\* the machine.
EndsJob(i) ==
    \/ CleanRunner(i) /\ "runner" \in undo[i]
    \/ CleanMachine(i)
    \/ UndoRunner(i)
    \/ UndoVM(i)
    \/ DeleteOrphanVM(i)
    \/ DeleteOrphanRunner(i)

LEMMA OnlyThoseEndJobs ==
    ASSUME AccountKept, NEW i \in Ids, AtWork(i), ~AtWork(i)', Pass \/ (\E j \in Ids : Work(j))
    PROVE  EndsJob(i)
<1>1. RowTypes /\ runner'[i] # runner[i] /\ runner'[i] # "seen"
  BY RowsTyped DEF AtWork, AccountKept
<1>2. ASSUME NEW j \in Ids, Work(j) \/ Visit(j) PROVE EndsJob(i)
  <2>1. CASE CleanRunner(j) \/ UndoRunner(j) \/ DeleteOrphanRunner(j)
    BY <1>1, <2>1 DEF CleanRunner, UndoRunner, DeleteOrphanRunner, DeleteRunner, RowTypes,
       EndsJob
  <2>2. CASE CleanMachine(j) \/ UndoVM(j) \/ DeleteOrphanVM(j)
    <3>1. DeleteVMFails(j) \/ UNCHANGED runner
      BY <2>2 DEF CleanMachine, UndoVM, DeleteOrphanVM, DeleteVMFails
    <3>2. i = j
      BY <1>1, <3>1, DeleteVMFailsEffect
    <3> QED BY <2>2, <3>2 DEF EndsJob
  <2>3. CASE ProvisionRegister(j)
    <3>1. i # j
      BY <1>1, <2>3 DEF ProvisionRegister, AccountKept, Accounted, Account, WorkTells,
         WorldFits, AtWork
    <3> QED BY <1>1, <2>3, <3>1 DEF ProvisionRegister, Register, RowTypes
  <2>4. CASE ProvisionAwait(j) \/ VisitObserve(j)
    BY <1>1, <2>4 DEF ProvisionAwait, VisitObserve, SeeAtWork, RowTypes
  <2>5. CASE \/ CleanPostpone(j) \/ CleanFinish(j) \/ ProvisionInsert(j) \/ ProvisionRecord(j)
             \/ ProvisionRequest(j) \/ ProvisionVerify(j) \/ ProvisionBoot(j)
             \/ UndoBegin(j) \/ UndoEnd(j)
             \/ RetireMissing(j) \/ VisitPostponed(j) \/ VisitRetire(j)
             \/ ScaleDownSkip(j) \/ ScaleDown(j) \/ CleanupReturns(j) \/ Collect(j)
    BY <1>1, <2>5 DEF CleanPostpone, CleanFinish, ProvisionInsert, ProvisionRecord,
       ProvisionRequest, ProvisionVerify, ProvisionBoot, UndoBegin, UndoEnd,
       RetireMissing, VisitPostponed, VisitRetire, ScaleDownSkip, ScaleDown,
       CleanupReturns, Collect, PassCleanup, worldVars
  <2> QED BY <1>2, <2>1, <2>2, <2>3, <2>4, <2>5 DEF Work, Visit
<1>3. CASE \/ StartPass \/ ListManaged \/ OrphanVMsDone \/ ListRunners
           \/ ListInstances \/ FetchJobs \/ NothingNeeded \/ StartProvisioning
           \/ Settle \/ PassCallFails
  BY <1>1, <1>3 DEF StartPass, ListManaged, OrphanVMsDone, ListRunners, ListInstances,
     FetchJobs, NothingNeeded, StartProvisioning, Settle, PassCallFails, worldVars
<1> QED BY <1>2, <1>3 DEF Pass

\* The controller ends the job of an instance that lived too long, of one whose
\* job it never saw, or of one whose start it has given up; a job a pass has seen
\* ends for its age alone.
THEOREM ActiveRunnersKept == Spec => ActiveRunnerKept
<1>1. ASSUME AccountKept, NEW i \in Ids, AtWork(i), ~AtWork(i)',
             Pass \/ (\E j \in Ids : Work(j))
      PROVE  \/ reason[i] = "max_lifetime"
             \/ runner[i] = "active" /\ reason[i] \in {"idle_timeout", "runner_offline"}
             \/ GivenUp(i)
  <2>1. Account(i) /\ RowTypes /\ IInv
    BY <1>1, RowsTyped DEF AccountKept, Accounted
  <2>2. registered[i] /\ Configured(i) /\ runner[i] # "none" /\ Connected(i)
    BY <1>1, <2>1 DEF Account, WorldFits, Connected, AtWork, Configured
  <2>3. CASE (CleanRunner(i) /\ "runner" \in undo[i]) \/ CleanMachine(i)
    <3>1. step[i] \in CleanupSteps
      BY <2>3 DEF CleanRunner, CleanMachine, CleanupSteps
    <3>2. reason[i] \in Reasons /\ state[i] = "cleaning"
      BY <2>1, <3>1 DEF IInv, RowFits, Account, RowTells, RowTypes
    <3> QED BY <1>1, <2>1, <2>2, <3>2 DEF Account, RowTells, GivenUp, AtWork, Connected,
            Configured, Reasons, SuccessReasons, FailureReasons
  <2>4. CASE UndoRunner(i) \/ UndoVM(i)
    BY <2>4 DEF UndoRunner, UndoVM, GivenUp, UndoSteps
  <2>5. CASE DeleteOrphanVM(i) \/ DeleteOrphanRunner(i)
    <3>1. i \notin Live
      BY <1>1, <2>1, <2>2, <2>5 DEF DeleteOrphanVM, DeleteOrphanRunner, IInv, OrphansKnown
    <3>2. state[i] = "finished"
      BY <2>1, <2>2, <3>1 DEF Account, RowTells, Live
    <3> QED BY <2>1, <2>2, <3>2 DEF Account, RowTells
  <2> QED BY <1>1, <2>1, <2>3, <2>4, <2>5, OnlyThoseEndJobs DEF EndsJob
<1>2. AccountKept /\ [Next]_vars =>
          [\A i \in Ids :
               AtWork(i) /\ ~AtWork(i)' /\ (Pass \/ \E j \in Ids : Work(j)) =>
                   \/ reason[i] = "max_lifetime"
                   \/ /\ runner[i] = "active"
                      /\ reason[i] \in {"idle_timeout", "runner_offline"}
                   \/ GivenUp(i)]_vars
  BY <1>1
<1> QED BY <1>2, AlwaysAccounted, PTL DEF Spec, ActiveRunnerKept

-----------------------------------------------------------------------------
(* What happens to a row, and to what it stands for.                       *)

\* What a step may do to a row.
RowAdvances(i) ==
    /\ \/ CanTransition(state[i], state'[i])
       \/ state[i] = Absent /\ state'[i] = "bootstrapping"
    /\ reason[i] # NoReason => reason'[i] = reason[i]
    /\ registered[i] => registered'[i]
    /\ state[i] = "finished" =>
           UNCHANGED <<retry[i], aged[i], reason[i], registered[i]>>

\* Rested, of one row.
Rests(i) ==
    /\ step[i] \in UndoSteps => state[i] \in {"bootstrapping", "cleaning"}
    /\ state[i] = "finished" =>
           retry[i] = "none" /\ ~aged[i] /\ step[i] \in {"none", "ok", "err"}

\* No column of row j is written, and its next call stays.
RowKept(j) ==
    /\ state'[j] = state[j] /\ registered'[j] = registered[j]
    /\ reason'[j] = reason[j] /\ retry'[j] = retry[j] /\ aged'[j] = aged[j]
    /\ step'[j] = step[j]

\* The step writes row i at most, as it may.
WritesRow(i) ==
    /\ RowAdvances(i) /\ Rests(i)'
    /\ \A j \in Ids \ {i} : RowKept(j)

\* The columns of the rows, with their domains and ranges.
ColumnTypes ==
    /\ state \in [Ids -> States \union {Absent}]
    /\ registered \in [Ids -> BOOLEAN]
    /\ reason \in [Ids -> Reasons \union {NoReason}]
    /\ retry \in [Ids -> {"none", "ahead", "due"}]
    /\ aged \in [Ids -> BOOLEAN]
    /\ step \in [Ids -> Steps]

LEMMA ColumnsTyped == IInv => ColumnTypes
BY DEF IInv, TypeOK, StoreTypeOK, WorkTypeOK, ColumnTypes

\* A cleanup retires a row that is not finished.
LEMMA StartCleanupRow ==
    ASSUME IInv, NEW i \in Ids, NEW why, NEW known, StartCleanup(i, why, known)
    PROVE  WritesRow(i)
<1>1. ColumnTypes
  BY ColumnsTyped
<1> QED BY <1>1 DEF ColumnTypes, StartCleanup, BeginCleanup, WriteState, AcceptsState,
        CanTransition, Goto, WritesRow, RowAdvances, Rests, RowKept, UndoSteps, Absent

\* A goroutine, or a cleanup, writes its own row.
LEMMA WorkRow ==
    ASSUME IInv, Rested, NEW i \in Ids, Work(i)
    PROVE  WritesRow(i)
<1>1. ColumnTypes
  BY ColumnsTyped
<1>2. Fits(i) /\ Rests(i)
  BY DEF IInv, RowFits, Fits, Rested, Rests
<1>3. CASE ProvisionAwait(i)
  <2>1. state[i] = "bootstrapping"
    BY <1>2, <1>3 DEF ProvisionAwait, Fits, ProvisionSteps
  <2>2. CASE StartCleanup(i, "job_completed", TRUE)
    BY <2>2, StartCleanupRow
  <2>3. CASE ~StartCleanup(i, "job_completed", TRUE)
    BY <1>1, <1>3, <2>1, <2>3 DEF ProvisionAwait, SetOperationalState, WriteState,
       AcceptsState, GivesUp, Fail, Returns, Goto, ColumnTypes, WritesRow, RowAdvances, Rests,
       RowKept, UndoSteps, CanTransition, Absent, rowVars
  <2> QED BY <2>2, <2>3
<1> USE <1>1, <1>2 DEF ColumnTypes, WritesRow, RowAdvances, Rests, RowKept, Fits, Goto,
        Returns, rowVars, WriteState, Absent, CanTransition, ProvisionSteps, UndoSteps,
        CleanupSteps
<1>4. CASE CleanRunner(i)
  BY <1>4 DEF CleanRunner
<1>5. CASE CleanMachine(i)
  BY <1>5 DEF CleanMachine
<1>6. CASE CleanPostpone(i)
  BY <1>6 DEF CleanPostpone, Retry
<1>7. CASE CleanFinish(i)
  BY <1>7 DEF CleanFinish, FinishCleanup
<1>8. CASE ProvisionInsert(i)
  BY <1>8 DEF ProvisionInsert, Create
<1>9. CASE ProvisionRegister(i)
  BY <1>9 DEF ProvisionRegister, Fail
<1>10. CASE ProvisionRecord(i)
  BY <1>10 DEF ProvisionRecord, SetRegistration, Fail
<1>11. CASE ProvisionRequest(i)
  BY <1>11 DEF ProvisionRequest, Fail
<1>12. CASE ProvisionVerify(i)
  BY <1>12 DEF ProvisionVerify, GivesUp, Fail
<1>13. CASE ProvisionBoot(i)
  BY <1>13 DEF ProvisionBoot, GivesUp, Fail
<1>15. CASE UndoBegin(i)
  BY <1>15 DEF UndoBegin, BeginCleanup
<1>16. CASE UndoRunner(i)
  BY <1>16 DEF UndoRunner
<1>17. CASE UndoVM(i)
  BY <1>17 DEF UndoVM
<1>18. CASE UndoEnd(i)
  BY <1>18 DEF UndoEnd, FinishCleanup, Retry
<1> QED BY <1>3, <1>4, <1>5, <1>6, <1>7, <1>8, <1>9, <1>10, <1>11, <1>12, <1>13,
           <1>15, <1>16, <1>17, <1>18 DEF Work

\* Rows that are not written, on which no work begins.
LEMMA KeptRow ==
    ASSUME Rested, UNCHANGED rowVars,
           \A i \in Ids : step'[i] = step[i] \/ step'[i] \in {"none", "ok", "err"}
    PROVE  \A i \in Ids : RowAdvances(i) /\ Rests(i)'
BY DEF Rested, Rests, RowAdvances, CanTransition, rowVars, UndoSteps

LEMMA WrittenRow ==
    ASSUME Rested, NEW i \in Ids, WritesRow(i)
    PROVE  \A j \in Ids : RowAdvances(j) /\ Rests(j)'
BY DEF Rested, Rests, RowAdvances, CanTransition, WritesRow, RowKept

LEMMA VisitRow ==
    ASSUME IInv, Rested, NEW i \in Ids, Visit(i)
    PROVE  \A j \in Ids : RowAdvances(j) /\ Rests(j)'
<1>1. ColumnTypes
  BY ColumnsTyped
<1>2. CASE \/ DeleteOrphanVM(i) \/ DeleteOrphanRunner(i) \/ VisitPostponed(i)
           \/ ScaleDownSkip(i)
  BY <1>2, KeptRow DEF DeleteOrphanVM, DeleteOrphanRunner, VisitPostponed, ScaleDownSkip,
     workVars
<1>3. CASE RetireMissing(i) \/ VisitRetire(i) \/ ScaleDown(i)
  <2>1. PICK why : PassCleanup(i, why)
    BY <1>3 DEF RetireMissing, VisitRetire, ScaleDown
  <2>2. CASE StartCleanup(i, why, snap[i].registered)
    BY <2>2, StartCleanupRow, WrittenRow
  <2>3. CASE UNCHANGED <<rowVars, workVars>>
    BY <2>3, KeptRow DEF workVars
  <2> QED BY <2>1, <2>2, <2>3 DEF PassCleanup
<1>4. CASE VisitObserve(i)
  <2>1. UNCHANGED workVars /\ Quiet
    BY <1>4 DEF VisitObserve
  <2>2. CASE UNCHANGED rowVars
    BY <2>1, <2>2, KeptRow DEF workVars
  <2>3. ASSUME NEW s \in {"ready", "running"}, SetOperationalState(i, s)
        PROVE  WritesRow(i)
    BY <1>1, <2>1, <2>3 DEF SetOperationalState, WriteState, AcceptsState, CanTransition,
       ColumnTypes, WritesRow, RowAdvances, Rests, RowKept, UndoSteps, workVars, Quiet, Absent
  <2> QED BY <1>4, <2>2, <2>3, WrittenRow DEF VisitObserve
<1>5. CASE CleanupReturns(i) \/ Collect(i)
  BY <1>1, <1>5, KeptRow DEF CleanupReturns, Collect, Goto, ColumnTypes
<1> QED BY <1>2, <1>3, <1>4, <1>5 DEF Visit

\* One step per action.
LEMMA RowsStep ==
    ASSUME IInv, Rested, [Next]_vars
    PROVE  \A i \in Ids : RowAdvances(i) /\ Rests(i)'
<1>1. ColumnTypes
  BY ColumnsTyped
<1>2. ASSUME NEW i \in Ids, Work(i) PROVE \A j \in Ids : RowAdvances(j) /\ Rests(j)'
  BY <1>2, WorkRow, WrittenRow
<1>3. ASSUME NEW i \in Ids, Visit(i) PROVE \A j \in Ids : RowAdvances(j) /\ Rests(j)'
  BY <1>3, VisitRow
<1>4. CASE \/ StartPass \/ ListManaged \/ OrphanVMsDone \/ ListRunners
           \/ ListInstances \/ FetchJobs \/ NothingNeeded \/ Settle \/ PassCallFails
  BY <1>4, KeptRow DEF StartPass, ListManaged, OrphanVMsDone, ListRunners, ListInstances,
     FetchJobs, NothingNeeded, Settle, PassCallFails, workVars
<1>5. CASE StartProvisioning
  <2>1. UNCHANGED rowVars /\ Quiet
    BY <1>5 DEF StartProvisioning, ScaledDown
  <2>2. ASSUME NEW i \in Ids
        PROVE  step'[i] = step[i] \/ (step'[i] = "insert" /\ state[i] = Absent)
    <3>1. \/ UNCHANGED step
          \/ \E starts \in SUBSET Fresh :
                step' = [j \in Ids |-> IF j \in starts THEN "insert" ELSE step[j]]
      BY <1>5 DEF StartProvisioning
    <3> QED BY <3>1 DEF Fresh
  <2> QED BY <2>1, <2>2 DEF Rested, Rests, RowAdvances, CanTransition, rowVars, UndoSteps,
          Absent
<1>6. ASSUME NEW i \in Ids, Clock(i) PROVE WritesRow(i)
  <2>1. step' = step /\ (RetryDue(i) \/ Age(i)) /\ Rests(i)
    BY <1>6 DEF Clock, workVars, Rested, Rests
  <2> QED BY <1>1, <2>1 DEF RetryDue, Age, ColumnTypes, WritesRow, RowAdvances, Rests,
          RowKept, CanTransition
<1>7. CASE \/ (\E i \in Ids : Outside(i) \/ Damage(i))
           \/ PauseEnds \/ Queue \/ UNCHANGED vars
  BY <1>7, KeptRow DEF Outside, Damage, PauseEnds, Queue, vars, workVars
<1>8. CASE Crash
  BY <1>8, KeptRow DEF Crash
<1> QED BY <1>2, <1>3, <1>4, <1>5, <1>6, <1>7, <1>8, WrittenRow DEF Next, Pass

LEMMA AlwaysRested == Spec => [](AccountKept /\ Rested)
<1>1. Init => Rested
  BY DEF Init, StoreInit, Rested, UndoSteps, Absent
<1>2. IInv /\ Rested /\ [Next]_vars => Rested'
  BY RowsStep DEF Rested, Rests
<1>3. AccountKept => IInv
  BY DEF AccountKept
<1> QED BY <1>1, <1>2, <1>3, AlwaysAccounted, PTL DEF Spec

\* A row goes through its states once, with the registration and the reason it
\* first got, and is never written again once it is finished: although the store
\* accepts a state over itself and a retry time in any state, no call of a pass,
\* a start or a cleanup makes use of it, whatever fails or crashes.
THEOREM RowsAdvance == Spec => RowsOnlyAdvance
<1>1. AccountKept /\ Rested /\ [Next]_vars =>
          [\A i \in Ids :
               /\ \/ CanTransition(state[i], state'[i])
                  \/ state[i] = Absent /\ state'[i] = "bootstrapping"
               /\ reason[i] # NoReason => reason'[i] = reason[i]
               /\ registered[i] => registered'[i]
               /\ state[i] = "finished" =>
                      UNCHANGED <<retry[i], aged[i], reason[i], registered[i]>>]_vars
  BY RowsStep DEF RowAdvances, AccountKept
<1> QED BY <1>1, AlwaysRested, PTL DEF Spec, RowsOnlyAdvance

\* An instance in service.
InService(i) == state[i] \in {"ready", "running"}

\* No work has an instance in service: the row of a start is not there yet, the
\* row of a cleanup is no longer.
LEMMA WorkSpares ==
    ASSUME IInv, Accounted, Rested, NEW i \in Ids, InService(i),
           NEW j \in Ids, Work(j)
    PROVE  UNCHANGED <<Status(i), vm[i]>>
<1>1. step[j] \in ProvisionSteps \union UndoSteps \union CleanupSteps
  BY DEF Work, CleanRunner, CleanMachine, CleanPostpone, CleanFinish, ProvisionInsert,
     ProvisionRegister, ProvisionRecord, ProvisionRequest, ProvisionVerify,
     ProvisionBoot, ProvisionAwait, UndoBegin, UndoRunner, UndoVM, UndoEnd,
     ProvisionSteps, UndoSteps, CleanupSteps
<1>2. i # j
  BY <1>1 DEF IInv, RowFits, Rested, InService, Absent
<1>3. Untouched(i)
  BY <1>2, WorkAccount DEF Accounted
<1> QED BY <1>3 DEF Untouched, Status

\* What the orphan collection deletes is not that of an instance in service.
LEMMA VisitSpares ==
    ASSUME IInv, Accounted, NEW i \in Ids, InService(i), NEW j \in Ids, Visit(j)
    PROVE  UNCHANGED <<Status(i), vm[i]>>
<1>1. RowTypes /\ i \in Live /\ registered[i]
  BY RowsTyped DEF InService, Live, Absent, Accounted, Account, RowTells
<1>2. CASE DeleteOrphanVM(j)
  <2>1. i # j
    BY <1>1, <1>2 DEF DeleteOrphanVM, IInv, OrphansKnown
  <2>2. DeleteVMFails(j)
    BY <1>2 DEF DeleteOrphanVM, DeleteVMFails
  <2> QED BY <1>1, <2>1, <2>2, DeleteVMFailsEffect DEF Status
<1>3. CASE DeleteOrphanRunner(j)
  <2>1. i # j
    BY <1>1, <1>3 DEF DeleteOrphanRunner, IInv, OrphansKnown
  <2> QED BY <1>1, <1>3, <2>1 DEF DeleteOrphanRunner, DeleteRunner, RowTypes, Status
<1>4. CASE \/ RetireMissing(j) \/ VisitPostponed(j) \/ VisitRetire(j)
           \/ ScaleDownSkip(j) \/ ScaleDown(j) \/ CleanupReturns(j) \/ Collect(j)
  BY <1>4 DEF RetireMissing, VisitPostponed, VisitRetire, ScaleDownSkip, ScaleDown,
     CleanupReturns, Collect, PassCleanup, worldVars, Status
<1>5. CASE VisitObserve(j)
  BY <1>1, <1>5 DEF VisitObserve, SeeAtWork, AtWork, RowTypes, Status
<1> QED BY <1>2, <1>3, <1>4, <1>5 DEF Visit

\* The controller deletes nothing of an instance whose row is in service: the
\* row is retired first.
THEOREM DeletionsComeAfter == Spec => DeletionsAnnounced
<1>1. ASSUME AccountKept, Rested, Pass \/ (\E j \in Ids : Work(j)),
             NEW i \in Ids, InService(i)
      PROVE  UNCHANGED <<Status(i), vm[i]>>
  <2>1. CASE \E j \in Ids : Work(j)
    BY <1>1, <2>1, WorkSpares DEF AccountKept
  <2>2. CASE \E j \in Ids : Visit(j)
    BY <1>1, <2>2, VisitSpares DEF AccountKept
  <2>3. CASE \/ StartPass \/ ListManaged \/ OrphanVMsDone \/ ListRunners
             \/ ListInstances \/ FetchJobs \/ NothingNeeded \/ StartProvisioning
             \/ Settle \/ PassCallFails
    BY <2>3 DEF StartPass, ListManaged, OrphanVMsDone, ListRunners, ListInstances,
       FetchJobs, NothingNeeded, StartProvisioning, Settle, PassCallFails, worldVars, Status
  <2> QED BY <1>1, <2>1, <2>2, <2>3 DEF Pass
<1>2. AccountKept /\ Rested /\ [Next]_vars =>
          [(Pass \/ \E j \in Ids : Work(j)) =>
               \A i \in Ids : state[i] \in {"ready", "running"} =>
                   UNCHANGED <<Status(i), vm[i]>>]_vars
  BY <1>1 DEF InService
<1> QED BY <1>2, AlwaysRested, PTL DEF Spec, DeletionsAnnounced
=============================================================================
