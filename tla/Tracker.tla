------------------------------ MODULE Tracker ------------------------------
(***************************************************************************)
(* reconcile.Tracker: what /healthz and /livez answer from, in memory.     *)
(* Times are abstracted to what condition() asks of them: whether the      *)
(* deadline of a pass, the deadline of its stage, or the time by which the *)
(* next pass is expected has gone by.                                      *)
(***************************************************************************)
EXTENDS PoolSet

VARIABLES
    active, attempted, failed,  \* poolState
    progress,                   \* the pool has an entry in t.progress
    passLate,                   \* now is past deadlineAt
    stageLate,                  \* now is past the DeadlineAt of the progress
    overdue                     \* now is past nextExpectedAt and the grace

trackerVars == <<active, attempted, failed, progress, passLate, stageLate, overdue>>

None == [p \in Pools |-> FALSE]

TrackerTypeOK ==
    \A f \in {active, attempted, failed, progress, passLate, stageLate, overdue} :
        f \in [Pools -> BOOLEAN]

TrackerInit ==
    /\ active = None /\ attempted = None /\ failed = None
    /\ progress = None
    /\ passLate = None /\ stageLate = None /\ overdue = None

\* A new process: Configure on an empty tracker.
Configure ==
    /\ active' = None /\ attempted' = None /\ failed' = None
    /\ progress' = None
    /\ passLate' = None /\ stageLate' = None /\ overdue' = None

PoolStart(p) ==
    /\ active' = [active EXCEPT ![p] = TRUE]
    /\ passLate' = [passLate EXCEPT ![p] = FALSE]
    /\ overdue' = [overdue EXCEPT ![p] = FALSE]
    /\ UNCHANGED <<attempted, failed, progress, stageLate>>

Progress(p) ==
    /\ progress' = [progress EXCEPT ![p] = TRUE]
    /\ stageLate' = [stageLate EXCEPT ![p] = FALSE]
    /\ UNCHANGED <<active, attempted, failed, passLate, overdue>>

\* A slip: the stage of a pass that failed stays on display.
PoolEndsKeepingStage(p, failure) ==
    /\ active' = [active EXCEPT ![p] = FALSE]
    /\ attempted' = [attempted EXCEPT ![p] = TRUE]
    /\ failed' = [failed EXCEPT ![p] = failure]
    /\ passLate' = [passLate EXCEPT ![p] = FALSE]
    /\ overdue' = [overdue EXCEPT ![p] = FALSE]
    /\ UNCHANGED <<progress, stageLate>>

\* PoolFailure and PoolSuccess.
PoolEnds(p, failure) ==
    /\ active' = [active EXCEPT ![p] = FALSE]
    /\ attempted' = [attempted EXCEPT ![p] = TRUE]
    /\ failed' = [failed EXCEPT ![p] = failure]
    /\ progress' = [progress EXCEPT ![p] = FALSE]
    /\ passLate' = [passLate EXCEPT ![p] = FALSE]
    /\ stageLate' = [stageLate EXCEPT ![p] = FALSE]
    /\ overdue' = [overdue EXCEPT ![p] = FALSE]

Late(p) == passLate[p] \/ stageLate[p] \/ overdue[p]

Condition ==
    IF \E p \in Pools : Late(p) THEN "stalled"
    ELSE IF \E p \in Pools : failed[p] THEN "degraded"
    ELSE IF \E p \in Pools : ~attempted[p] THEN "starting"
    ELSE "healthy"

-----------------------------------------------------------------------------
(* Time passing.                                                           *)

StageDeadline(p) ==
    /\ progress[p] /\ ~stageLate[p]
    /\ stageLate' = [stageLate EXCEPT ![p] = TRUE]
    /\ UNCHANGED <<active, attempted, failed, progress, passLate, overdue>>

PassDeadline(p) ==
    /\ active[p] /\ ~passLate[p]
    /\ passLate' = [passLate EXCEPT ![p] = TRUE]
    /\ UNCHANGED <<active, attempted, failed, progress, stageLate, overdue>>

NextPassOverdue(p) ==
    /\ ~active[p] /\ attempted[p] /\ ~overdue[p]
    /\ overdue' = [overdue EXCEPT ![p] = TRUE]
    /\ UNCHANGED <<active, attempted, failed, progress, passLate, stageLate>>
=============================================================================
