-------------------------- MODULE Deadlines_proofs --------------------------
(***************************************************************************)
(* For every limit, every timeout and every number of starts: a pass ends  *)
(* by its deadline and one cleanup_timeout, and leaves a stage only to a   *)
(* run that is still on record as running; a pass that meets nothing it    *)
(* did not budget for leaves its starts their whole time, and is not taken *)
(* for stalled before it only undoes them.                                 *)
(***************************************************************************)
EXTENDS Deadlines, TLAPS

StartStates == {"none", "begun", "working", "telling", "clearing", "undoing",
                "done", "failed"}

AtWork == {"begun", "working", "telling", "clearing"}

ClockTypeOK ==
    /\ now \in Nat
    /\ at \in Calls \union {"starts", "asleep"}
    /\ until \in Int
    /\ start \in [Starts -> StartStates]
    /\ ends \in [Starts -> Int]
    /\ stopped \in Nat \union {Never}

\* Told to stop, a call returns before time goes on.
StoppedNow == stopped # Never => stopped = now

CallInTime == at \in Calls => now <= until /\ until <= PassTimeout /\ StoppedNow

\* The work of a start ends with the pass, its undoing a cleanup_timeout later.
StartInTime(s) ==
    /\ start[s] \in AtWork => now <= ends[s] /\ ends[s] <= PassTimeout /\ StoppedNow
    /\ start[s] = "undoing" =>
           /\ now <= ends[s] /\ ends[s] <= now + CleanupTimeout
           /\ ends[s] <= PassTimeout + CleanupTimeout
           /\ stopped # Never => ends[s] <= stopped + CleanupTimeout

\* Goroutines are there only while the pass collects them.
Collected ==
    at # "starts" => \A s \in Starts : start[s] \in {"none", "done", "failed"}

\* A pass under way is on record as running.
OnRecord == ~Asleep => open

IInv ==
    /\ ClockTypeOK
    /\ OnRecord
    /\ CallInTime
    /\ at = "starts" => \A s \in Starts : StartInTime(s)
    /\ Collected
    /\ PassBounded
    /\ NoStageAfterPass

-----------------------------------------------------------------------------

LEMMA PassTimeoutType == PassTimeout \in Nat /\ CleanupTimeout \in Nat
<1>1. MaxInstances * CleanupTimeout \in Nat
  BY DeadlinesAssumption
<1>2. (MaxInstances + 3) * RequestTimeout \in Nat
  BY DeadlinesAssumption
<1> QED BY <1>1, <1>2, DeadlinesAssumption DEF PassTimeout

\* A context derived from that of the pass ends with it, and not before now.
LEMMA WithinPass ==
    ASSUME NEW limit \in Nat, now \in Nat, now <= PassTimeout
    PROVE  /\ Within(limit) \in Int
           /\ now <= Within(limit) /\ Within(limit) <= PassTimeout
BY PassTimeoutType DEF Within, Least

LEMMA InitInv == DeadlinesInit => IInv
BY DEF DeadlinesInit, IInv, ClockTypeOK, CallInTime, Collected, PassBounded,
       OnRecord, NoStageAfterPass, Asleep, StartStates, Calls, Never

LEMMA BeginInv == IInv /\ Begin => IInv'
<1> SUFFICES ASSUME IInv, Begin PROVE IInv'
  OBVIOUS
<1> QED BY PassTimeoutType DEF IInv, Begin, ClockTypeOK, CallInTime, Collected,
       StoppedNow, PassBounded, OnRecord, NoStageAfterPass, Asleep, Call, Calls, Never,
       StartStates, Display

LEMMA BeginFailsInv == IInv /\ BeginFails => IInv'
<1> SUFFICES ASSUME IInv, BeginFails PROVE IInv'
  OBVIOUS
<1>1. open' /\ at' = at /\ UNCHANGED <<now, until, start, ends, stopped, recorded, shown>>
  BY DEF BeginFails, passVars, startVars, displayVars
<1> QED BY <1>1 DEF IInv, BeginFails, ClockTypeOK, CallInTime, StartInTime, StoppedNow,
       Collected, PassBounded, OnRecord, NoStageAfterPass, Asleep

LEMMA EndPassInv ==
    ASSUME IInv, EndPass, ~Asleep,
           \A s \in Starts : start[s] \in {"none", "done", "failed"}
    PROVE  IInv'
BY DEF IInv, EndPass, FinishPool, ClockTypeOK, CallInTime, Collected, StoppedNow,
       PassBounded, OnRecord, NoStageAfterPass, Asleep, Calls, startVars

\* The calls of the pass: each starts under a context of its own.
LEMMA CallInv ==
    ASSUME IInv, at \in Calls, stopped = Never,
           at' \in Calls, until' = PassTimeout \/ \E limit \in Nat : until' = Within(limit),
           UNCHANGED <<now, startVars, stopped, open>>
    PROVE  IInv'
<1>1. now \in Nat /\ now <= PassTimeout
  BY PassTimeoutType DEF IInv, ClockTypeOK, CallInTime
<1>2. until' \in Int /\ now <= until' /\ until' <= PassTimeout
  BY <1>1, WithinPass, PassTimeoutType
<1> QED BY <1>1, <1>2, PassTimeoutType DEF IInv, ClockTypeOK, CallInTime, Collected,
       StoppedNow, PassBounded, OnRecord, NoStageAfterPass, Asleep, Calls, startVars

LEMMA CallSucceedsInv == IInv /\ CallSucceeds => IInv'
<1> SUFFICES ASSUME IInv, CallSucceeds PROVE IInv'
  OBVIOUS
<1>1. at \in Calls /\ at' \in Calls
  BY DEF CallSucceeds, OrphanMachine, MissingMachine, RunnersList, MorePages,
         OrphanRunner, Observe, CleanObserved, CleanAtOnce, Jobs, Retire,
         RowsStep, Call, Calls
<1>2. \E limit \in Nat : until' = Within(limit)
  BY DeadlinesAssumption DEF CallSucceeds, OrphanMachine, MissingMachine,
         RunnersList, MorePages, OrphanRunner, Observe, CleanObserved,
         CleanAtOnce, Jobs, Retire, Call
<1> QED BY <1>1, <1>2, CallInv DEF CallSucceeds

LEMMA LaunchInv == IInv /\ Launch => IInv'
<1> SUFFICES ASSUME IInv, Launch PROVE IInv'
  OBVIOUS
<1>1. at \in Calls /\ now \in Nat /\ now <= PassTimeout /\ stopped = Never
  BY PassTimeoutType DEF IInv, ClockTypeOK, CallInTime, Launch, Calls
<1>2. PICK chosen \in SUBSET Starts :
          start' = [s \in Starts |-> IF s \in chosen THEN "begun" ELSE "none"]
  BY DEF Launch
<1>3. \A s \in Starts : /\ ends'[s] \in Int
                        /\ now <= ends'[s] /\ ends'[s] <= PassTimeout
  BY <1>1, WithinPass, DeadlinesAssumption DEF Launch
<1>4. ClockTypeOK'
  BY <1>1, <1>2, <1>3, WithinPass, PassTimeoutType, DeadlinesAssumption
     DEF Launch, IInv, ClockTypeOK, Call, StartStates
<1>5. \A s \in Starts : StartInTime(s)'
  BY <1>1, <1>2, <1>3 DEF Launch, StartInTime, StoppedNow, AtWork
<1> QED BY <1>1, <1>4, <1>5, PassTimeoutType DEF IInv, Launch, Call, CallInTime, Collected,
       PassBounded, OnRecord, NoStageAfterPass, Asleep, Calls

-----------------------------------------------------------------------------
(* A step of one start.                                                    *)

LEMMA StartMoves ==
    ASSUME IInv, NEW s \in Starts, NEW from \in SUBSET StartStates,
           NEW to \in StartStates, NEW end \in Int,
           StartStep(s, from, to), from \intersect {"none", "done", "failed"} = {},
           ends' = [ends EXCEPT ![s] = end], StartInTime(s)'
    PROVE  IInv'
<1>1. at = "starts" /\ at' = at
  BY DEF IInv, Collected, StartStep, passVars
<1>2. ClockTypeOK'
  BY DEF IInv, ClockTypeOK, StartStep, passVars
<1>3. \A t \in Starts \ {s} : StartInTime(t)'
  BY <1>1 DEF IInv, ClockTypeOK, StartInTime, StartStep, StoppedNow, passVars
<1> QED BY <1>1, <1>2, <1>3 DEF IInv, CallInTime, Collected, PassBounded,
       OnRecord, NoStageAfterPass, Asleep, Calls, StartStep, passVars

LEMMA StartInv ==
    ASSUME IInv, NEW s \in Starts,
           Record(s) \/ Show(s) \/ Succeed(s) \/ GiveUp(s) \/ ClearUp(s)
             \/ Undo(s) \/ Undone(s)
    PROVE  IInv'
<1> USE DEF StartStates
<1>1. ends[s] \in Int /\ now \in Nat /\ ends = [ends EXCEPT ![s] = ends[s]]
  BY DEF IInv, ClockTypeOK
<1>2. start \in [Starts -> StartStates]
  BY DEF IInv, ClockTypeOK
<1>3. start[s] \notin {"none", "done", "failed"} => StartInTime(s)
  BY DEF IInv, Collected
<1>4. CASE Record(s) \/ Show(s)
  <2>1. start[s] \in AtWork /\ start'[s] \in AtWork
    BY <1>2, <1>4 DEF Record, Show, StartStep, AtWork
  <2>2. StartInTime(s)'
    BY <1>3, <1>4, <2>1 DEF Record, Show, StartStep, StartInTime, StoppedNow, AtWork
  <2> QED BY <1>1, <1>4, <2>2, StartMoves DEF Record, Show
<1>5. CASE Succeed(s) \/ GiveUp(s) \/ Undone(s)
  <2>1. StartInTime(s)'
    BY <1>2, <1>5 DEF Succeed, GiveUp, Undone, StartStep, StartInTime, AtWork
  <2> QED BY <1>1, <1>5, <2>1, StartMoves DEF Succeed, GiveUp, Undone
<1>6. CASE ClearUp(s)
  <2>1. start[s] = "working" /\ start'[s] = "clearing" /\ ends'[s] = Within(CleanupTimeout)
    BY <1>1, <1>2, <1>6 DEF ClearUp, StartStep, IInv, ClockTypeOK
  <2>2. now <= PassTimeout /\ StoppedNow
    BY <1>1, <1>3, <2>1, PassTimeoutType DEF StartInTime, AtWork
  <2>3. /\ Within(CleanupTimeout) \in Int
        /\ now <= Within(CleanupTimeout) /\ Within(CleanupTimeout) <= PassTimeout
    BY <1>1, <2>2, WithinPass, PassTimeoutType
  <2>4. StartInTime(s)'
    BY <1>6, <2>1, <2>2, <2>3 DEF ClearUp, StartStep, StartInTime, StoppedNow, AtWork
  <2> QED BY <1>6, <2>3, <2>4, StartMoves DEF ClearUp
<1>7. CASE Undo(s)
  <2>1. start[s] = "working" /\ start'[s] = "undoing" /\ ends'[s] = now + CleanupTimeout
    BY <1>1, <1>2, <1>7 DEF Undo, StartStep, IInv, ClockTypeOK
  <2>2. now <= PassTimeout /\ StoppedNow
    BY <1>1, <1>3, <2>1, PassTimeoutType DEF StartInTime, AtWork
  <2>3. StartInTime(s)'
    BY <1>1, <1>7, <2>1, <2>2, PassTimeoutType
       DEF Undo, StartStep, StartInTime, StoppedNow, AtWork
  <2>4. now + CleanupTimeout \in Int
    BY <1>1, PassTimeoutType
  <2> QED BY <1>7, <2>3, <2>4, StartMoves DEF Undo
<1> QED BY <1>4, <1>5, <1>6, <1>7

LEMMA StopInv == IInv /\ Stop => IInv'
<1> SUFFICES ASSUME IInv, Stop PROVE IInv'
  OBVIOUS
<1>1. now \in Nat /\ stopped' = now /\ now' = now /\ at' = at /\ start' = start /\ ends' = ends
  BY DEF IInv, ClockTypeOK, Stop, passVars, startVars
<1>2. at = "starts" => \A s \in Starts : StartInTime(s)'
  BY <1>1 DEF IInv, StartInTime, StoppedNow
<1> QED BY <1>1, <1>2, PassTimeoutType DEF IInv, ClockTypeOK, CallInTime, Collected, StoppedNow,
       PassBounded, OnRecord, NoStageAfterPass, Asleep, Stop, passVars, displayVars

LEMMA TickInv == IInv /\ Tick => IInv'
<1> SUFFICES ASSUME IInv, Tick PROVE IInv'
  OBVIOUS
<1>1. /\ now \in Nat /\ now' = now + 1 /\ stopped' = stopped
      /\ stopped \in Nat \union {Never}
      /\ at' = at /\ until' = until /\ start' = start /\ ends' = ends
      /\ recorded' = recorded /\ shown' = shown /\ open' = open
      /\ start \in [Starts -> StartStates] /\ ends \in [Starts -> Int]
  BY DEF IInv, ClockTypeOK, Tick, startVars, displayVars
<1>2. ClockTypeOK'
  BY <1>1 DEF IInv, ClockTypeOK
<1>3. CASE at \in Calls
  <2>1. at # "starts" /\ stopped = Never /\ now + 1 <= until /\ until <= PassTimeout
    BY <1>1, <1>3 DEF IInv, ClockTypeOK, CallInTime, Tick, Calls
  <2> QED BY <1>1, <1>2, <2>1, PassTimeoutType DEF IInv, CallInTime, Collected, StoppedNow,
         PassBounded, OnRecord, NoStageAfterPass, Asleep, ClockTypeOK
<1>4. CASE at = "starts"
  <2>1. at \notin Calls
    BY <1>4 DEF Calls
  <2>2. PICK s \in Starts : start[s] \in {"working", "clearing", "undoing"}
    BY <1>4, <2>1 DEF Tick, InState
  <2>3. \A t \in Starts : start[t] \in AtWork \union {"undoing"} =>
            Waits(t) /\ start[t] \notin {"begun", "telling"}
    BY <1>4, <2>1 DEF Tick, InState, AtWork
  <2>4. ASSUME NEW t \in Starts PROVE StartInTime(t)'
    <3>1. ends[t] \in Int /\ CleanupTimeout \in Int /\ StartInTime(t)
      BY <1>1, <1>4, PassTimeoutType DEF IInv
    <3>2. start[t] \in AtWork => now + 1 <= ends[t] /\ stopped = Never
      BY <1>1, <2>3, <3>1 DEF Waits, Cancelled, AtWork
    <3>3. start[t] = "undoing" => now + 1 <= ends[t]
      BY <1>1, <2>3, <3>1 DEF Waits, AtWork
    <3> QED BY <1>1, <3>1, <3>2, <3>3 DEF StartInTime, StoppedNow
  <2>5. PassBounded'
    BY <1>1, <1>4, <2>2, <2>3, PassTimeoutType
       DEF IInv, StartInTime, PassBounded, Waits, Cancelled, AtWork, Asleep
  <2> QED BY <1>1, <1>2, <1>4, <2>1, <2>4, <2>5 DEF IInv, CallInTime, Collected,
         OnRecord, NoStageAfterPass, Asleep
<1> QED BY <1>3, <1>4 DEF Tick

\* One step per action.
LEMMA StepInv == IInv /\ [DeadlinesNext]_deadlineVars => IInv'
<1> SUFFICES ASSUME IInv, [DeadlinesNext]_deadlineVars PROVE IInv'
  OBVIOUS
<1>1. CASE Begin
  BY <1>1, BeginInv
<1>2. CASE CallSucceeds
  BY <1>2, CallSucceedsInv
<1>3. CASE CallFails \/ NoStarts
  BY <1>3, EndPassInv DEF CallFails, NoStarts, IInv, Collected, Calls, Asleep
<1>4. CASE Launch
  BY <1>4, LaunchInv
<1>5. CASE Collect
  BY <1>5, EndPassInv DEF Collect, InState, Asleep
<1>6. CASE Stop
  BY <1>6, StopInv
<1>7. CASE Tick
  BY <1>7, TickInv
<1>8. CASE \E s \in Starts :
              \/ Record(s) \/ Show(s) \/ Succeed(s) \/ GiveUp(s)
              \/ ClearUp(s) \/ Undo(s) \/ Undone(s)
  BY <1>8, StartInv
<1>9. CASE UNCHANGED deadlineVars
  BY <1>9 DEF deadlineVars, passVars, startVars, displayVars, IInv, ClockTypeOK,
     CallInTime, StartInTime, StoppedNow, Collected, PassBounded,
     OnRecord, NoStageAfterPass, Asleep
<1>10. CASE BeginFails
  BY <1>10, BeginFailsInv
<1> QED BY <1>1, <1>2, <1>3, <1>4, <1>5, <1>6, <1>7, <1>8, <1>9, <1>10 DEF DeadlinesNext

\* Whatever the timeouts and the number of starts, no behaviour keeps a pass
\* past its deadline and one cleanup_timeout, or a stopping service past one.
THEOREM PassesEndInTime == DeadlinesSpec => []PassBounded
<1>1. IInv => PassBounded
  BY DEF IInv
<1> QED BY <1>1, InitInv, StepInv, PTL DEF DeadlinesSpec

\* However the starts of a pass end, none is left to write a stage after it: a
\* stage stays in the row only as long as the run is on record as running, when
\* the pass could not record its result.
THEOREM NoStageOutlivesPass == DeadlinesSpec => []NoStageAfterPass
<1>1. IInv => NoStageAfterPass
  BY DEF IInv
<1> QED BY <1>1, InitInv, StepInv, PTL DEF DeadlinesSpec

-----------------------------------------------------------------------------
(* The schedule: how the time of a pass adds up.                           *)

\* What the rows not visited yet take at most, and those that may be retired.
RowsTime == rows * (CleanupTimeout + RequestTimeout)
KeptTime == kept * CleanupTimeout

\* The row at hand while it is observed.
AtHand == IF at = "observe" THEN 1 ELSE 0

CountsFit ==
    /\ rows \in Nat /\ kept \in Nat /\ extra \in Nat /\ slow \in BOOLEAN
    /\ at \in Calls /\ ~crowded => rows + kept + AtHand <= MaxInstances
    /\ at \in {"jobs", "retire"} => rows = 0

\* By when the call at hand returns, unless Incus is slow to list its machines.
Latest == IF at = "managed" THEN RequestTimeout ELSE until

\* What the pass has to do after it.
Rest ==
    CASE at \in {"managed", "missing"} -> RowsTime + KeptTime + 2 * RequestTimeout
      [] at \in {"list", "clean"} -> RowsTime + KeptTime + RequestTimeout
      [] at = "observe" -> CleanupTimeout + RowsTime + KeptTime + RequestTimeout
      [] OTHER -> KeptTime

OnSchedule ==
    Planned /\ at \in Calls =>
        /\ at \notin {"machine", "runner"}
        /\ now <= Latest
        /\ Latest + Rest <= MaintenanceBudget

\* A start that will yet show a stage, or has shown one.
Ahead(s) == start[s] \in {"begun", "working", "telling"}

\* The stage on display lasts as long as the calls it stands for, and all starts
\* show the same deadline.
StageFits ==
    /\ shown \in Int
    /\ Planned /\ at \in Calls =>
           /\ at \notin {"jobs", "retire"} => shown = MaintenanceBudget
           /\ at = "jobs" => until <= shown
           /\ at = "retire" => until + KeptTime <= shown
    /\ at = "starts" =>
           \A s \in Starts :
               /\ Ahead(s) /\ Planned => now <= shown
               /\ start[s] = "working" => shown = ends[s]
               /\ \A t \in Starts : Ahead(s) /\ Ahead(t) => ends[s] = ends[t]

SInv == CountsFit /\ OnSchedule /\ StageFits

LEMMA Products ==
    /\ \A a, b, c \in Nat : a * c \in Nat /\ (a + b) * c = a * c + b * c
    /\ \A a \in Nat : 1 * a = a
    /\ \A a, b, c \in Nat : a <= b => a * c <= b * c
<1>1. \A a, b, c \in Nat : a * c \in Nat /\ (a + b) * c = a * c + b * c
  OBVIOUS
<1>2. ASSUME NEW a \in Nat, NEW b \in Nat, NEW c \in Nat, a <= b PROVE a * c <= b * c
  <2>1. b - a \in Nat /\ (a + (b - a)) = b
    BY <1>2
  <2>2. (b - a) * c \in Nat /\ (a + (b - a)) * c = a * c + (b - a) * c
    BY <2>1, <1>1
  <2>3. b * c = a * c + (b - a) * c /\ a * c \in Nat /\ b * c \in Nat
    BY <2>1, <2>2, <1>1
  <2> QED BY <2>2, <2>3
<1> QED BY <1>1, <1>2

LEMMA Budget ==
    /\ CleanupTimeout \in Nat /\ RequestTimeout \in Nat /\ StartupTimeout \in Nat
    /\ MaintenanceBudget \in Nat
    /\ PassTimeout = StartupTimeout + MaintenanceBudget
<1>1. MaxInstances * CleanupTimeout \in Nat /\ (MaxInstances + 3) * RequestTimeout \in Nat
  BY DeadlinesAssumption, Products
<1> QED BY <1>1, DeadlinesAssumption DEF PassTimeout, MaintenanceBudget

\* A full pool of rows fits into the budget, with the three lists.
LEMMA RowsFit ==
    ASSUME NEW n \in Nat
    PROVE  /\ n * (CleanupTimeout + RequestTimeout) \in Nat
           /\ n * CleanupTimeout \in Nat
           /\ n <= MaxInstances =>
                  n * (CleanupTimeout + RequestTimeout) + 3 * RequestTimeout
                      <= MaintenanceBudget
           /\ n <= MaxInstances => n * CleanupTimeout <= MaintenanceBudget
           /\ n = 0 => n * (CleanupTimeout + RequestTimeout) = 0 /\ n * CleanupTimeout = 0
<1> DEFINE C == CleanupTimeout
           R == RequestTimeout
           M == MaxInstances
<1>1. C \in Nat /\ R \in Nat /\ M \in Nat /\ C + R \in Nat
  BY DeadlinesAssumption
<1>2. n * (C + R) \in Nat /\ n * C \in Nat /\ M * C \in Nat /\ M * R \in Nat
      /\ 0 * (C + R) = 0 /\ 0 * C = 0
  BY <1>1, Products
<1>3. M * (C + R) = M * C + M * R
  BY <1>1
<1>4. (M + 3) * R = M * R + 3 * R
  BY <1>1
<1>5. n <= M => n * (C + R) <= M * (C + R)
  BY <1>1, Products
<1>6. n <= M => n * C <= M * C
  BY <1>1, Products
<1>7. MaintenanceBudget = M * C + (M + 3) * R
  BY DEF MaintenanceBudget
<1> HIDE DEF C, R, M
<1>8. n <= M => n * (C + R) + 3 * R <= MaintenanceBudget
  BY <1>1, <1>2, <1>3, <1>4, <1>5, <1>7
<1>9. n <= M => n * C <= MaintenanceBudget
  BY <1>1, <1>2, <1>4, <1>6, <1>7
<1>10. n = 0 => n * (C + R) = 0 /\ n * C = 0
  BY <1>2
<1> QED BY <1>2, <1>8, <1>9, <1>10 DEF C, R, M

LEMMA TimesFit ==
    ASSUME CountsFit
    PROVE  /\ RowsTime \in Nat /\ KeptTime \in Nat
           /\ kept <= MaxInstances => KeptTime <= MaintenanceBudget
BY RowsFit DEF CountsFit, RowsTime, KeptTime

\* A row less to visit, one more or one less to retire.
LEMMA TimesChange ==
    ASSUME CountsFit, CountsFit'
    PROVE  /\ RowsTime' \in Nat /\ KeptTime' \in Nat
           /\ rows = rows' + 1 => RowsTime = RowsTime' + (CleanupTimeout + RequestTimeout)
           /\ rows' = rows => RowsTime' = RowsTime
           /\ kept' = kept + 1 => KeptTime' = KeptTime + CleanupTimeout
           /\ kept = kept' + 1 => KeptTime = KeptTime' + CleanupTimeout
           /\ kept' = kept => KeptTime' = KeptTime
<1>1. /\ CleanupTimeout \in Nat /\ CleanupTimeout + RequestTimeout \in Nat
      /\ rows \in Nat /\ rows' \in Nat /\ kept \in Nat /\ kept' \in Nat
  BY DeadlinesAssumption DEF CountsFit
<1>2. \A n, c \in Nat : n * c \in Nat /\ (n + 1) * c = n * c + c
  BY Products
<1>3. \A m, n, c \in Nat : m = n + 1 => m * c = n * c + c
  BY <1>2
<1>4. /\ RowsTime = rows * (CleanupTimeout + RequestTimeout)
      /\ RowsTime' = rows' * (CleanupTimeout + RequestTimeout)
      /\ KeptTime = kept * CleanupTimeout
      /\ KeptTime' = kept' * CleanupTimeout
  BY DEF RowsTime, KeptTime
<1>5. RowsTime' \in Nat /\ KeptTime' \in Nat
  BY <1>1, <1>2, <1>4, Zenon
<1>6. rows = rows' + 1 => RowsTime = RowsTime' + (CleanupTimeout + RequestTimeout)
  BY <1>1, <1>3, <1>4, Zenon
<1>7. kept' = kept + 1 => KeptTime' = KeptTime + CleanupTimeout
  BY <1>1, <1>3, <1>4, Zenon
<1>8. kept = kept' + 1 => KeptTime = KeptTime' + CleanupTimeout
  BY <1>1, <1>3, <1>4, Zenon
<1> QED BY <1>4, <1>5, <1>6, <1>7, <1>8, Zenon

-----------------------------------------------------------------------------
(* The schedule is kept.                                                   *)

\* The succeeding call of the pass takes at most its limit from now on.
LEMMA CallTakes ==
    ASSUME NEW limit \in Nat, now \in Nat, until' = Within(limit)
    PROVE  until' \in Int /\ until' <= now + limit
BY PassTimeoutType DEF Within, Least

LEMMA CountsStep ==
    ASSUME CountsFit, CallSucceeds
    PROVE  CountsFit'
BY DeadlinesAssumption
   DEF CountsFit, CallSucceeds, OrphanMachine, MissingMachine, RunnersList, MorePages,
       OrphanRunner, Observe, CleanObserved, CleanAtOnce, Jobs, Retire, Unplanned, Keep,
       RowsStep, Call, Calls, AtHand

LEMMA CallSchedule ==
    ASSUME IInv, SInv, CallSucceeds
    PROVE  OnSchedule'
<1>1. CountsFit /\ CountsFit'
  BY CountsStep DEF SInv
<1>2. /\ now \in Nat /\ now' = now /\ slow' = slow /\ crowded' = crowded
      /\ until \in Int
      /\ at \in Calls => now <= until
      /\ CleanupTimeout \in Nat /\ RequestTimeout \in Nat /\ MaintenanceBudget \in Nat
  BY Budget DEF IInv, ClockTypeOK, CallInTime, CallSucceeds
<1>3. RowsTime \in Nat /\ KeptTime \in Nat
  BY <1>1, TimesFit
<1>4. \A limit \in Nat : until' = Within(limit) => until' \in Int /\ until' <= now + limit
  BY <1>2, CallTakes
<1>5. \E limit \in Nat : until' = Within(limit)
  BY DeadlinesAssumption DEF CallSucceeds, OrphanMachine, MissingMachine,
         RunnersList, MorePages, OrphanRunner, Observe, CleanObserved,
         CleanAtOnce, Jobs, Retire, Call
<1>6. now <= until'
  <2>1. at \in Calls
    BY DEF CallSucceeds, OrphanMachine, MissingMachine, RunnersList, MorePages,
           OrphanRunner, Observe, CleanObserved, CleanAtOnce, Jobs, Retire,
           RowsStep, Calls
  <2>2. now <= PassTimeout
    BY <1>2, <2>1, PassTimeoutType DEF IInv, CallInTime
  <2> QED BY <1>2, <1>5, <2>2, WithinPass
\* What is left after the step.
<1>7. PICK r \in Nat, k \in Nat, v \in Int : r = RowsTime' /\ k = KeptTime' /\ v = until'
  BY <1>1, <1>4, <1>5, TimesChange, Zenon
<1> SUFFICES ASSUME Planned' PROVE OnSchedule'
  BY DEF OnSchedule
<1>8. extra' = 0 /\ ~slow /\ ~crowded /\ extra \in Nat
  BY <1>1, <1>2 DEF Planned, CountsFit
<1>9. extra' = extra => Planned
  BY <1>8 DEF Planned
<1>10. CASE OrphanMachine \/ MorePages \/ OrphanRunner
  BY <1>8, <1>10 DEF OrphanMachine, MorePages, OrphanRunner, Unplanned
<1>11. CASE MissingMachine
  <2>1. /\ Planned /\ at \in Calls /\ at \in {"managed", "missing"} /\ at' = "missing"
        /\ until' <= now + CleanupTimeout
        /\ rows = rows' + 1 /\ kept' = kept
    BY <1>1, <1>2, <1>4, <1>9, <1>11 DEF MissingMachine, Call, SInv, OnSchedule, Calls, CountsFit
  <2>2. RowsTime = r + (CleanupTimeout + RequestTimeout) /\ k = KeptTime
    BY <1>1, <1>7, <2>1, TimesChange, Zenon
  <2>3. v <= now + CleanupTimeout
    BY <1>7, <2>1, Zenon
  <2>4. now <= Latest /\ Latest \in Int
        /\ Latest + (RowsTime + KeptTime + 2 * RequestTimeout) <= MaintenanceBudget
    BY <1>2, <2>1 DEF SInv, OnSchedule, Rest, Latest
  <2>5. v + (r + k + 2 * RequestTimeout) <= MaintenanceBudget
    BY <1>2, <1>3, <2>2, <2>3, <2>4
  <2>6. until' + (RowsTime' + KeptTime' + 2 * RequestTimeout) <= MaintenanceBudget
    BY <1>7, <2>5, Zenon
  <2> QED BY <1>2, <1>6, <2>1, <2>6 DEF OnSchedule, Rest, Latest
<1>12. CASE RunnersList
  <2>1. /\ Planned /\ at \in Calls /\ at \in {"managed", "missing"} /\ at' = "list"
        /\ until' <= now + RequestTimeout
        /\ rows' = rows /\ kept' = kept
    BY <1>1, <1>2, <1>4, <1>9, <1>12 DEF RunnersList, Call, SInv, OnSchedule, Calls, CountsFit
  <2>2. r = RowsTime /\ k = KeptTime
    BY <1>1, <1>7, <2>1, TimesChange, Zenon
  <2>3. v <= now + RequestTimeout
    BY <1>7, <2>1, Zenon
  <2>4. now <= Latest /\ Latest \in Int
        /\ Latest + (RowsTime + KeptTime + 2 * RequestTimeout) <= MaintenanceBudget
    BY <1>2, <2>1 DEF SInv, OnSchedule, Rest, Latest
  <2>5. v + (r + k + RequestTimeout) <= MaintenanceBudget
    BY <1>2, <1>3, <2>2, <2>3, <2>4
  <2>6. until' + (RowsTime' + KeptTime' + RequestTimeout) <= MaintenanceBudget
    BY <1>7, <2>5, Zenon
  <2> QED BY <1>2, <1>6, <2>1, <2>6 DEF OnSchedule, Rest, Latest
<1>13. CASE CleanObserved
  <2>1. /\ Planned /\ at \in Calls /\ at = "observe" /\ at' = "clean"
        /\ until' <= now + CleanupTimeout
        /\ rows' = rows /\ kept' = kept
    BY <1>1, <1>2, <1>4, <1>9, <1>13 DEF CleanObserved, Call, Calls
  <2>2. r = RowsTime /\ k = KeptTime
    BY <1>1, <1>7, <2>1, TimesChange, Zenon
  <2>3. v <= now + CleanupTimeout
    BY <1>7, <2>1, Zenon
  <2>4. now <= until /\ until \in Int
        /\ until + (CleanupTimeout + RowsTime + KeptTime + RequestTimeout) <= MaintenanceBudget
    BY <1>2, <2>1 DEF SInv, OnSchedule, Rest, Latest
  <2>5. v + (r + k + RequestTimeout) <= MaintenanceBudget
    BY <1>2, <1>3, <2>2, <2>3, <2>4
  <2>6. until' + (RowsTime' + KeptTime' + RequestTimeout) <= MaintenanceBudget
    BY <1>7, <2>5, Zenon
  <2> QED BY <1>2, <1>6, <2>1, <2>6 DEF OnSchedule, Rest, Latest
<1>14. CASE Observe \/ CleanAtOnce \/ Jobs
  \* What is left when the row at hand, if there is one, stays.
  <2>1. at \in {"list", "clean", "observe"} /\ Planned
    BY <1>9, <1>14 DEF Observe, CleanAtOnce, Jobs, RowsStep, SInv, OnSchedule, Calls
  <2>2. kept' = IF at = "observe" THEN kept + 1 ELSE kept
    BY <1>1, <1>14 DEF Observe, CleanAtOnce, Jobs, Keep, CountsFit
  <2>3. k = IF at = "observe" THEN KeptTime + CleanupTimeout ELSE KeptTime
    BY <1>1, <1>7, <2>2, TimesChange, Zenon
  <2>4. now <= until /\ until \in Int
    BY <1>2, <2>1 DEF Calls
  <2>5. until + (RowsTime + k + RequestTimeout) <= MaintenanceBudget
    <3>1. CASE at = "observe"
      <4>1. until + (CleanupTimeout + RowsTime + KeptTime + RequestTimeout) <= MaintenanceBudget
        BY <2>1, <3>1 DEF SInv, OnSchedule, Rest, Latest, Calls
      <4>2. k = KeptTime + CleanupTimeout
        BY <2>3, <3>1
      <4> QED BY <1>2, <1>3, <2>4, <4>1, <4>2
    <3>2. CASE at \in {"list", "clean"}
      <4>1. until + (RowsTime + KeptTime + RequestTimeout) <= MaintenanceBudget
        BY <2>1, <3>2 DEF SInv, OnSchedule, Rest, Latest, Calls
      <4>2. k = KeptTime
        BY <2>3, <3>2
      <4> QED BY <4>1, <4>2
    <3> QED BY <2>1, <3>1, <3>2
  <2>6. CASE Observe
    <3>1. at' = "observe" /\ until' <= now + RequestTimeout /\ rows = rows' + 1
      BY <1>1, <1>2, <1>4, <2>6 DEF Observe, Call, CountsFit
    <3>2. RowsTime = r + (CleanupTimeout + RequestTimeout) /\ v <= now + RequestTimeout
      BY <1>1, <1>7, <3>1, TimesChange, Zenon
    <3>3. v + (CleanupTimeout + r + k + RequestTimeout) <= MaintenanceBudget
      BY <1>2, <2>4, <2>5, <3>2
    <3>4. until' + (CleanupTimeout + RowsTime' + KeptTime' + RequestTimeout) <= MaintenanceBudget
      BY <1>7, <3>3, Zenon
    <3> QED BY <1>2, <1>6, <3>1, <3>4 DEF OnSchedule, Rest, Latest
  <2>7. CASE CleanAtOnce
    <3>1. at' = "clean" /\ until' <= now + CleanupTimeout /\ rows = rows' + 1
      BY <1>1, <1>2, <1>4, <2>7 DEF CleanAtOnce, Call, CountsFit
    <3>2. RowsTime = r + (CleanupTimeout + RequestTimeout) /\ v <= now + CleanupTimeout
      BY <1>1, <1>7, <3>1, TimesChange, Zenon
    <3>3. v + (r + k + RequestTimeout) <= MaintenanceBudget
      BY <1>2, <2>4, <2>5, <3>2
    <3>4. until' + (RowsTime' + KeptTime' + RequestTimeout) <= MaintenanceBudget
      BY <1>7, <3>3, Zenon
    <3> QED BY <1>2, <1>6, <3>1, <3>4 DEF OnSchedule, Rest, Latest
  <2>8. CASE Jobs
    <3>1. at' = "jobs" /\ until' <= now + RequestTimeout
      BY <1>1, <1>2, <1>4, <2>8 DEF Jobs, Call
    <3>2. v <= now + RequestTimeout
      BY <1>7, <3>1, Zenon
    <3>3. v + k <= MaintenanceBudget
      BY <1>2, <1>3, <2>4, <2>5, <3>2
    <3>4. until' + KeptTime' <= MaintenanceBudget
      BY <1>7, <3>3, Zenon
    <3> QED BY <1>2, <1>6, <3>1, <3>4 DEF OnSchedule, Rest, Latest
  <2> QED BY <1>14, <2>6, <2>7, <2>8
<1>15. CASE Retire
  <2>1. /\ Planned /\ at \in Calls /\ at \in {"jobs", "retire"} /\ at' = "retire"
        /\ until' <= now + CleanupTimeout
        /\ kept = kept' + 1
    BY <1>1, <1>2, <1>4, <1>9, <1>15 DEF Retire, Call, Calls, CountsFit
  <2>2. KeptTime = k + CleanupTimeout /\ v <= now + CleanupTimeout
    BY <1>1, <1>7, <2>1, TimesChange, Zenon
  <2>3. now <= until /\ until \in Int /\ until + KeptTime <= MaintenanceBudget
    BY <1>2, <2>1 DEF SInv, OnSchedule, Rest, Latest
  <2>4. v + k <= MaintenanceBudget
    BY <1>2, <2>2, <2>3
  <2>5. until' + KeptTime' <= MaintenanceBudget
    BY <1>7, <2>4, Zenon
  <2> QED BY <1>2, <1>6, <2>1, <2>5 DEF OnSchedule, Rest, Latest
<1> QED BY <1>10, <1>11, <1>12, <1>13, <1>14, <1>15 DEF CallSucceeds

\* What a call takes is displayed before it is made.
LEMMA CallDisplays ==
    ASSUME IInv, SInv, CallSucceeds
    PROVE  StageFits'
<1>1. CountsFit /\ CountsFit'
  BY CountsStep DEF SInv
<1>2. /\ now \in Nat /\ now' = now /\ slow' = slow /\ slow \in BOOLEAN
      /\ crowded' = crowded
      /\ until \in Int /\ shown \in Int
      /\ at \in Calls => now <= until
      /\ CleanupTimeout \in Nat /\ RequestTimeout \in Nat /\ MaintenanceBudget \in Nat
  BY <1>1, Budget DEF IInv, SInv, StageFits, CountsFit, ClockTypeOK, CallInTime, CallSucceeds
<1>3. \A limit \in Nat : until' = Within(limit) => until' \in Int /\ until' <= now + limit
  BY <1>2, CallTakes
<1>4. at \in Calls /\ at' \in Calls \ {"managed"}
  BY DEF CallSucceeds, OrphanMachine, MissingMachine, RunnersList, MorePages,
         OrphanRunner, Observe, CleanObserved, CleanAtOnce, Jobs, Retire,
         RowsStep, Call, Calls
<1>5. StageOfCall
  BY DEF CallSucceeds
<1>6. at' # "starts"
  BY <1>4 DEF Calls
<1>7. Planned' => Planned
  BY <1>1, <1>2 DEF Planned, CountsFit, CallSucceeds, OrphanMachine, MissingMachine,
     RunnersList, MorePages, OrphanRunner, Observe, CleanObserved, CleanAtOnce, Jobs,
     Retire, Unplanned
<1>8. CASE at \notin {"jobs", "retire"} /\ at' # "jobs"
  <2>1. at' # "retire"
    BY <1>8 DEF CallSucceeds, OrphanMachine, MissingMachine, RunnersList, MorePages,
           OrphanRunner, Observe, CleanObserved, CleanAtOnce, Jobs, Retire, Call
  <2>2. shown' = shown
    BY <1>5, <1>8 DEF StageOfCall, displayVars
  <2>3. Planned => shown = MaintenanceBudget
    BY <1>4, <1>8 DEF SInv, StageFits
  <2> QED BY <1>2, <1>6, <1>7, <1>8, <2>1, <2>2, <2>3 DEF StageFits
<1>9. CASE at' = "jobs"
  <2>1. until' = Within(RequestTimeout)
    BY <1>9 DEF CallSucceeds, OrphanMachine, MissingMachine, RunnersList, MorePages,
           OrphanRunner, Observe, CleanObserved, CleanAtOnce, Jobs, Retire, Call
  <2>2. until' <= now + RequestTimeout
    BY <1>2, <1>3, <2>1
  <2>3. shown' = now + RequestTimeout
    BY <1>5, <1>9 DEF StageOfCall, Display
  <2>4. shown' \in Int
    BY <1>2, <2>3
  <2>5. until' <= shown'
    BY <2>2, <2>3, Zenon
  <2> QED BY <1>9, <2>4, <2>5 DEF StageFits
<1>10. CASE at \in {"jobs", "retire"}
  <2>1. at' = "retire" /\ until' = Within(CleanupTimeout) /\ kept = kept' + 1
    <3>1. Retire
      BY <1>10 DEF CallSucceeds, OrphanMachine, MissingMachine, RunnersList,
         MorePages, OrphanRunner, Observe, CleanObserved, CleanAtOnce, Jobs, RowsStep
    <3> QED BY <1>1, <3>1 DEF Retire, Call, CountsFit
  <2>2. PICK k \in Nat, v \in Int : k = KeptTime' /\ v = until'
    BY <1>1, <1>2, <1>3, <2>1, TimesChange, Zenon
  <2>3. KeptTime \in Nat /\ KeptTime = k + CleanupTimeout
    BY <1>1, <2>1, <2>2, TimesChange, TimesFit, Zenon
  <2>4. v <= now + CleanupTimeout
    BY <1>2, <1>3, <2>1, <2>2, Zenon
  <2>5. CASE at = "jobs"
    <3>1. shown' = now + MaintenanceBudget
      BY <1>5, <2>1, <2>5 DEF StageOfCall, Display
    <3>2. kept \in Nat /\ rows \in Nat /\ AtHand = 0 /\ MaxInstances \in Nat
          /\ (~crowded => rows + kept + AtHand <= MaxInstances)
      BY <1>1, <1>4, <2>5, DeadlinesAssumption DEF CountsFit, AtHand
    <3>3. ~crowded => kept <= MaxInstances
      BY <3>2
    <3>4. ~crowded => KeptTime <= MaintenanceBudget
      BY <1>1, <3>3, TimesFit
    <3>5. ~crowded => v + k <= now + MaintenanceBudget
      BY <1>2, <2>3, <2>4, <3>4
    <3>6. shown' \in Int
      BY <1>2, <3>1
    <3>7. Planned' => until' + KeptTime' <= shown'
      BY <1>2, <2>2, <3>1, <3>5, Zenon DEF Planned
    <3> QED BY <2>1, <3>6, <3>7 DEF StageFits
  <2>6. CASE at = "retire"
    <3>1. shown' = shown
      BY <1>5, <2>1, <2>6 DEF StageOfCall, displayVars
    <3>2. Planned => until + KeptTime <= shown
      BY <1>4, <2>6 DEF SInv, StageFits
    <3>3. now <= until
      BY <1>2, <1>4
    <3>4. Planned => v + k <= shown
      BY <1>2, <2>3, <2>4, <3>2, <3>3
    <3>5. Planned' => until' + KeptTime' <= shown'
      BY <1>7, <2>2, <3>1, <3>4, Zenon
    <3> QED BY <1>2, <2>1, <3>1, <3>5 DEF StageFits
  <2> QED BY <1>10, <2>5, <2>6
<1> QED BY <1>8, <1>9, <1>10

-----------------------------------------------------------------------------
(* The other steps keep the schedule.                                      *)

LEMMA InitSchedule == DeadlinesInit => SInv
<1> SUFFICES ASSUME DeadlinesInit PROVE SInv
  OBVIOUS
<1>1. at \notin Calls \union {"starts"} /\ shown \in Int
  BY DEF DeadlinesInit, Calls, Never
<1>2. rows \in Nat /\ kept \in Nat /\ extra \in Nat
  BY DEF DeadlinesInit
<1>3. slow \in BOOLEAN
  BY Zenon DEF DeadlinesInit
<1>4. CountsFit
  BY <1>1, <1>2, <1>3 DEF CountsFit, Calls
<1> QED BY <1>1, <1>4 DEF SInv, OnSchedule, StageFits, Calls

\* A pass that has everything before it.
LEMMA BeginSchedule == SInv /\ Begin => SInv'
<1> SUFFICES ASSUME SInv, Begin PROVE SInv'
  OBVIOUS
<1>1. /\ at' = "managed" /\ now' = 0 /\ rows' \in Nat /\ MaxInstances \in Nat
      /\ kept' = 0 /\ extra' = 0 /\ shown' = MaintenanceBudget
  BY DeadlinesAssumption DEF Begin, Call, Display
<1>2. slow' \in BOOLEAN /\ (~crowded' => ~(rows' > MaxInstances))
  BY Zenon DEF Begin
<1>3. ~crowded' => rows' <= MaxInstances
  BY <1>1, <1>2
<1>4. CountsFit'
  <2>1. AtHand' = 0 /\ at' \notin {"jobs", "retire"}
    BY <1>1 DEF AtHand
  <2>2. ~crowded' => rows' + kept' + AtHand' <= MaxInstances
    <3>1. \A r, k, h \in Nat : k = 0 /\ h = 0 => r + k + h = r
      OBVIOUS
    <3>2. rows' \in Nat /\ kept' \in Nat /\ AtHand' \in Nat
      BY <1>1, <2>1
    <3>3. rows' + kept' + AtHand' = rows'
      BY <1>1, <2>1, <3>1, <3>2, Zenon
    <3> QED BY <1>3, <3>3, Zenon
  <2>3. rows' \in Nat /\ kept' \in Nat /\ extra' \in Nat
    BY <1>1
  <2> QED BY <1>2, <2>1, <2>2, <2>3, Zenon DEF CountsFit
<1>5. PICK r \in Nat, k \in Nat : r = RowsTime' /\ k = KeptTime'
  BY <1>1, RowsFit DEF RowsTime, KeptTime
<1>6. ~crowded' => r + 3 * RequestTimeout <= MaintenanceBudget
  BY <1>1, <1>3, <1>5, RowsFit DEF RowsTime
<1>7. k = 0
  BY <1>1, <1>5, RowsFit DEF KeptTime
<1>8. ~crowded' => RequestTimeout + (r + k + 2 * RequestTimeout) <= MaintenanceBudget
  BY <1>6, <1>7, Budget
<1>9. ~crowded' =>
          RequestTimeout + (RowsTime' + KeptTime' + 2 * RequestTimeout) <= MaintenanceBudget
  BY <1>5, <1>8, Zenon
<1>10. 0 <= RequestTimeout
  BY Budget
<1>11. OnSchedule'
  BY <1>1, <1>9, <1>10 DEF OnSchedule, Latest, Rest, Planned
<1>12. StageFits'
  BY <1>1, Budget DEF StageFits
<1> QED BY <1>4, <1>11, <1>12 DEF SInv

LEMMA EndSchedule == SInv /\ EndPass => SInv'
<1> SUFFICES ASSUME SInv, EndPass PROVE SInv'
  OBVIOUS
<1> QED BY DEF SInv, EndPass, CountsFit, OnSchedule, StageFits, Calls, Never

\* The schedule holds up to the end of the call at hand: so the stage on
\* display does too, and when it is the turn of the starts, nothing of the
\* budget for maintenance is missing.
LEMMA StageHolds ==
    ASSUME IInv, SInv, Planned, at \in Calls
    PROVE  /\ now <= shown
           /\ at \in {"jobs", "retire"} => now <= MaintenanceBudget
<1>1. now \in Nat /\ until \in Int /\ shown \in Int /\ MaintenanceBudget \in Nat
      /\ RequestTimeout \in Nat /\ CleanupTimeout \in Nat
  BY Budget DEF IInv, ClockTypeOK, SInv, StageFits
<1>2. RowsTime \in Nat /\ KeptTime \in Nat
  BY TimesFit DEF SInv
<1>3. at \notin {"machine", "runner"} /\ now <= Latest /\ Latest + Rest <= MaintenanceBudget
  BY DEF SInv, OnSchedule
<1>4. Rest \in Nat
  BY <1>1, <1>2 DEF Rest
<1>5. Latest \in Int
  BY <1>1 DEF Latest
<1>6. now <= MaintenanceBudget
  BY <1>1, <1>3, <1>4, <1>5
<1>7. CASE at \notin {"jobs", "retire"}
  <2>1. shown = MaintenanceBudget
    BY <1>7 DEF SInv, StageFits
  <2> QED BY <1>6, <1>7, <2>1
<1>8. CASE at = "jobs"
  <2>1. now <= until /\ until <= shown
    BY <1>3, <1>8 DEF Latest, SInv, StageFits
  <2> QED BY <1>1, <1>6, <2>1
<1>9. CASE at = "retire"
  <2>1. now <= until /\ until + KeptTime <= shown
    BY <1>3, <1>9 DEF Latest, SInv, StageFits
  <2> QED BY <1>1, <1>2, <1>6, <2>1
<1> QED BY <1>7, <1>8, <1>9

LEMMA LaunchSchedule == IInv /\ SInv /\ Launch => SInv'
<1> SUFFICES ASSUME IInv, SInv, Launch PROVE SInv'
  OBVIOUS
<1>1. /\ at \in {"jobs", "retire"} /\ at \in Calls /\ at' = "starts"
      /\ now' = now /\ rows' = rows /\ kept' = kept /\ extra' = extra /\ slow' = slow
      /\ crowded' = crowded
  BY DEF Launch, Call, Calls
<1>2. now \in Nat /\ shown \in Int /\ MaintenanceBudget \in Nat
  BY Budget DEF IInv, ClockTypeOK, SInv, StageFits
<1>3. CountsFit' /\ OnSchedule'
  BY <1>1 DEF SInv, CountsFit, OnSchedule, Calls
<1>4. Planned' => Planned
  BY <1>1 DEF Planned
<1>5. shown' = shown \/ shown' = now + MaintenanceBudget
  BY DEF Launch, Display, displayVars
<1>6. shown' \in Int
  BY <1>2, <1>5
<1>7. Planned' => now' <= shown'
  <2>1. Planned => now <= shown
    BY <1>1, StageHolds
  <2>2. now <= now + MaintenanceBudget
    BY <1>2
  <2> QED BY <1>1, <1>4, <1>5, <2>1, <2>2
<1>8. \A s \in Starts : /\ start'[s] \in {"begun", "none"}
                        /\ ends'[s] = Within(StartupTimeout)
  BY DEF Launch
<1>9. StageFits'
  BY <1>1, <1>6, <1>7, <1>8 DEF StageFits, Ahead, Calls
<1> QED BY <1>3, <1>9 DEF SInv

\* What the starts do changes only what they show.
LEMMA StartSchedule ==
    ASSUME IInv, SInv, NEW s \in Starts,
           Record(s) \/ Show(s) \/ Succeed(s) \/ GiveUp(s) \/ ClearUp(s)
             \/ Undo(s) \/ Undone(s)
    PROVE  SInv'
<1>1. start \in [Starts -> StartStates] /\ ends \in [Starts -> Int] /\ now \in Nat
  BY DEF IInv, ClockTypeOK
<1>2. PICK from \in SUBSET StartStates, to \in StartStates :
          StartStep(s, from, to) /\ from \intersect {"none", "done", "failed"} = {}
  BY DEF Record, Show, Succeed, GiveUp, ClearUp, Undo, Undone, StartStates
<1>3. /\ at = "starts" /\ at' = at
      /\ now' = now /\ rows' = rows /\ kept' = kept /\ extra' = extra /\ slow' = slow
      /\ crowded' = crowded
      /\ \A t \in Starts \ {s} : start'[t] = start[t]
      /\ start'[s] = to
  BY <1>1, <1>2 DEF StartStep, passVars, IInv, Collected
<1>4. CountsFit' /\ OnSchedule'
  BY <1>3 DEF SInv, CountsFit, OnSchedule, Calls
<1>5. Planned' => Planned
  BY <1>3 DEF Planned
<1>6. /\ shown \in Int
      /\ \A t \in Starts : Ahead(t) /\ Planned => now <= shown
      /\ \A t \in Starts : start[t] = "working" => shown = ends[t]
      /\ \A t, w \in Starts : Ahead(t) /\ Ahead(w) => ends[t] = ends[w]
  BY <1>3 DEF SInv, StageFits
<1>7. CASE Record(s)
  <2>1. shown' = shown /\ ends' = ends /\ Ahead(s) /\ start'[s] = "telling"
    BY <1>1, <1>7 DEF Record, StartStep, Ahead
  <2>2. \A t \in Starts : Ahead(t)' => Ahead(t)
    BY <1>3, <2>1 DEF Ahead
  <2> QED BY <1>3, <1>4, <1>5, <1>6, <2>1, <2>2 DEF SInv, StageFits, Calls
<1>8. CASE Show(s)
  <2>1. shown' = ends[s] /\ ends' = ends /\ start[s] = "telling"
    BY <1>1, <1>8 DEF Show, StartStep
  <2>2. \A t \in Starts : Ahead(t)' => Ahead(t)
    BY <1>3, <2>1 DEF Ahead
  <2>3. shown' \in Int /\ now' <= shown'
    BY <1>1, <1>3, <2>1 DEF IInv, StartInTime, AtWork
  <2>4. \A t \in Starts : Ahead(t)' => ends'[t] = shown'
    BY <1>6, <2>1, <2>2 DEF Ahead
  <2>5. \A t \in Starts : start'[t] = "working" => Ahead(t)'
    BY DEF Ahead
  <2>6. at' \notin Calls
    BY <1>3 DEF Calls
  <2>7. StageFits'
    BY <2>3, <2>4, <2>5, <2>6 DEF StageFits
  <2> QED BY <1>4, <2>7 DEF SInv
<1>9. CASE Succeed(s) \/ GiveUp(s) \/ ClearUp(s) \/ Undo(s) \/ Undone(s)
  <2>1. shown' = shown /\ ~Ahead(s)' /\ \A t \in Starts \ {s} : ends'[t] = ends[t]
    BY <1>1, <1>9 DEF Succeed, GiveUp, ClearUp, Undo, Undone, StartStep, Ahead, displayVars
  <2>2. \A t \in Starts : Ahead(t)' => t # s /\ Ahead(t) /\ ends'[t] = ends[t]
    BY <1>3, <2>1 DEF Ahead
  <2>3. \A t \in Starts : start'[t] = "working" => Ahead(t)' /\ start[t] = "working"
    BY <1>3, <2>2 DEF Ahead
  <2>4. at' \notin Calls
    BY <1>3 DEF Calls
  <2>5. StageFits'
    BY <1>3, <1>5, <1>6, <2>1, <2>2, <2>3, <2>4 DEF StageFits
  <2> QED BY <1>4, <2>5 DEF SInv
<1> QED BY <1>7, <1>8, <1>9

LEMMA TickSchedule == IInv /\ SInv /\ Tick => SInv'
<1> SUFFICES ASSUME IInv, SInv, Tick PROVE SInv'
  OBVIOUS
<1>1. /\ now \in Nat /\ now' = now + 1 /\ at' = at /\ until' = until
      /\ rows' = rows /\ kept' = kept /\ extra' = extra /\ shown' = shown
      /\ crowded' = crowded /\ start' = start /\ ends' = ends
      /\ slow' = (slow \/ (at = "managed" /\ now' > RequestTimeout))
      /\ until \in Int /\ ends \in [Starts -> Int] /\ RequestTimeout \in Nat
  BY Budget DEF Tick, IInv, ClockTypeOK, startVars, displayVars
<1>2. CountsFit'
  BY <1>1 DEF SInv, CountsFit, AtHand
<1>3. Planned' => Planned
  BY <1>1 DEF Planned
<1>4. OnSchedule'
  <2>1. Latest' = Latest /\ Rest' = Rest
    BY <1>1 DEF Latest, Rest, RowsTime, KeptTime
  <2>2. ASSUME Planned', at \in Calls PROVE now + 1 <= Latest
    <3>1. at = "managed" => now + 1 <= RequestTimeout
      <4>1. ~(at = "managed" /\ now' > RequestTimeout)
        BY <1>1, <2>2, Zenon DEF Planned
      <4> QED BY <1>1, <4>1
    <3>2. at # "managed" => now + 1 <= until
      BY <1>1, <2>2 DEF Tick, Calls
    <3> QED BY <3>1, <3>2 DEF Latest
  <2> QED BY <1>1, <1>3, <2>1, <2>2 DEF SInv, OnSchedule
<1>5. ASSUME NEW s \in Starts, at = "starts", Ahead(s), Planned' PROVE now + 1 <= shown
  <2>1. start[s] = "working" /\ now < ends[s] /\ ends[s] \in Int
    BY <1>1, <1>5 DEF Tick, Ahead, InState, Waits, Calls
  <2>2. shown = ends[s]
    BY <1>5, <2>1 DEF SInv, StageFits
  <2> QED BY <1>1, <2>1, <2>2
<1>6. StageFits'
  <2>1. KeptTime' = KeptTime /\ \A s \in Starts : Ahead(s)' <=> Ahead(s)
    BY <1>1 DEF KeptTime, Ahead
  <2> QED BY <1>1, <1>3, <1>5, <2>1 DEF SInv, StageFits
<1> QED BY <1>2, <1>4, <1>6 DEF SInv

LEMMA StepSchedule == IInv /\ SInv /\ [DeadlinesNext]_deadlineVars => SInv'
<1> SUFFICES ASSUME IInv, SInv, [DeadlinesNext]_deadlineVars PROVE SInv'
  OBVIOUS
<1>1. CASE Begin
  BY <1>1, BeginSchedule
<1>2. CASE CallSucceeds
  BY <1>2, CallSchedule, CallDisplays, CountsStep DEF SInv
<1>3. CASE CallFails \/ NoStarts \/ Collect
  BY <1>3, EndSchedule DEF CallFails, NoStarts, Collect
<1>4. CASE Launch
  BY <1>4, LaunchSchedule
<1>5. CASE Tick
  BY <1>5, TickSchedule
<1>6. CASE \E s \in Starts :
              \/ Record(s) \/ Show(s) \/ Succeed(s) \/ GiveUp(s)
              \/ ClearUp(s) \/ Undo(s) \/ Undone(s)
  BY <1>6, StartSchedule
<1>7. CASE Stop \/ BeginFails \/ UNCHANGED deadlineVars
  <2>1. UNCHANGED <<now, at, until, rows, kept, extra, slow, crowded, start, ends, shown>>
    BY <1>7 DEF Stop, BeginFails, deadlineVars, passVars, startVars, displayVars
  <2> QED BY <2>1 DEF SInv, CountsFit, OnSchedule, StageFits, Planned, Latest, Rest,
         RowsTime, KeptTime, AtHand, Ahead
<1> QED BY <1>1, <1>2, <1>3, <1>4, <1>5, <1>6, <1>7 DEF DeadlinesNext

\* However many rows the pool has and however long its timeouts are, a pass that
\* meets nothing it did not budget for leaves every start its whole
\* startup_timeout: the requests MaintenanceBudget counts are all there are.
THEOREM StartsHaveTheirTime == DeadlinesSpec => StartsUncut
<1>1. ASSUME IInv, SInv, Launch, Planned, NEW s \in Starts
      PROVE  ends'[s] = now + StartupTimeout
  <2>1. at \in {"jobs", "retire"} /\ at \in Calls /\ ends'[s] = Within(StartupTimeout)
    BY <1>1 DEF Launch, Calls
  <2>2. now <= MaintenanceBudget /\ now \in Nat
    BY <1>1, <2>1, StageHolds DEF IInv, ClockTypeOK
  <2>3. now + StartupTimeout <= PassTimeout
    BY <2>2, Budget
  <2> QED BY <2>1, <2>3 DEF Within, Least
<1>2. IInv /\ SInv => (\A s \in Starts : Launch /\ Planned => ends'[s] = now + StartupTimeout)
  BY <1>1
<1> QED BY <1>2, InitInv, StepInv, InitSchedule, StepSchedule, PTL
     DEF DeadlinesSpec, StartsUncut

\* The deadline on display is passed only by a pass that met what it did not
\* budget for, or whose starts have nothing left but to undo or clean up.
THEOREM LateStagesUndo == DeadlinesSpec => []LateStageIsUndoing
<1>1. IInv /\ SInv => LateStageIsUndoing
  <2> SUFFICES ASSUME IInv, SInv, Planned, shown # Never, now > shown
               PROVE  at = "starts" /\ InState({"begun", "working", "telling"}) = {}
    BY DEF LateStageIsUndoing
  <2>1. now \in Nat /\ shown \in Int /\ at \in Calls \union {"starts", "asleep"}
    BY DEF IInv, ClockTypeOK, SInv, StageFits
  <2>2. at \notin Calls
    BY <2>1, StageHolds
  <2>3. at # "asleep"
    BY DEF IInv, NoStageAfterPass, Asleep
  <2>4. at = "starts"
    BY <2>1, <2>2, <2>3
  <2>5. \A s \in Starts : ~Ahead(s)
    BY <2>1, <2>4 DEF SInv, StageFits
  <2> QED BY <2>4, <2>5 DEF InState, Ahead
<1> QED BY <1>1, InitInv, StepInv, InitSchedule, StepSchedule, PTL DEF DeadlinesSpec
=============================================================================
