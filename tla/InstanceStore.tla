--------------------------- MODULE InstanceStore ---------------------------
(***************************************************************************)
(* The instances table of internal/store and the writes it accepts.  Each  *)
(* column is a function of the instance ID.  A write is one transaction    *)
(* (mutate): it reads the row, refuses what the row's state does not       *)
(* allow, and otherwise commits the new row with its event.                *)
(*                                                                         *)
(* Times are abstracted to what the controller compares them with: retry   *)
(* says whether retry_at is set, and whether it is still ahead; aged says  *)
(* that the row has kept its state longer than the limit the pool sets for *)
(* it (idle_timeout for a ready row, max_lifetime for a running one).      *)
(***************************************************************************)
EXTENDS Lifecycle

VARIABLES
    state,          \* state column, "absent" before the row is inserted
    registered,     \* runner_id # 0
    reason,         \* reason column; it determines the result column
    retry,          \* retry_at: "none", "ahead" or "due"
    aged            \* now - state_changed_at has reached the state's limit

rowVars == <<state, registered, reason, retry, aged>>

StoreTypeOK ==
    /\ state \in [Ids -> States \union {Absent}]
    /\ registered \in [Ids -> BOOLEAN]
    /\ reason \in [Ids -> Reasons \union {NoReason}]
    /\ retry \in [Ids -> {"none", "ahead", "due"}]
    /\ aged \in [Ids -> BOOLEAN]

StoreInit ==
    /\ state = [i \in Ids |-> Absent]
    /\ registered = [i \in Ids |-> FALSE]
    /\ reason = [i \in Ids |-> NoReason]
    /\ retry = [i \in Ids |-> "none"]
    /\ aged = [i \in Ids |-> FALSE]

\* The rows ListPool returns: everything of the pool that is not finished.
Live == {i \in Ids : state[i] \notin {Absent, "finished"}}

InState(s) == {i \in Live : state[i] = s}

\* What a listing keeps of a row in the controller's memory; rows it does not
\* return are Unlisted.
Row(i) == [state |-> state[i], registered |-> registered[i]]

Unlisted == [state |-> Absent, registered |-> FALSE]

Listing == [i \in Ids |-> IF i \in Live THEN Row(i) ELSE Unlisted]

-----------------------------------------------------------------------------
(* The writes.  Accepts... says whether the transaction is refused.        *)

AcceptsState(i, s) == CanTransition(state[i], s)

AcceptsStage(i) == state[i] \in {"bootstrapping", "cleaning"}

\* state_changed_at moves only when the state does.
WriteState(i, s) ==
    /\ state' = [state EXCEPT ![i] = s]
    /\ aged' = IF state[i] = s THEN aged ELSE [aged EXCEPT ![i] = FALSE]

Create(i) ==
    /\ WriteState(i, "bootstrapping")
    /\ UNCHANGED <<registered, reason, retry>>

SetRegistration(i) ==
    /\ registered' = [registered EXCEPT ![i] = TRUE]
    /\ retry' = [retry EXCEPT ![i] = "none"]
    /\ UNCHANGED <<state, reason, aged>>

\* MarkReady and MarkRunning.
SetOperationalState(i, s) ==
    /\ AcceptsState(i, s)
    /\ WriteState(i, s)
    /\ retry' = [retry EXCEPT ![i] = "none"]
    /\ UNCHANGED <<registered, reason>>

\* Result and reason are written once: a later cleanup keeps the first.
BeginCleanup(i, why) ==
    /\ AcceptsState(i, "cleaning")
    /\ WriteState(i, "cleaning")
    /\ reason' = [reason EXCEPT ![i] = IF @ = NoReason THEN why ELSE @]
    /\ UNCHANGED <<registered, retry>>

FinishCleanup(i) ==
    /\ AcceptsState(i, "finished")
    /\ WriteState(i, "finished")
    /\ retry' = [retry EXCEPT ![i] = "none"]
    /\ UNCHANGED <<registered, reason>>

\* Retry has no condition on the state of the row.
Retry(i) ==
    /\ retry' = [retry EXCEPT ![i] = "ahead"]
    /\ UNCHANGED <<state, registered, reason, aged>>

-----------------------------------------------------------------------------
(* Time passing, as the controller sees it when it next compares.          *)

RetryDue(i) ==
    /\ retry[i] = "ahead"
    /\ retry' = [retry EXCEPT ![i] = "due"]
    /\ UNCHANGED <<state, registered, reason, aged>>

Age(i) ==
    /\ state[i] \in {"ready", "running"}
    /\ ~aged[i]
    /\ aged' = [aged EXCEPT ![i] = TRUE]
    /\ UNCHANGED <<state, registered, reason, retry>>
=============================================================================
