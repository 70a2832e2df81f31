----------------------------- MODULE Lifecycle -----------------------------
(***************************************************************************)
(* The vocabulary of internal/instance: the states of an instance row, why *)
(* a row was retired, and the transition table every store write obeys.    *)
(***************************************************************************)

CONSTANT Ids        \* the random instance IDs the controller may draw

\* A row that was never inserted is "absent"; the code has no such state.
Absent == "absent"

States == {"bootstrapping", "ready", "running", "cleaning", "finished"}

NoReason == "none"

\* Reasons the code records with result "succeeded" and with result "failed".
SuccessReasons == {"job_completed", "idle_timeout", "max_lifetime"}

FailureReasons == {"bootstrap_failed", "runner_offline", "instance_missing",
                   "controller_recovery"}

Reasons == SuccessReasons \union FailureReasons

\* CanTransition: a state may be written over itself, finished is terminal.
CanTransition(from, to) ==
    \/ from = to
    \/ from = "bootstrapping" /\ to \in {"ready", "running", "cleaning"}
    \/ from = "ready" /\ to \in {"running", "cleaning"}
    \/ from = "running" /\ to = "cleaning"
    \/ from = "cleaning" /\ to = "finished"
=============================================================================
