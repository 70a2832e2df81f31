---------------------------- MODULE PoolRuntime ----------------------------
(***************************************************************************)
(* The tables pool_runtime and pool_incidents of internal/store: what is   *)
(* on record about the passes of each pool.  A failed pass opens an        *)
(* incident, or counts once more for the open one of the same stage and    *)
(* code; a pass that succeeds resolves it.  Every write is a transaction.  *)
(***************************************************************************)
EXTENDS PoolSet, Naturals, Sequences, FiniteSets

CONSTANT
    Failures        \* stage and code of what can go wrong in a pass

VARIABLES
    run,            \* reconcile_state, "none" before the first pass
    own,            \* run_id was drawn by the process that runs now
    staged,         \* current_stage # ''
    link,           \* active_incident_id, 0 for NULL
    incidents       \* pool_incidents, by id

runtimeVars == <<run, own, staged, link, incidents>>

\* A pass cut short by its context, and one found unfinished at startup.
Causes == Failures \union {"canceled", "interrupted"}

RuntimeTypeOK ==
    /\ run \in [Pools -> {"none", "running", "succeeded", "failed"}]
    /\ own \in [Pools -> BOOLEAN]
    /\ staged \in [Pools -> BOOLEAN]
    /\ incidents \in Seq([pool : Pools, cause : Causes, open : BOOLEAN])
    /\ link \in [Pools -> 0 .. Len(incidents)]

RuntimeInit ==
    /\ run = [p \in Pools |-> "none"]
    /\ own = [p \in Pools |-> FALSE]
    /\ staged = [p \in Pools |-> FALSE]
    /\ link = [p \in Pools |-> 0]
    /\ incidents = <<>>

\* Incidents of the pool with resolved_at NULL; an index keeps them unique.
OpenIncidents(p) ==
    {k \in DOMAIN incidents : incidents[k].pool = p /\ incidents[k].open}

StartPool(p) ==
    /\ run' = [run EXCEPT ![p] = "running"]
    /\ own' = [own EXCEPT ![p] = TRUE]
    /\ UNCHANGED <<staged, link, incidents>>

ProgressPool(p) ==
    /\ staged' = [staged EXCEPT ![p] = TRUE]
    /\ UNCHANGED <<run, own, link, incidents>>

\* The incidents once those of the pool are resolved.
Resolved(p) ==
    [k \in DOMAIN incidents |->
        IF k \in OpenIncidents(p) THEN [incidents[k] EXCEPT !.open = FALSE]
        ELSE incidents[k]]

\* A slip: an open incident of another cause is left as it is.
RecordIncidentBeside(p, cause) ==
    /\ incidents' = Append(incidents, [pool |-> p, cause |-> cause, open |-> TRUE])
    /\ link' = [link EXCEPT ![p] = Len(incidents')]

RecordIncident(p, cause) ==
    \/ \E k \in OpenIncidents(p) :
           /\ incidents[k].cause = cause
           /\ link' = [link EXCEPT ![p] = k]
           /\ UNCHANGED incidents
    \/ /\ \A k \in OpenIncidents(p) : incidents[k].cause # cause
       /\ incidents' =
              Append(Resolved(p), [pool |-> p, cause |-> cause, open |-> TRUE])
       /\ link' = [link EXCEPT ![p] = Len(incidents')]

\* A slip: a pass that succeeds leaves the incident for later.
FinishSucceededOnly(p) ==
    /\ run' = [run EXCEPT ![p] = "succeeded"]
    /\ staged' = [staged EXCEPT ![p] = FALSE]
    /\ UNCHANGED <<own, link, incidents>>

FinishSucceeded(p) ==
    /\ incidents' = Resolved(p)
    /\ link' = [link EXCEPT ![p] = 0]
    /\ run' = [run EXCEPT ![p] = "succeeded"]
    /\ staged' = [staged EXCEPT ![p] = FALSE]
    /\ UNCHANGED own

FinishFailed(p, cause) ==
    /\ RecordIncident(p, cause)
    /\ run' = [run EXCEPT ![p] = "failed"]
    /\ staged' = [staged EXCEPT ![p] = FALSE]
    /\ UNCHANGED own
=============================================================================
