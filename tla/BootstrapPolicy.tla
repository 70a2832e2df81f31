-------------------------- MODULE BootstrapPolicy --------------------------
(***************************************************************************)
(* What docs/explanation/pools.md and docs/reference/configuration.md      *)
(* promise about starting virtual machines, with nothing of how the        *)
(* circuit keeps its columns.  A pool may start as many machines as its    *)
(* allowance; a start consumes it when it is granted, not when it fails;   *)
(* once it is used up only an elapsed retry interval gives one more; a     *)
(* start that succeeds restores it.  A crash gives nothing back.           *)
(***************************************************************************)
EXTENDS Naturals

CONSTANT Limit          \* bootstrap_attempt_limit

VARIABLES
    allowance,          \* starts that may still be granted
    granted,            \* starts granted whose row is not inserted yet
    started,            \* rows ever inserted
    proven              \* a start has succeeded, its result is not applied yet

policyVars == <<allowance, granted, started, proven>>

PolicyInit == allowance = Limit /\ granted = 0 /\ started = 0 /\ ~proven

\* A reservation consumes n attempts for at most n starts.
Grant ==
    /\ \E n \in 1 .. allowance :
          /\ allowance' = allowance - n
          /\ \E m \in 0 .. n : granted' = granted + m
    /\ UNCHANGED <<started, proven>>

Start ==
    /\ granted > 0
    /\ granted' = granted - 1 /\ started' = started + 1
    /\ UNCHANGED <<allowance, proven>>

\* Starts that never come, results that are lost.
Forget ==
    /\ granted' \in 0 .. granted
    /\ proven' \in {proven, FALSE}
    /\ UNCHANGED <<allowance, started>>

Succeed ==
    /\ started > 0 /\ proven' = TRUE
    /\ UNCHANGED <<allowance, granted, started>>

Recover ==
    /\ proven /\ proven' = FALSE
    /\ allowance' = Limit
    /\ UNCHANGED <<granted, started>>

\* The retry interval is over: one probe.
Probe ==
    /\ allowance = 0 /\ allowance' = 1
    /\ UNCHANGED <<granted, started, proven>>

\* The delay starts again before the probe was used.
Withdraw ==
    /\ allowance' = 0
    /\ UNCHANGED <<granted, started, proven>>

PolicyNext == Grant \/ Start \/ Forget \/ Succeed \/ Recover \/ Probe \/ Withdraw

PolicySpec == PolicyInit /\ [][PolicyNext]_policyVars
=============================================================================
