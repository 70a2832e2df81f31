---------------------------- MODULE Calculations ----------------------------
(***************************************************************************)
(* The controller's arithmetic on small inputs: a demand of CapacityCheck, *)
(* and a row whose deletion fails again and again.                         *)
(***************************************************************************)
EXTENDS CapacityCheck, Backoff

CONSTANT MaxRetries     \* bound on the failures in a row

ASSUME MaxRetriesAssumption == MaxRetries \in Nat

VARIABLE retries        \* retry_count of the row

FailAgain ==
    /\ retries' = Least(retries + 1, MaxRetries)
    /\ UNCHANGED demand

CalculationsInit == Init /\ retries = 0

CalculationsSpec == CalculationsInit /\ [][FailAgain]_<<demand, retries>>

\* RetryBase doubled once for every failure before this one.
Doubled(count) ==
    LET doubled[n \in 0 .. count] ==
            IF n = 0 THEN RetryBase ELSE 2 * doubled[n - 1]
    IN  doubled[count]

\* A deletion that keeps failing is postponed by 5 seconds, then twice as long
\* each time, and from 5 minutes on by 5 minutes: never shorter than before,
\* never beyond the cap, which the last doubling may overshoot.
DelayDoublesToCap == RetryDelay(retries) = Least(Doubled(retries), RetryMax)
=============================================================================
