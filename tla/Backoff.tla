------------------------------ MODULE Backoff ------------------------------
(***************************************************************************)
(* internal/controller: how long a deletion that failed is postponed.      *)
(***************************************************************************)
EXTENDS Capacity

CONSTANTS RetryBase, RetryMax       \* retryBase and retryMax, in seconds

ASSUME RetryAssumption ==
    /\ RetryBase \in Nat \ {0}
    /\ RetryMax \in Nat
    /\ RetryBase <= RetryMax

\* A slip: the delay is capped before it is doubled for the last time.
RetryDelayCappedEarly(count) ==
    LET delay[n \in 0 .. count] ==
            IF n = 0 THEN RetryBase
            ELSE IF delay[n - 1] >= RetryMax THEN delay[n - 1]
                 ELSE 2 * delay[n - 1]
    IN  delay[count]

\* retryDelete: one doubling for every attempt before this one, up to the cap
\* at which the loop ends.
RetryDelay(count) ==
    LET delay[n \in 0 .. count] ==
            IF n = 0 THEN RetryBase ELSE Least(2 * delay[n - 1], RetryMax)
    IN  delay[count]
=============================================================================
