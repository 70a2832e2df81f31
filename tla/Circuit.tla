------------------------------ MODULE Circuit ------------------------------
(***************************************************************************)
(* The bootstrap circuit of internal/store: the columns bootstrap_attempts *)
(* and bootstrap_retry_at of a pool.  The retry time is abstracted to what *)
(* the code asks of it: not set, still ahead, or due.                      *)
(***************************************************************************)
EXTENDS Capacity

Pauses == {"none", "ahead", "due"}

\* A slip: attempts are counted, but the limit is not applied.
ReserveUnlimited(attempts, pause, wanted, limit) ==
    [attempts |-> attempts + wanted, pause |-> pause, count |-> wanted]

\* A slip: when the delay is over, everything wanted is started again.
ReserveManyProbes(attempts, pause, wanted, limit) ==
    IF attempts >= limit
    THEN [attempts |-> attempts, pause |-> "ahead",
          count |-> IF pause = "due" THEN wanted ELSE 0]
    ELSE LET count == Least(wanted, limit - attempts)
         IN  [attempts |-> attempts + count, pause |-> pause, count |-> count]

\* A slip: a missing retry time at the limit passes for one that is due.
ReserveAfterCrash(attempts, pause, wanted, limit) ==
    IF attempts >= limit
    THEN [attempts |-> attempts, pause |-> "ahead",
          count |-> IF pause = "ahead" THEN 0 ELSE 1]
    ELSE LET count == Least(wanted, limit - attempts)
         IN  [attempts |-> attempts + count, pause |-> pause, count |-> count]

\* ReserveBootstrap.  At the limit a missing retry time starts the delay, a
\* retry time ahead refuses, and one that is due is moved on for one probe;
\* below the limit the reservation consumes its attempts at once.
Reserve(attempts, pause, wanted, limit) ==
    IF attempts >= limit
    THEN [attempts |-> attempts, pause |-> "ahead",
          count |-> IF pause = "due" THEN 1 ELSE 0]
    ELSE LET count == Least(wanted, limit - attempts)
         IN  [attempts |-> attempts + count, pause |-> pause, count |-> count]
=============================================================================
