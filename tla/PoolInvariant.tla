--------------------------- MODULE PoolInvariant ---------------------------
(***************************************************************************)
(* The inductive invariants behind the safety properties of a pool.  IInv  *)
(* is what a pass knows of its rows while it works: who can write a row is *)
(* a matter of pc, step and todo.  Accounted relates a row to its runner   *)
(* and its machine, Planned and Budgeted to the limits, Rested and         *)
(* HandledSoFar to where the pass is.  Behind them stand the properties of *)
(* a step that only the proofs state: rows, deletions and passes advance.  *)
(***************************************************************************)
EXTENDS PoolProperties

LoopsWithCleanup == {"missing", "instances", "scaleDown"}

\* Who is at work.  Goroutines belong to provisioning; outside of it at most
\* one instance is being cleaned up, one the current loop has still to do.
OneAtATime ==
    \A i \in Ids : step[i] # "none" =>
        /\ step[i] \in ProvisionSteps \union UndoSteps => pc = "provision"
        /\ pc # "provision" =>
               /\ pc \in LoopsWithCleanup
               /\ i \in todo
               /\ \A j \in Ids : step[j] # "none" => j = i

\* The row is in the state the next call counts on.
RowFits ==
    \A i \in Ids :
        /\ step[i] = "insert" => state[i] = Absent
        /\ step[i] \in ProvisionSteps \ {"insert"} => state[i] = "bootstrapping"
        /\ step[i] \in CleanupSteps => state[i] = "cleaning"
        /\ step[i] = "undoBegin" => state[i] = "bootstrapping"
        /\ step[i] \in {"undoRunner", "undoVM", "undoEnd"} /\ ~dirty[i] =>
               state[i] = "cleaning"
        /\ dirty[i] => step[i] \in {"undoRunner", "undoVM", "undoEnd"}

\* The rows the loop has still to visit are as they were listed.
Unvisited ==
    pc \in LoopsWithCleanup =>
        \A i \in todo : step[i] = "none" => i \in Live /\ snap[i] = Row(i)

\* No row is written between the listing and the end of the first loop, and
\* the second only takes rows away, so its listing still covers the live rows
\* and the runners they have.
OrphansKnown ==
    /\ pc \in {"managed", "orphanVMs"} => snap = Listing
    /\ pc = "orphanVMs" => todo \intersect Live = {} /\ missing \subseteq Live
    /\ pc \in {"missing", "orphanRunners"} =>
           \A i \in Live : snap[i].state # Absent /\ snap[i].registered = registered[i]
    /\ pc = "orphanRunners" => \A i \in todo \intersect Live : ~registered[i]

IInv == TypeOK /\ OneAtATime /\ RowFits /\ Unvisited /\ OrphansKnown

-----------------------------------------------------------------------------
(* Rows, runners and machines.                                             *)

\* Reasons of rows that had been in service, or whose start was seen to the end.
ServedReasons == Reasons \ {"bootstrap_failed", "controller_recovery"}

\* What a row tells of its runner and its machine.
RowTells(i) ==
    /\ state[i] = Absent => ~registered[i] /\ runner[i] = "none"
    /\ reason[i] = NoReason <=> state[i] \notin {"cleaning", "finished"}
    /\ reason[i] \in ServedReasons => registered[i]
    /\ reason[i] = "controller_recovery" => ~registered[i]
    /\ state[i] \in {"ready", "running"} =>
           registered[i] /\ vm[i] \notin {"pending", "up"}
    /\ state[i] = "running" =>
           /\ runner[i] \notin {"idle", "active"}
           /\ runner[i] = "offline" => vm[i] # "configured"
    /\ reason[i] = "job_completed" => runner[i] \in {"none", "spent"}
    /\ reason[i] = "instance_missing" => vm[i] = "none"
    /\ reason[i] \in {"idle_timeout", "runner_offline"} => runner[i] # "seen"
    /\ reason[i] \in {"idle_timeout", "max_lifetime"} => vm[i] \notin {"pending", "up"}
    /\ state[i] = "finished" =>
           /\ registered[i] => runner[i] = "none"
           /\ ~Configured(i)

\* Runners connect from machines, and both come after the registration.
WorldFits(i) ==
    /\ ~registered[i] => vm[i] = "none" /\ runner[i] \in {"none", "offline"}
    /\ Connected(i) => vm[i] = "configured"
    /\ runner[i] = "spent" => vm[i] \notin {"pending", "up"}

\* What the work on an instance has already done.
WorkTells(i) ==
    /\ step[i] \in {"insert", "register", "record"} => ~registered[i]
    /\ step[i] \in {"request", "verify", "boot", "await"} => registered[i]
    /\ step[i] = "request" => vm[i] = "none" /\ runner[i] \in {"none", "offline"}
    /\ step[i] = "verify" => ~Configured(i)
    /\ step[i] = "runner" => ("runner" \in undo[i] <=> registered[i])
    /\ step[i] \in {"machine", "finish"} /\ registered[i] => runner[i] = "none"
    /\ step[i] = "finish" => ~Configured(i)
    /\ step[i] \in UndoSteps =>
           /\ state[i] = "cleaning" => reason[i] = "bootstrap_failed"
           /\ registered[i] => "runner" \in undo[i]
           /\ Configured(i) => "vm" \in undo[i]
    /\ step[i] \in {"undoVM", "undoEnd"} /\ ~dirty[i] /\ registered[i] =>
           runner[i] = "none"
    /\ step[i] = "undoEnd" /\ ~dirty[i] => ~Configured(i)

\* What the loops still rely on when they come to a row.
LoopsRely ==
    /\ pc = "orphanVMs" =>
           \A i \in missing : state[i] \in {"ready", "running"} /\ vm[i] = "none"
    /\ pc = "missing" =>
           \A i \in todo : step[i] = "none" =>
               state[i] \in {"ready", "running"} /\ vm[i] = "none"
    /\ pc = "scaleDown" => \A i \in todo : step[i] = "none" => state[i] = "ready"

\* The rows whose runners the pass has read.
Observable == IF pc = "instances" THEN Ids \ todo
              ELSE IF pc = "scaleDown" THEN Ids ELSE {}

\* A pass that goes on has written what it read: no row it takes for idle has
\* a runner it saw at work.
SeenRecorded ==
    /\ \A i \in Observable : state[i] = "ready" => runner[i] # "seen"
    /\ pc # "provision" =>
           \A i \in Ids : step[i] # "none" => state[i] \in {"cleaning", "finished"}

Account(i) == RowTells(i) /\ WorldFits(i) /\ WorkTells(i)

Accounted == (\A i \in Ids : Account(i)) /\ LoopsRely

AccountKept == IInv /\ Accounted /\ SeenRecorded

-----------------------------------------------------------------------------
(* Limits.                                                                 *)

Inserting == {i \in Ids : step[i] = "insert"}

\* Starts count before their rows exist.
Planned ==
    /\ Cardinality(Live \union Inserting) <= MaxInstances
    /\ Cardinality(InState("bootstrapping") \union Inserting) <= MaxProvisioning

\* A result is that of an instance that was started.
ResultOfStart == \A i \in Ids : step[i] = "ok" => state[i] # Absent

Budgeted == ProbeAlone /\ ResultOfStart

-----------------------------------------------------------------------------
(* What a pass does to its rows and its calls, step by step.               *)

\* A start is taken back on a row that is not finished yet, and a finished row
\* is at rest: nothing works on it and no time is set for it.
Rested ==
    \A i \in Ids :
        /\ step[i] \in UndoSteps => state[i] \in {"bootstrapping", "cleaning"}
        /\ state[i] = "finished" =>
               retry[i] = "none" /\ ~aged[i] /\ step[i] \in {"none", "ok", "err"}

\* A row goes through its states once: it is inserted once, moves only along
\* the transition table, keeps its registration and the reason it was first
\* retired for, and once finished is never written again.  Retry, which asks
\* nothing of the state, and the table, which lets every state be written over
\* itself, do not see to that.
RowsOnlyAdvance ==
    [][\A i \in Ids :
           /\ \/ CanTransition(state[i], state'[i])
              \/ state[i] = Absent /\ state'[i] = "bootstrapping"
           /\ reason[i] # NoReason => reason'[i] = reason[i]
           /\ registered[i] => registered'[i]
           /\ state[i] = "finished" =>
                  UNCHANGED <<retry[i], aged[i], reason[i], registered[i]>>]_vars

\* The controller takes nothing away from an instance in service: before a
\* machine or a registration is deleted the row says so, and a crash between
\* the two finds a row that tells what is left to do.
DeletionsAnnounced ==
    [][(Pass \/ \E j \in Ids : Work(j)) =>
           \A i \in Ids : state[i] \in {"ready", "running"} =>
               UNCHANGED <<Status(i), vm[i]>>]_vars

\* The places of a pass, in order.
NextPlace(p) ==
    CASE p = "idle"          -> "managed"
      [] p = "managed"       -> "orphanVMs"
      [] p = "orphanVMs"     -> "missing"
      [] p = "missing"       -> "orphanRunners"
      [] p = "orphanRunners" -> "instances"
      [] p = "instances"     -> "scaleDown"
      [] OTHER               -> "provision"

\* The most calls there can be until the work at s has returned and its result
\* is received.
CallsLeft(s) ==
    CASE s = "none"                              -> 0
      [] s \in {"ok", "err"}                     -> 1
      [] s \in {"postpone", "finish", "undoEnd"} -> 2
      [] s \in {"machine", "undoVM"}             -> 3
      [] s \in {"runner", "undoRunner"}          -> 4
      [] s = "undoBegin"                         -> 5
      [] s = "await"                             -> 6
      [] s = "boot"                              -> 7
      [] s = "verify"                            -> 8
      [] s = "request"                           -> 9
      [] s = "record"                            -> 10
      [] s = "register"                          -> 11
      [] OTHER                                   -> 12

\* What the place the pass is at has still to do for instance i.
ToGo(i) ==
    IF step[i] # "none" THEN CallsLeft(step[i])
    ELSE IF pc # "provision" /\ i \in todo THEN 5 ELSE 0

\* A pass goes through its places in order and comes to none twice; at each,
\* every call of its own takes one of its instances nearer to its end, and
\* nothing, no failure, retry or change outside, puts one back.  So the calls
\* of a pass are bounded by the instances it works on.
PassAdvances ==
    [][pc # "idle" =>
           /\ pc' \in {pc, NextPlace(pc), "idle"}
           /\ pc' = pc =>
                  /\ \A i \in Ids : ToGo(i)' <= ToGo(i)
                  /\ Pass \/ (\E i \in Ids : Work(i)) =>
                         \E i \in Ids : ToGo(i)' < ToGo(i)]_vars

\* The pass has nothing more to do for row i: its start is settled, and a
\* deletion it still needs is postponed or under way.
Handled(i) ==
    /\ state[i] # "bootstrapping"
    /\ state[i] = "cleaning" => retry[i] # "none" \/ step[i] # "none"

\* What the loop over the rows has left behind it, and what its cleanups were
\* called for.
HandledSoFar ==
    /\ pc = "instances" => \A i \in Ids \ todo : Handled(i)
    /\ pc = "scaleDown" => \A i \in Ids : Handled(i)
    /\ pc # "provision" => \A i \in Ids : step[i] = "ok" => state[i] = "finished"

\* A pass that gets as far as deciding what to start has settled every start it
\* found and tried every deletion that was not postponed: no row is passed over,
\* however old the listing, and no failure on the way is passed over either.
NothingSkipped ==
    pc = "scaleDown" =>
        \A i \in Ids :
            /\ state[i] # "bootstrapping"
            /\ state[i] = "cleaning" /\ step[i] = "none" => retry[i] # "none"
=============================================================================
