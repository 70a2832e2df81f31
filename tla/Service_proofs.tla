--------------------------- MODULE Service_proofs ---------------------------
(***************************************************************************)
(* The record of the passes and the health endpoints agree, and no process *)
(* serves from half a schema: for every number of pools and every budget   *)
(* of crashes and failures.  Of a step: incidents are a history, and a     *)
(* shutdown comes nearer to its end.                                       *)
(***************************************************************************)
EXTENDS MCService, TLAPS

Incident == [pool : Pools, cause : Causes, open : BOOLEAN]

InPass == {"open", "progress", "work", "finish", "report"}

-----------------------------------------------------------------------------
(* Types.                                                                  *)

LEMMA ResolvedType ==
    ASSUME incidents \in Seq(Incident), NEW p \in Pools
    PROVE  /\ Resolved(p) \in Seq(Incident)
           /\ Len(Resolved(p)) = Len(incidents)
           /\ \A k \in 1 .. Len(incidents) :
                  /\ Resolved(p)[k].pool = incidents[k].pool
                  /\ Resolved(p)[k].open <=> incidents[k].open /\ incidents[k].pool # p
<1>1. DOMAIN incidents = 1 .. Len(incidents) /\ Len(incidents) \in Nat
  OBVIOUS
<1>2. \A k \in 1 .. Len(incidents) : incidents[k] \in Incident
  OBVIOUS
<1>3. \A k \in 1 .. Len(incidents) : Resolved(p)[k] \in Incident
  BY <1>1, <1>2 DEF Resolved, Incident
<1>4. Resolved(p) \in [1 .. Len(incidents) -> Incident]
  BY <1>1, <1>3 DEF Resolved
<1>5. Resolved(p) \in Seq(Incident) /\ Len(Resolved(p)) = Len(incidents)
  BY <1>1, <1>4
<1>6. \A k \in 1 .. Len(incidents) :
          /\ Resolved(p)[k].pool = incidents[k].pool
          /\ Resolved(p)[k].open <=> incidents[k].open /\ incidents[k].pool # p
  BY <1>1, <1>2 DEF Resolved, OpenIncidents, Incident
<1> QED BY <1>5, <1>6

LEMMA RuntimeTypes ==
    RuntimeTypeOK <=>
      /\ run \in [Pools -> {"none", "running", "succeeded", "failed"}]
      /\ own \in [Pools -> BOOLEAN]
      /\ staged \in [Pools -> BOOLEAN]
      /\ incidents \in Seq(Incident)
      /\ link \in [Pools -> 0 .. Len(incidents)]
BY DEF RuntimeTypeOK, Incident

\* What FinishPool does to the incidents: those of other pools stay as they
\* are, and of the pool at most one is left open, the one it points at.
LEMMA FailureRecorded ==
    ASSUME RuntimeTypeOK, NEW p \in Pools, NEW cause \in Causes,
           OpenIncidents(p) = {link[p]} \ {0}, RecordIncident(p, cause)
    PROVE  /\ incidents' \in Seq(Incident) /\ Len(incidents) <= Len(incidents')
           /\ link' \in [Pools -> 0 .. Len(incidents')]
           /\ link'[p] # 0
           /\ OpenIncidents(p)' = {link'[p]}
           /\ \A q \in Pools \ {p} :
                  OpenIncidents(q)' = OpenIncidents(q) /\ link'[q] = link[q]
<1> USE RuntimeTypes
<1>1. CASE \E k \in OpenIncidents(p) :
              /\ incidents[k].cause = cause
              /\ link' = [link EXCEPT ![p] = k]
              /\ UNCHANGED incidents
  <2>1. PICK k \in OpenIncidents(p) :
            link' = [link EXCEPT ![p] = k] /\ UNCHANGED incidents
    BY <1>1
  <2>2. k = link[p] /\ k # 0
    BY <2>1
  <2> QED BY <2>1, <2>2 DEF OpenIncidents
<1>2. CASE /\ incidents' =
                  Append(Resolved(p), [pool |-> p, cause |-> cause, open |-> TRUE])
           /\ link' = [link EXCEPT ![p] = Len(incidents')]
  <2> DEFINE new == [pool |-> p, cause |-> cause, open |-> TRUE]
  <2>1. new \in Incident
    BY DEF Incident
  <2>2. incidents' \in Seq(Incident) /\ Len(incidents') = Len(incidents) + 1
    BY <1>2, <2>1, ResolvedType
  <2>3. /\ DOMAIN incidents = 1 .. Len(incidents)
        /\ DOMAIN incidents' = 1 .. (Len(incidents) + 1)
        /\ Len(incidents) \in Nat
    BY <2>2
  <2>4. /\ incidents'[Len(incidents) + 1] = new
        /\ \A k \in 1 .. Len(incidents) : incidents'[k] = Resolved(p)[k]
    BY <1>2, <2>1, ResolvedType
  <2>5. link'[p] = Len(incidents) + 1 /\ \A q \in Pools \ {p} : link'[q] = link[q]
    BY <1>2, <2>2
  <2>6. link' \in [Pools -> 0 .. Len(incidents')]
    BY <1>2, <2>2, <2>3
  <2>7. \A k \in 1 .. Len(incidents) :
            /\ incidents'[k].pool = incidents[k].pool
            /\ incidents'[k].open <=> incidents[k].open /\ incidents[k].pool # p
    BY <2>4, ResolvedType
  <2>8. incidents'[Len(incidents) + 1].pool = p /\ incidents'[Len(incidents) + 1].open
    BY <2>4
  <2>9. ASSUME NEW q \in Pools, NEW k \in 1 .. Len(incidents)
        PROVE  k \in OpenIncidents(q)' <=> k \in OpenIncidents(q) /\ q # p
    BY <2>3, <2>7 DEF OpenIncidents
  <2>10. ASSUME NEW q \in Pools
         PROVE  Len(incidents) + 1 \in OpenIncidents(q)' <=> q = p
    BY <2>3, <2>8 DEF OpenIncidents
  <2>11. ASSUME NEW q \in Pools
         PROVE  /\ OpenIncidents(q) \subseteq 1 .. Len(incidents)
                /\ OpenIncidents(q)' \subseteq 1 .. Len(incidents) \union {Len(incidents) + 1}
    BY <2>3 DEF OpenIncidents
  <2>12. OpenIncidents(p)' = {link'[p]}
    BY <2>5, <2>9, <2>10, <2>11
  <2>13. ASSUME NEW q \in Pools \ {p} PROVE OpenIncidents(q)' = OpenIncidents(q)
    <3>1. \A k \in OpenIncidents(q) : k \in OpenIncidents(q)'
      BY <2>9, <2>11
    <3>2. Len(incidents) + 1 \notin OpenIncidents(q)'
      BY <2>10
    <3>3. \A k \in OpenIncidents(q)' : k \in 1 .. Len(incidents)
      BY <2>11, <3>2
    <3>4. \A k \in OpenIncidents(q)' : k \in OpenIncidents(q)
      BY <2>9, <3>3
    <3> QED BY <3>1, <3>4
  <2>14. Len(incidents) <= Len(incidents') /\ link'[p] # 0
    BY <2>2, <2>3, <2>5
  <2> QED BY <2>2, <2>5, <2>6, <2>12, <2>13, <2>14
<1> QED BY <1>1, <1>2 DEF RecordIncident

LEMMA SuccessRecorded ==
    ASSUME RuntimeTypeOK, NEW p \in Pools, FinishSucceeded(p)
    PROVE  /\ incidents' \in Seq(Incident) /\ Len(incidents') = Len(incidents)
           /\ link' \in [Pools -> 0 .. Len(incidents')]
           /\ link'[p] = 0
           /\ OpenIncidents(p)' = {}
           /\ \A q \in Pools \ {p} :
                  OpenIncidents(q)' = OpenIncidents(q) /\ link'[q] = link[q]
<1> USE RuntimeTypes
<1>1. incidents' = Resolved(p) /\ link' = [link EXCEPT ![p] = 0]
  BY DEF FinishSucceeded
<1>2. /\ incidents' \in Seq(Incident) /\ Len(incidents') = Len(incidents)
      /\ DOMAIN incidents = 1 .. Len(incidents)
      /\ DOMAIN incidents' = 1 .. Len(incidents)
  BY <1>1, ResolvedType
<1>3. \A k \in 1 .. Len(incidents) :
          /\ incidents'[k].pool = incidents[k].pool
          /\ incidents'[k].open <=> incidents[k].open /\ incidents[k].pool # p
  BY <1>1, ResolvedType
<1>4. OpenIncidents(p)' = {}
  BY <1>2, <1>3 DEF OpenIncidents
<1>5. ASSUME NEW q \in Pools \ {p} PROVE OpenIncidents(q)' = OpenIncidents(q)
  BY <1>2, <1>3 DEF OpenIncidents
<1> QED BY <1>1, <1>2, <1>4, <1>5

-----------------------------------------------------------------------------
(* The inductive invariant.                                                *)

\* A file that is not of this version was never served from.
SchemaFollows ==
    /\ version = SchemaVersion => tables = Tables /\ columns
    /\ version = 1 => tables = Tables
    /\ version = 0 /\ "pool_runtime" \in tables => columns
    /\ phase = "creating" => version = 0
    /\ phase \in {"starting", "up", "stopping", "stopped"} => version = SchemaVersion
    /\ version # SchemaVersion =>
           incidents = <<>> /\ \A p \in Pools : run[p] = "none"

\* Without workers there is nothing in memory.
Asleep ==
    phase \notin {"up", "stopping"} =>
        \A p \in Pools : pass[p] = "off" /\ ~attempted[p]

\* The tables: the open incident of a pool is the one it points at.
Recorded(p) ==
    /\ OpenIncidents(p) = {link[p]} \ {0}
    /\ run[p] = "succeeded" => link[p] = 0
    /\ run[p] = "failed" => link[p] # 0

\* The tables and the worker: what the worker is about to report, and what the
\* tracker was told last.
Reported(p) ==
    /\ phase \in {"up", "stopping"} /\ run[p] = "running" => own[p]
    /\ pass[p] \in {"sleep", "begin"} /\ run[p] = "running" => failed[p]
    /\ pass[p] = "finish" => result[p] \in Causes \union {"ok"}
    /\ pass[p] = "report" /\ result[p] = "ok" => link[p] = 0 /\ run[p] # "running"
    /\ attempted[p] /\ ~failed[p] /\ link[p] # 0 => pass[p] = "report"

\* The tracker and the worker: only a pass has a deadline and a stage.
Timed(p) ==
    /\ active[p] <=> pass[p] \in InPass
    /\ progress[p] => active[p]
    /\ stageLate[p] => progress[p]
    /\ passLate[p] => active[p]

IInv ==
    /\ ServiceTypeOK
    /\ SchemaFollows
    /\ Asleep
    /\ \A p \in Pools : Recorded(p) /\ Reported(p) /\ Timed(p)

TrackerType ==
    /\ active \in [Pools -> BOOLEAN] /\ attempted \in [Pools -> BOOLEAN]
    /\ failed \in [Pools -> BOOLEAN] /\ progress \in [Pools -> BOOLEAN]
    /\ passLate \in [Pools -> BOOLEAN] /\ stageLate \in [Pools -> BOOLEAN]
    /\ overdue \in [Pools -> BOOLEAN]

LEMMA TrackerTypes == TrackerTypeOK <=> TrackerType
BY DEF TrackerTypeOK, TrackerType

LEMMA NoneType == None \in [Pools -> BOOLEAN] /\ \A p \in Pools : ~None[p]
BY DEF None

LEMMA InitInv == ServiceInit => IInv
<1> SUFFICES ASSUME ServiceInit PROVE IInv
  OBVIOUS
<1>1. RuntimeTypeOK /\ incidents = <<>> /\ DOMAIN incidents = {}
  BY RuntimeTypes DEF ServiceInit, RuntimeInit
<1>2. TrackerTypeOK
  BY TrackerTypes, NoneType DEF ServiceInit, TrackerInit, TrackerType
<1>3. DatabaseTypeOK /\ SchemaFollows
  <2>1. phase = "down" /\ \A p \in Pools : run[p] = "none"
    BY DEF ServiceInit, RuntimeInit
  <2>2. \/ version = 0 /\ tables = {} /\ columns = FALSE
        \/ version = 0 /\ tables = {"instances", "pool_status"} /\ columns = FALSE
        \/ version = 1 /\ tables = Tables /\ columns = FALSE
        \/ version \in {2, 3} /\ tables = Tables /\ columns = TRUE
    BY DEF ServiceInit, DatabaseInit
  <2>3. version \in 0 .. SchemaVersion + 1
    BY <2>2 DEF SchemaVersion
  <2>4. columns \in BOOLEAN /\ tables \subseteq KnownTables
    BY <2>2 DEF KnownTables, Tables
  <2>5. SchemaFollows
    BY <1>1, <2>1, <2>2 DEF SchemaFollows, SchemaVersion
  <2> QED BY <2>3, <2>4, <2>5 DEF DatabaseTypeOK
<1>4. ServiceTypeOK
  BY <1>1, <1>2, <1>3, ServiceAssumption DEF ServiceInit, ServiceTypeOK,
     PassStates, Results, Causes
<1>5. Asleep
  BY NoneType DEF ServiceInit, Asleep, TrackerInit
<1>6. \A p \in Pools : Recorded(p)
  BY <1>1 DEF ServiceInit, RuntimeInit, Recorded, OpenIncidents
<1>7. \A p \in Pools : Reported(p) /\ Timed(p)
  BY NoneType DEF ServiceInit, RuntimeInit, TrackerInit, Reported, Timed, InPass
<1> QED BY <1>3, <1>4, <1>5, <1>6, <1>7 DEF IInv

-----------------------------------------------------------------------------
(* The process.                                                            *)

\* A step that leaves the tables, the tracker and the workers alone.
LEMMA PhaseInv ==
    ASSUME IInv, UNCHANGED <<runtimeVars, trackerVars, pass, result>>,
           DatabaseTypeOK', SchemaFollows',
           phase' \in {"down", "creating", "starting", "up", "stopping", "stopped"},
           failures' \in 0 .. MaxFailures, stops' \in 0 .. MaxStops,
           phase' \in {"up", "stopping"} <=> phase \in {"up", "stopping"}
    PROVE  IInv'
<1>1. ServiceTypeOK'
  BY DEF IInv, ServiceTypeOK, RuntimeTypeOK, TrackerTypeOK, runtimeVars, trackerVars
<1>2. \A p \in Pools : Recorded(p)' /\ Reported(p)' /\ Timed(p)'
  BY DEF IInv, Recorded, Reported, Timed, OpenIncidents, runtimeVars, trackerVars
<1> QED BY <1>1, <1>2 DEF IInv, Asleep, trackerVars

LEMMA Budgets ==
    ASSUME ServiceTypeOK
    PROVE  /\ failures \in 0 .. MaxFailures /\ stops \in 0 .. MaxStops
           /\ Steady => failures' \in 0 .. MaxFailures
           /\ Failure => failures' \in 0 .. MaxFailures
           /\ stops > 0 => stops - 1 \in 0 .. MaxStops
BY ServiceAssumption DEF ServiceTypeOK, Steady, Failure

\* Neither do these steps touch the tables that are there.
LEMMA BootInv == IInv /\ Boot => IInv'
<1> SUFFICES ASSUME IInv, Boot PROVE IInv'
  OBVIOUS
<1>1. /\ phase \in {"down", "stopped"} /\ phase' \in {"down", "creating", "starting"}
      /\ failures' \in 0 .. MaxFailures /\ stops' \in 0 .. MaxStops
  BY Budgets DEF Boot, IInv
<1>2. UNCHANGED <<runtimeVars, trackerVars, pass, result>>
  BY DEF Boot
<1>3. version \in 0 .. 3 /\ tables \subseteq KnownTables /\ columns \in BOOLEAN
  BY DEF IInv, ServiceTypeOK, DatabaseTypeOK, SchemaVersion
<1>4. CASE UNCHANGED databaseVars
  <2>1. DatabaseTypeOK'
    BY <1>3, <1>4 DEF DatabaseTypeOK, SchemaVersion, databaseVars
  <2>2. phase' = "starting" => version' = SchemaVersion
    BY <1>1, <1>3, <1>4 DEF Boot, Current, Earlier, MigrateV1, databaseVars, SchemaVersion
  <2>3. phase' = "creating" => version' = 0
    BY <1>4 DEF Boot, Empty, databaseVars
  <2>4. SchemaFollows'
    BY <1>1, <1>2, <1>4, <2>2, <2>3 DEF IInv, SchemaFollows, databaseVars, runtimeVars
  <2> QED BY <1>1, <1>2, <2>1, <2>4, PhaseInv
<1>5. CASE Earlier /\ Steady /\ phase' = "starting" /\ MigrateV1(TRUE)
  <2>1. version' = SchemaVersion /\ tables' = Tables /\ columns'
    BY <1>5 DEF IInv, SchemaFollows, Earlier, MigrateV1
  <2>2. DatabaseTypeOK' /\ SchemaFollows'
    BY <1>5, <2>1 DEF DatabaseTypeOK, SchemaFollows, SchemaVersion, MigrateV1, KnownTables
  <2> QED BY <1>1, <1>2, <2>2, PhaseInv
<1>6. CASE Earlier /\ Failure /\ phase' = "down" /\ MigrateV1(FALSE)
  <2>1. UNCHANGED databaseVars
    BY <1>3, <1>6 DEF MigrateV1, databaseVars
  <2> QED BY <1>4, <2>1
<1> QED BY <1>4, <1>5, <1>6 DEF Boot

LEMMA CreateSchemaInv == IInv /\ CreateSchema => IInv'
<1> SUFFICES ASSUME IInv, CreateSchema PROVE IInv'
  OBVIOUS
<1>1. /\ phase = "creating" /\ version = 0
      /\ phase' \in {"down", "creating", "starting"}
      /\ failures' \in 0 .. MaxFailures /\ stops' \in 0 .. MaxStops
  BY Budgets DEF CreateSchema, IInv, SchemaFollows
<1>2. UNCHANGED <<runtimeVars, trackerVars, pass, result>>
  BY DEF CreateSchema
<1>3. /\ tables \subseteq KnownTables /\ columns \in BOOLEAN
      /\ "pool_runtime" \in tables => columns
      /\ incidents = <<>> /\ \A p \in Pools : run[p] = "none"
  BY <1>1 DEF IInv, ServiceTypeOK, DatabaseTypeOK, SchemaFollows, SchemaVersion
<1>4. CASE Steady /\ (\E table \in Tables : CreateTable(table)) /\ UNCHANGED phase
  <2>1. PICK table \in Tables : CreateTable(table)
    BY <1>4
  <2>2. /\ version' = 0 /\ tables' = tables \union {table}
        /\ columns' = (columns \/ table = "pool_runtime")
    BY <1>1, <2>1 DEF CreateTable
  <2>3. DatabaseTypeOK'
    BY <1>3, <2>2 DEF DatabaseTypeOK, SchemaVersion, KnownTables
  <2>4. "pool_runtime" \in tables' => columns'
    BY <1>3, <2>2
  <2>5. incidents' = <<>> /\ \A p \in Pools : run'[p] = "none"
    BY <1>2, <1>3 DEF runtimeVars
  <2>6. SchemaFollows'
    BY <1>1, <1>4, <2>2, <2>4, <2>5 DEF SchemaFollows, SchemaVersion
  <2> QED BY <1>1, <1>2, <2>3, <2>6, PhaseInv
<1>5. CASE Steady /\ Stamp /\ phase' = "starting"
  <2>1. version' = 2 /\ tables' = Tables /\ columns'
    BY <1>3, <1>5 DEF Stamp, SchemaVersion, Tables
  <2>2. DatabaseTypeOK' /\ SchemaFollows'
    BY <1>3, <1>5, <2>1 DEF DatabaseTypeOK, SchemaFollows, SchemaVersion, Stamp, KnownTables
  <2> QED BY <1>1, <1>2, <2>2, PhaseInv
<1>6. CASE phase' = "down" /\ UNCHANGED databaseVars
  <2>1. DatabaseTypeOK' /\ SchemaFollows'
    BY <1>2, <1>6 DEF IInv, ServiceTypeOK, DatabaseTypeOK, SchemaFollows,
       databaseVars, runtimeVars
  <2> QED BY <1>1, <1>2, <2>1, PhaseInv
<1> QED BY <1>4, <1>5, <1>6 DEF CreateSchema

LEMMA StopInv == IInv /\ Stop => IInv'
<1> SUFFICES ASSUME IInv, Stop PROVE IInv'
  OBVIOUS
<1>1. /\ phase = "up" /\ phase' = "stopping"
      /\ failures' \in 0 .. MaxFailures /\ stops' \in 0 .. MaxStops
  BY Budgets DEF Stop, IInv
<1>2. DatabaseTypeOK' /\ SchemaFollows'
  BY <1>1 DEF Stop, IInv, ServiceTypeOK, DatabaseTypeOK, SchemaFollows,
     databaseVars, runtimeVars
<1> QED BY <1>1, <1>2, PhaseInv DEF Stop

\* The memory of the process is lost, the tables are kept.
LEMMA VanishInv ==
    ASSUME IInv, Vanish, UNCHANGED databaseVars, phase # "down", phase # "stopped",
           phase' \in {"down", "stopped"}, phase' = "stopped" => phase = "stopping",
           failures' \in 0 .. MaxFailures, stops' \in 0 .. MaxStops
    PROVE  IInv'
<1>1. /\ active' = None /\ attempted' = None /\ failed' = None /\ progress' = None
      /\ passLate' = None /\ stageLate' = None /\ overdue' = None /\ own' = None
      /\ UNCHANGED <<run, staged, link, incidents>>
  BY DEF Vanish, Configure
<1>2. pass' = [p \in Pools |-> "off"] /\ result' = [p \in Pools |-> "ok"]
  BY DEF Vanish
<1>3. RuntimeTypeOK' /\ TrackerTypeOK'
  BY <1>1, NoneType, RuntimeTypes DEF IInv, ServiceTypeOK, RuntimeTypeOK, TrackerTypeOK
<1>4. DatabaseTypeOK' /\ SchemaFollows'
  BY <1>1 DEF IInv, ServiceTypeOK, DatabaseTypeOK, SchemaFollows, databaseVars
<1>5. ServiceTypeOK'
  BY <1>2, <1>3, <1>4 DEF ServiceTypeOK, PassStates, Results
<1>6. Asleep' /\ \A p \in Pools : Reported(p)' /\ Timed(p)'
  BY <1>1, <1>2, NoneType DEF Asleep, Reported, Timed, InPass
<1>7. \A p \in Pools : Recorded(p)'
  BY <1>1 DEF IInv, Recorded, OpenIncidents
<1> QED BY <1>4, <1>5, <1>6, <1>7 DEF IInv

LEMMA EndInv == IInv /\ (Exit \/ Crash) => IInv'
<1> SUFFICES ASSUME IInv, Exit \/ Crash PROVE IInv'
  OBVIOUS
<1>1. failures' \in 0 .. MaxFailures /\ stops' \in 0 .. MaxStops
  BY Budgets DEF Exit, Crash, IInv
<1> QED BY <1>1, VanishInv DEF Exit, Crash

LEMMA ServeInv == IInv /\ Serve => IInv'
<1> SUFFICES ASSUME IInv, Serve PROVE IInv'
  OBVIOUS
<1>1. /\ active' = None /\ attempted' = None /\ failed' = None /\ progress' = None
      /\ passLate' = None /\ stageLate' = None /\ overdue' = None
      /\ UNCHANGED <<runtimeVars, result>>
      /\ \A p \in Pools : run'[p] # "running"
      /\ pass' = [p \in Pools |-> "begin"]
  BY DEF Serve, Configure, runtimeVars
<1>2. RuntimeTypeOK' /\ TrackerTypeOK'
  BY <1>1, NoneType DEF IInv, ServiceTypeOK, RuntimeTypeOK, TrackerTypeOK, runtimeVars
<1>3. DatabaseTypeOK' /\ SchemaFollows'
  BY <1>1 DEF Serve, IInv, ServiceTypeOK, DatabaseTypeOK, SchemaFollows,
     databaseVars, runtimeVars
<1>4. ServiceTypeOK'
  BY <1>1, <1>2, <1>3 DEF Serve, IInv, ServiceTypeOK, PassStates
<1>5. Asleep' /\ \A p \in Pools : Reported(p)' /\ Timed(p)'
  BY <1>1, NoneType DEF Serve, Asleep, Reported, Timed, InPass
<1>6. \A p \in Pools : Recorded(p)'
  BY <1>1 DEF IInv, Recorded, OpenIncidents, runtimeVars
<1> QED BY <1>3, <1>4, <1>5, <1>6 DEF IInv

-----------------------------------------------------------------------------
(* The worker of one pool, and its clock.                                  *)

\* What concerns pool q stays as it is.
Untouched(q) ==
    /\ OpenIncidents(q)' = OpenIncidents(q)
    /\ run'[q] = run[q] /\ own'[q] = own[q] /\ link'[q] = link[q]
    /\ active'[q] = active[q] /\ attempted'[q] = attempted[q]
    /\ failed'[q] = failed[q] /\ progress'[q] = progress[q]
    /\ passLate'[q] = passLate[q] /\ stageLate'[q] = stageLate[q]
    /\ pass'[q] = pass[q] /\ result'[q] = result[q]

LEMMA WorkerInv ==
    ASSUME IInv, NEW p \in Pools, UNCHANGED databaseVars, phase' = phase,
           phase \in {"starting", "up", "stopping"},
           phase = "starting" => pass'[p] = "off" /\ ~attempted'[p],
           RuntimeTypeOK', TrackerTypeOK', pass' \in [Pools -> PassStates],
           result' \in [Pools -> Results], failures' \in 0 .. MaxFailures,
           stops' = stops, \A q \in Pools \ {p} : Untouched(q),
           Recorded(p)', Reported(p)', Timed(p)'
    PROVE  IInv'
<1>1. DatabaseTypeOK' /\ SchemaFollows'
  BY DEF IInv, ServiceTypeOK, DatabaseTypeOK, SchemaFollows, SchemaVersion, databaseVars
<1>2. ServiceTypeOK'
  BY <1>1 DEF IInv, ServiceTypeOK
<1>3. \A q \in Pools \ {p} : Recorded(q)' /\ Reported(q)' /\ Timed(q)'
  BY DEF IInv, Untouched, Recorded, Reported, Timed
<1>4. Asleep'
  BY DEF IInv, Asleep, Untouched
<1> QED BY <1>1, <1>2, <1>3, <1>4 DEF IInv

LEMMA PoolTypes ==
    ASSUME ServiceTypeOK
    PROVE  /\ TrackerType /\ pass \in [Pools -> PassStates]
           /\ result \in [Pools -> Results]
           /\ run \in [Pools -> {"none", "running", "succeeded", "failed"}]
           /\ own \in [Pools -> BOOLEAN] /\ staged \in [Pools -> BOOLEAN]
           /\ incidents \in Seq(Incident)
           /\ link \in [Pools -> 0 .. Len(incidents)]
BY TrackerTypes, RuntimeTypes DEF ServiceTypeOK

\* A step that leaves the tables alone.
LEMMA QuietInv ==
    ASSUME IInv, NEW p \in Pools, UNCHANGED <<databaseVars, runtimeVars>>, phase' = phase,
           phase \in {"up", "stopping"},
           TrackerType', pass' \in [Pools -> PassStates],
           result' \in [Pools -> Results], failures' \in 0 .. MaxFailures,
           stops' = stops,
           \A q \in Pools \ {p} :
               /\ active'[q] = active[q] /\ attempted'[q] = attempted[q]
               /\ failed'[q] = failed[q] /\ progress'[q] = progress[q]
               /\ passLate'[q] = passLate[q] /\ stageLate'[q] = stageLate[q]
               /\ pass'[q] = pass[q] /\ result'[q] = result[q],
           Reported(p)', Timed(p)'
    PROVE  IInv'
<1>1. RuntimeTypeOK' /\ TrackerTypeOK'
  BY TrackerTypes DEF IInv, ServiceTypeOK, RuntimeTypeOK, runtimeVars, TrackerType, TrackerTypeOK
<1>2. \A q \in Pools : OpenIncidents(q)' = OpenIncidents(q)
  BY DEF OpenIncidents, runtimeVars
<1>3. Recorded(p)'
  BY <1>2 DEF IInv, Recorded, runtimeVars
<1>4. \A q \in Pools \ {p} : Untouched(q)
  BY <1>2 DEF Untouched, runtimeVars
<1> QED BY <1>1, <1>3, <1>4, WorkerInv

LEMMA BeginInv ==
    ASSUME IInv, NEW p \in Pools, Begin(p), UNCHANGED databaseVars PROVE IInv'
<1>1. /\ pass[p] = "begin" /\ phase \in {"up", "stopping"} /\ phase' = phase
      /\ UNCHANGED <<runtimeVars, result, failures, stops>>
  BY DEF Begin, At
<1>2. TrackerType /\ pass \in [Pools -> PassStates] /\ result \in [Pools -> Results]
  BY PoolTypes DEF IInv
<1>3. Reported(p) /\ Timed(p) /\ failures \in 0 .. MaxFailures
  BY DEF IInv, ServiceTypeOK
<1>4. CASE PoolStart(p) /\ Move(p, "open")
  <2>1. TrackerType' /\ pass' \in [Pools -> PassStates] /\ pass'[p] = "open"
    BY <1>2, <1>4 DEF PoolStart, Move, TrackerType, PassStates
  <2>2. Reported(p)' /\ Timed(p)'
    BY <1>1, <1>2, <1>3, <1>4, <2>1
       DEF PoolStart, Reported, Timed, TrackerType, runtimeVars, InPass
  <2>3. \A q \in Pools \ {p} :
            /\ active'[q] = active[q] /\ passLate'[q] = passLate[q] /\ pass'[q] = pass[q]
    BY <1>2, <1>4 DEF PoolStart, Move, TrackerType
  <2> QED BY <1>1, <1>2, <1>3, <1>4, <2>1, <2>2, <2>3, QuietInv DEF PoolStart
<1>5. CASE Move(p, "off") /\ UNCHANGED trackerVars
  <2>1. TrackerType' /\ pass' \in [Pools -> PassStates] /\ pass'[p] = "off"
    BY <1>2, <1>5 DEF Move, TrackerType, PassStates, trackerVars
  <2>2. Reported(p)' /\ Timed(p)'
    BY <1>1, <1>3, <1>5, <2>1 DEF Reported, Timed, runtimeVars, trackerVars, InPass
  <2> QED BY <1>1, <1>2, <1>3, <1>5, <2>1, <2>2, QuietInv DEF Move, trackerVars
<1> QED BY <1>4, <1>5 DEF Begin

LEMMA WakeInv ==
    ASSUME IInv, NEW p \in Pools, Wake(p), UNCHANGED databaseVars PROVE IInv'
<1>1. /\ pass[p] = "sleep" /\ phase \in {"up", "stopping"} /\ phase' = phase
      /\ UNCHANGED <<runtimeVars, trackerVars, result, failures, stops>>
  BY DEF Wake, At
<1>2. TrackerType /\ pass \in [Pools -> PassStates] /\ result \in [Pools -> Results]
  BY PoolTypes DEF IInv
<1>3. Reported(p) /\ Timed(p) /\ failures \in 0 .. MaxFailures
  BY DEF IInv, ServiceTypeOK
<1>4. /\ pass' \in [Pools -> PassStates] /\ pass'[p] \in {"begin", "off"}
      /\ \A q \in Pools \ {p} : pass'[q] = pass[q]
  BY <1>2 DEF Wake, Move, PassStates
<1>5. Reported(p)' /\ Timed(p)'
  BY <1>1, <1>3, <1>4 DEF Reported, Timed, runtimeVars, trackerVars, InPass
<1> QED BY <1>1, <1>2, <1>3, <1>4, <1>5, QuietInv DEF TrackerType, trackerVars

LEMMA WorkEndsInv ==
    ASSUME IInv, NEW p \in Pools, WorkEnds(p), UNCHANGED databaseVars PROVE IInv'
<1>1. /\ pass[p] = "work" /\ phase \in {"up", "stopping"} /\ phase' = phase
      /\ UNCHANGED <<runtimeVars, trackerVars, stops>>
  BY DEF WorkEnds, At
<1>2. TrackerType /\ pass \in [Pools -> PassStates] /\ result \in [Pools -> Results]
  BY PoolTypes DEF IInv
<1>3. Reported(p) /\ Timed(p)
  BY DEF IInv
<1>4. failures' \in 0 .. MaxFailures
  BY Budgets DEF IInv, WorkEnds, Responds
<1>5. /\ pass' \in [Pools -> PassStates] /\ pass'[p] = "finish"
      /\ \A q \in Pools \ {p} : pass'[q] = pass[q]
  BY <1>2 DEF WorkEnds, Move, PassStates
<1>6. PICK r \in Causes \union {"ok"} : result' = [result EXCEPT ![p] = r]
  BY DEF WorkEnds, Result, Causes
<1>7. /\ result' \in [Pools -> Results] /\ result'[p] = r
      /\ \A q \in Pools \ {p} : result'[q] = result[q]
  BY <1>2, <1>6 DEF Results
<1>8. Reported(p)'
  BY <1>1, <1>3, <1>5, <1>7 DEF Reported, runtimeVars, trackerVars
<1>9. Timed(p)'
  BY <1>1, <1>3, <1>5 DEF Timed, trackerVars, InPass
<1> QED BY <1>1, <1>2, <1>4, <1>5, <1>7, <1>8, <1>9, QuietInv DEF TrackerType, trackerVars

LEMMA ReportInv ==
    ASSUME IInv, NEW p \in Pools, Report(p), UNCHANGED databaseVars PROVE IInv'
<1>1. /\ pass[p] = "report" /\ phase \in {"up", "stopping"} /\ phase' = phase
      /\ UNCHANGED <<runtimeVars, failures, stops>>
  BY DEF Report, At
<1>2. TrackerType /\ pass \in [Pools -> PassStates] /\ result \in [Pools -> Results]
  BY PoolTypes DEF IInv
<1>3. Reported(p) /\ Timed(p) /\ failures \in 0 .. MaxFailures
  BY DEF IInv, ServiceTypeOK
<1>4. /\ pass' \in [Pools -> PassStates] /\ pass'[p] = "sleep"
      /\ result' \in [Pools -> Results]
      /\ \A q \in Pools \ {p} : pass'[q] = pass[q] /\ result'[q] = result[q]
  BY <1>2 DEF Report, Move, Result, PassStates, Results
<1>5. /\ ~active'[p] /\ attempted'[p] /\ ~progress'[p] /\ ~passLate'[p] /\ ~stageLate'[p]
      /\ failed'[p] <=> result[p] # "ok"
  BY <1>2 DEF Report, PoolEnds, TrackerType
<1>6. TrackerType'
  BY <1>2 DEF Report, PoolEnds, TrackerType
<1>7. \A q \in Pools \ {p} :
          /\ active'[q] = active[q] /\ attempted'[q] = attempted[q]
          /\ failed'[q] = failed[q] /\ progress'[q] = progress[q]
          /\ passLate'[q] = passLate[q] /\ stageLate'[q] = stageLate[q]
  BY <1>2 DEF Report, PoolEnds, TrackerType
<1>8. Reported(p)' /\ Timed(p)'
  BY <1>1, <1>3, <1>4, <1>5 DEF Reported, Timed, runtimeVars, InPass
<1> QED BY <1>1, <1>3, <1>4, <1>6, <1>7, <1>8, QuietInv

\* StartPool, or a failure of it: the run may be on record all the same.
LEMMA OpenInv ==
    ASSUME IInv, NEW p \in Pools, Open(p), UNCHANGED databaseVars PROVE IInv'
<1>1. /\ pass[p] = "open" /\ phase \in {"up", "stopping"} /\ phase' = phase
      /\ UNCHANGED <<trackerVars, stops>>
  BY DEF Open, At
<1>2. /\ TrackerType /\ pass \in [Pools -> PassStates] /\ result \in [Pools -> Results]
      /\ run \in [Pools -> {"none", "running", "succeeded", "failed"}]
      /\ own \in [Pools -> BOOLEAN]
  BY PoolTypes DEF IInv
<1>3. Recorded(p) /\ Reported(p) /\ Timed(p)
  BY DEF IInv
<1>4. failures' \in 0 .. MaxFailures
  BY Budgets DEF IInv, Open, Responds, Fails
<1>5. \/ pass'[p] = "progress" /\ UNCHANGED result
      \/ pass'[p] = "report" /\ result' = [result EXCEPT ![p] = "persist"]
  BY <1>2 DEF Open, Move, Result
<1>6. /\ pass' \in [Pools -> PassStates] /\ result' \in [Pools -> Results]
      /\ \A q \in Pools \ {p} : pass'[q] = pass[q] /\ result'[q] = result[q]
  BY <1>2, <1>5 DEF Open, Move, PassStates, Results
<1>7. StartPool(p) \/ UNCHANGED runtimeVars
  BY DEF Open
<1>8. /\ UNCHANGED <<staged, link, incidents>>
      /\ (run'[p] = run[p] /\ own'[p] = own[p]) \/ (run'[p] = "running" /\ own'[p])
      /\ run' \in [Pools -> {"none", "running", "succeeded", "failed"}]
      /\ own' \in [Pools -> BOOLEAN]
      /\ \A q \in Pools \ {p} : run'[q] = run[q] /\ own'[q] = own[q]
  <2>1. CASE StartPool(p)
    <3>1. /\ run' = [run EXCEPT ![p] = "running"]
          /\ own' = [own EXCEPT ![p] = TRUE]
          /\ UNCHANGED <<staged, link, incidents>>
      BY <2>1 DEF StartPool
    <3>2. own' \in [Pools -> BOOLEAN] /\ \A q \in Pools \ {p} : own'[q] = own[q]
      BY <1>2, <3>1
    <3>3. run'[p] = "running" /\ own'[p] = TRUE
      BY <1>2, <3>1
    <3> QED BY <1>2, <3>1, <3>2, <3>3
  <2>2. CASE UNCHANGED runtimeVars
    <3>1. UNCHANGED <<run, own, staged, link, incidents>>
      BY <2>2 DEF runtimeVars
    <3>2. /\ own' \in [Pools -> BOOLEAN]
          /\ run' \in [Pools -> {"none", "running", "succeeded", "failed"}]
      BY <1>2, <3>1
    <3>3. \A q \in Pools : run'[q] = run[q] /\ own'[q] = own[q]
      BY <3>1
    <3> QED BY ONLY <3>1, <3>2, <3>3
  <2> QED BY <1>7, <2>1, <2>2
<1>9. RuntimeTypeOK' /\ TrackerTypeOK'
  BY <1>1, <1>8 DEF IInv, ServiceTypeOK, RuntimeTypeOK, TrackerTypeOK, trackerVars
<1>10. \A q \in Pools : OpenIncidents(q)' = OpenIncidents(q)
  BY <1>8 DEF OpenIncidents
<1>11. Recorded(p)' /\ Reported(p)' /\ Timed(p)'
  <2>1. Recorded(p)'
    BY <1>3, <1>8, <1>10 DEF Recorded
  <2>2. result'[p] = "persist" \/ pass'[p] = "progress"
    BY <1>2, <1>5
  <2>3. pass'[p] \in {"progress", "report"}
    BY <1>5
  <2>4. Reported(p)'
    BY <1>1, <1>3, <1>8, <2>2, <2>3 DEF Reported, trackerVars
  <2>5. Timed(p)'
    BY <1>1, <1>3, <2>3 DEF Timed, InPass, trackerVars
  <2> QED BY <2>1, <2>4, <2>5
<1>12. \A q \in Pools \ {p} : Untouched(q)
  BY <1>1, <1>6, <1>8, <1>10 DEF Untouched, trackerVars
<1> QED BY <1>1, <1>4, <1>6, <1>9, <1>11, <1>12, WorkerInv

\* A stage: the row and the tracker name it, nothing else changes.
LEMMA StageKept ==
    ASSUME IInv, NEW p \in Pools, ProgressPool(p), Progress(p)
    PROVE  /\ RuntimeTypeOK' /\ TrackerTypeOK'
           /\ UNCHANGED <<run, own, link, incidents, active, attempted, failed, passLate>>
           /\ progress'[p] /\ ~stageLate'[p]
           /\ \A q \in Pools \ {p} :
                  progress'[q] = progress[q] /\ stageLate'[q] = stageLate[q]
           /\ \A q \in Pools : OpenIncidents(q)' = OpenIncidents(q)
<1>1. TrackerType /\ staged \in [Pools -> BOOLEAN]
  BY PoolTypes DEF IInv
<1>2. UNCHANGED <<run, own, link, incidents, active, attempted, failed, passLate, overdue>>
  BY DEF ProgressPool, Progress
<1>3. staged' \in [Pools -> BOOLEAN]
  BY <1>1 DEF ProgressPool
<1>4. TrackerType' /\ progress'[p] /\ ~stageLate'[p]
  BY <1>1, <1>2 DEF Progress, TrackerType
<1>5. \A q \in Pools \ {p} :
          progress'[q] = progress[q] /\ stageLate'[q] = stageLate[q]
  BY <1>1 DEF Progress, TrackerType
<1>6. RuntimeTypeOK' /\ TrackerTypeOK'
  BY <1>2, <1>3, <1>4, TrackerTypes
     DEF IInv, ServiceTypeOK, RuntimeTypeOK, TrackerType, TrackerTypeOK
<1> QED BY <1>2, <1>4, <1>5, <1>6 DEF OpenIncidents

LEMMA NextStageInv ==
    ASSUME IInv, NEW p \in Pools, NextStage(p), UNCHANGED databaseVars PROVE IInv'
<1>1. /\ pass[p] = "work" /\ phase \in {"up", "stopping"} /\ ProgressPool(p) /\ Progress(p)
      /\ UNCHANGED <<phase, pass, result, failures, stops>>
  BY DEF NextStage, At, serviceVars
<1>2. Recorded(p) /\ Reported(p) /\ Timed(p)
  BY DEF IInv
<1>3. Recorded(p)' /\ Reported(p)' /\ Timed(p)'
  BY <1>1, <1>2, StageKept DEF Recorded, Reported, Timed, InPass
<1>4. \A q \in Pools \ {p} : Untouched(q)
  BY <1>1, StageKept DEF Untouched
<1>5. /\ pass' \in [Pools -> PassStates] /\ result' \in [Pools -> Results]
      /\ failures' \in 0 .. MaxFailures
  BY <1>1 DEF IInv, ServiceTypeOK
<1> QED BY <1>1, <1>3, <1>4, <1>5, StageKept, WorkerInv

LEMMA FirstProgressInv ==
    ASSUME IInv, NEW p \in Pools, FirstProgress(p), UNCHANGED databaseVars PROVE IInv'
<1>1. /\ pass[p] = "progress" /\ phase \in {"up", "stopping"} /\ phase' = phase
      /\ stops' = stops
  BY DEF FirstProgress, At
<1>2. TrackerType /\ pass \in [Pools -> PassStates] /\ result \in [Pools -> Results]
  BY PoolTypes DEF IInv
<1>3. Recorded(p) /\ Reported(p) /\ Timed(p)
  BY DEF IInv
<1>4. failures' \in 0 .. MaxFailures
  BY Budgets DEF IInv, FirstProgress, Responds, Fails
<1>5. CASE ProgressPool(p) /\ Progress(p) /\ Move(p, "work") /\ UNCHANGED result
  <2>1. /\ pass' \in [Pools -> PassStates] /\ pass'[p] = "work"
        /\ \A q \in Pools \ {p} : pass'[q] = pass[q]
    BY <1>2, <1>5 DEF Move, PassStates
  <2>2. Recorded(p)' /\ Reported(p)' /\ Timed(p)'
    BY <1>1, <1>3, <1>5, <2>1, StageKept DEF Recorded, Reported, Timed, InPass
  <2>3. \A q \in Pools \ {p} : Untouched(q)
    BY <1>5, <2>1, StageKept DEF Untouched
  <2> QED BY <1>1, <1>2, <1>4, <1>5, <2>1, <2>2, <2>3, StageKept, WorkerInv
<1>6. CASE /\ Result(p, "persist") /\ Move(p, "report")
           /\ UNCHANGED <<runtimeVars, trackerVars>>
  <2>1. /\ pass' \in [Pools -> PassStates] /\ pass'[p] = "report"
        /\ result' \in [Pools -> Results] /\ result'[p] = "persist"
        /\ \A q \in Pools \ {p} : pass'[q] = pass[q] /\ result'[q] = result[q]
    BY <1>2, <1>6 DEF Move, Result, PassStates, Results
  <2>2. Reported(p)'
    BY <1>1, <1>3, <1>6, <2>1 DEF Reported, runtimeVars, trackerVars
  <2>3. Timed(p)'
    BY <1>1, <1>3, <1>6, <2>1 DEF Timed, trackerVars, InPass
  <2> QED BY <1>1, <1>2, <1>4, <1>6, <2>1, <2>2, <2>3, QuietInv
          DEF TrackerType, trackerVars
<1> QED BY <1>5, <1>6 DEF FirstProgress

LEMMA ClockInv ==
    ASSUME IInv, NEW p \in Pools, Clock(p), UNCHANGED databaseVars,
           phase \in {"up", "stopping"}
    PROVE  IInv'
<1>1. UNCHANGED <<runtimeVars, phase, pass, result, stops, active, attempted, failed, progress>>
  BY DEF Clock, StageDeadline, NextPassOverdue, PassDeadline
<1>2. TrackerType /\ pass \in [Pools -> PassStates] /\ result \in [Pools -> Results]
  BY PoolTypes DEF IInv
<1>3. Reported(p) /\ Timed(p)
  BY DEF IInv
<1>4. failures' \in 0 .. MaxFailures
  BY Budgets DEF IInv, Clock
<1>5. /\ TrackerType'
      /\ stageLate'[p] => stageLate[p] \/ progress[p]
      /\ passLate'[p] => passLate[p] \/ active[p]
      /\ \A q \in Pools \ {p} :
             passLate'[q] = passLate[q] /\ stageLate'[q] = stageLate[q]
  <2>1. CASE StageDeadline(p)
    BY <1>2, <2>1 DEF StageDeadline, TrackerType
  <2>2. CASE NextPassOverdue(p)
    BY <1>2, <2>2 DEF NextPassOverdue, TrackerType
  <2>3. CASE PassDeadline(p)
    BY <1>2, <2>3 DEF PassDeadline, TrackerType
  <2> QED BY <2>1, <2>2, <2>3 DEF Clock
<1>6. Reported(p)' /\ Timed(p)'
  BY <1>1, <1>3, <1>5 DEF Reported, Timed, runtimeVars
<1> QED BY <1>1, <1>2, <1>4, <1>5, <1>6, QuietInv

\* FinishPool, and a FinishPool that fails: a pass whose result was lost is
\* reported as failed.
LEMMA FinishInv ==
    ASSUME IInv, NEW p \in Pools, Finish(p), UNCHANGED databaseVars PROVE IInv'
<1>1. /\ pass[p] = "finish" /\ phase \in {"up", "stopping"} /\ phase' = phase
      /\ UNCHANGED <<trackerVars, stops>>
  BY DEF Finish, At
<1>2. /\ TrackerType /\ pass \in [Pools -> PassStates] /\ result \in [Pools -> Results]
      /\ run \in [Pools -> {"none", "running", "succeeded", "failed"}]
      /\ own \in [Pools -> BOOLEAN] /\ staged \in [Pools -> BOOLEAN]
  BY PoolTypes DEF IInv
<1>3. Recorded(p) /\ Reported(p) /\ Timed(p) /\ RuntimeTypeOK /\ TrackerTypeOK
  BY DEF IInv, ServiceTypeOK
<1>4. failures' \in 0 .. MaxFailures
  BY Budgets DEF IInv, Finish
<1>5. /\ pass' \in [Pools -> PassStates] /\ pass'[p] = "report"
      /\ \A q \in Pools \ {p} : pass'[q] = pass[q]
  BY <1>2 DEF Finish, Move, PassStates
<1>6. TrackerTypeOK' /\ Timed(p)'
  BY <1>1, <1>3, <1>5 DEF TrackerTypeOK, Timed, InPass, trackerVars
<1>7. CASE UNCHANGED result /\ FinishSucceeded(p)
  <2>1. /\ run' = [run EXCEPT ![p] = "succeeded"]
        /\ staged' = [staged EXCEPT ![p] = FALSE] /\ own' = own
    BY <1>7 DEF FinishSucceeded
  <2>2. RuntimeTypeOK'
    BY <1>2, <1>3, <1>7, <2>1, SuccessRecorded DEF RuntimeTypeOK, Incident
  <2>3. run'[p] = "succeeded" /\ link'[p] = 0 /\ OpenIncidents(p)' = {}
    BY <1>2, <1>3, <1>7, <2>1, SuccessRecorded
  <2>4. Recorded(p)' /\ Reported(p)'
    BY <1>5, <2>3 DEF Recorded, Reported
  <2>5. \A q \in Pools \ {p} : Untouched(q)
    BY <1>1, <1>2, <1>3, <1>5, <1>7, <2>1, SuccessRecorded DEF Untouched, trackerVars
  <2> QED BY <1>1, <1>2, <1>4, <1>5, <1>6, <1>7, <2>2, <2>4, <2>5, WorkerInv
<1>8. CASE UNCHANGED result /\ result[p] # "ok" /\ FinishFailed(p, result[p])
  <2>1. /\ run' = [run EXCEPT ![p] = "failed"] /\ RecordIncident(p, result[p])
        /\ staged' = [staged EXCEPT ![p] = FALSE] /\ own' = own
    BY <1>8 DEF FinishFailed
  <2>2. OpenIncidents(p) = {link[p]} \ {0} /\ result[p] \in Causes
    BY <1>1, <1>3, <1>8 DEF Recorded, Reported
  <2>3. RuntimeTypeOK'
    BY <1>2, <1>3, <2>1, <2>2, FailureRecorded DEF RuntimeTypeOK, Incident
  <2>4. run'[p] = "failed" /\ link'[p] # 0 /\ OpenIncidents(p)' = {link'[p]}
    BY <1>2, <1>3, <2>1, <2>2, FailureRecorded
  <2>5. result'[p] # "ok" /\ (attempted'[p] /\ ~failed'[p] /\ link'[p] # 0 => pass'[p] = "report")
    BY <1>5, <1>8
  <2>6. Recorded(p)' /\ Reported(p)'
    BY <1>5, <2>4, <2>5 DEF Recorded, Reported
  <2>7. \A q \in Pools \ {p} : Untouched(q)
    BY <1>1, <1>2, <1>3, <1>5, <1>8, <2>1, <2>2, FailureRecorded
       DEF Untouched, trackerVars
  <2> QED BY <1>1, <1>2, <1>4, <1>5, <1>6, <1>8, <2>3, <2>6, <2>7, WorkerInv
<1>9. CASE /\ UNCHANGED runtimeVars
           /\ Result(p, IF result[p] = "ok" THEN "persist" ELSE result[p])
  <2>1. /\ result' \in [Pools -> Results] /\ result'[p] # "ok"
        /\ \A q \in Pools \ {p} : result'[q] = result[q]
    BY <1>2, <1>9 DEF Result, Results
  <2>2. Reported(p)'
    BY <1>1, <1>3, <1>5, <1>9, <2>1 DEF Reported, runtimeVars, trackerVars
  <2> QED BY <1>1, <1>2, <1>4, <1>5, <1>6, <1>9, <2>1, <2>2, QuietInv
          DEF TrackerType, trackerVars
<1> QED BY <1>7, <1>8, <1>9 DEF Finish

\* InterruptPools: a run found open is closed like one that failed.
LEMMA InterruptInv ==
    ASSUME IInv, NEW p \in Pools, InterruptPool(p) PROVE IInv'
<1>1. /\ phase = "starting" /\ phase' \in {"starting", "down"}
      /\ UNCHANGED <<trackerVars, databaseVars, pass, result, stops>>
  BY DEF InterruptPool
<1>2. /\ TrackerType /\ pass \in [Pools -> PassStates] /\ result \in [Pools -> Results]
      /\ run \in [Pools -> {"none", "running", "succeeded", "failed"}]
      /\ own \in [Pools -> BOOLEAN] /\ staged \in [Pools -> BOOLEAN]
  BY PoolTypes DEF IInv
<1>3. /\ Recorded(p) /\ Reported(p) /\ Timed(p) /\ RuntimeTypeOK /\ TrackerTypeOK
      /\ pass[p] = "off" /\ ~attempted[p]
  BY <1>1 DEF IInv, ServiceTypeOK, Asleep
<1>4. failures' \in 0 .. MaxFailures /\ stops' \in 0 .. MaxStops
  BY <1>1, Budgets DEF IInv, InterruptPool
<1>5. CASE FinishFailed(p, "interrupted") /\ UNCHANGED phase
  <2>1. /\ run' = [run EXCEPT ![p] = "failed"] /\ RecordIncident(p, "interrupted")
        /\ staged' = [staged EXCEPT ![p] = FALSE] /\ own' = own
    BY <1>5 DEF FinishFailed
  <2>2. OpenIncidents(p) = {link[p]} \ {0} /\ "interrupted" \in Causes
    BY <1>3 DEF Recorded, Causes
  <2>3. RuntimeTypeOK'
    BY <1>2, <1>3, <2>1, <2>2, FailureRecorded DEF RuntimeTypeOK, Incident
  <2>4. run'[p] = "failed" /\ link'[p] # 0 /\ OpenIncidents(p)' = {link'[p]}
    BY <1>2, <1>3, <2>1, <2>2, FailureRecorded
  <2>5. Recorded(p)'
    BY <2>4 DEF Recorded
  <2>6. Reported(p)'
    BY <1>1, <1>3, <2>4 DEF Reported, trackerVars
  <2>7. Timed(p)' /\ TrackerTypeOK'
    BY <1>1, <1>3 DEF Timed, TrackerTypeOK, trackerVars
  <2>8. \A q \in Pools \ {p} : Untouched(q)
    BY <1>1, <1>2, <1>3, <2>1, <2>2, FailureRecorded DEF Untouched, trackerVars
  <2>9. phase' = phase /\ pass'[p] = "off" /\ ~attempted'[p] /\ stops' = stops
    BY <1>1, <1>3, <1>5 DEF trackerVars
  <2> QED BY <1>1, <1>2, <1>4, <2>3, <2>5, <2>6, <2>7, <2>8, <2>9, WorkerInv
<1>6. CASE phase' = "down" /\ UNCHANGED runtimeVars
  <2>1. DatabaseTypeOK' /\ SchemaFollows'
    BY <1>1, <1>6 DEF IInv, ServiceTypeOK, DatabaseTypeOK, SchemaFollows,
       databaseVars, runtimeVars
  <2> QED BY <1>1, <1>4, <1>6, <2>1, PhaseInv
<1> QED BY <1>5, <1>6 DEF InterruptPool

\* One step per action.
LEMMA StepInv == IInv /\ [ServiceNext]_svars => IInv'
<1> SUFFICES ASSUME IInv, [ServiceNext]_svars PROVE IInv'
  OBVIOUS
<1>1. CASE Startup
  BY <1>1, BootInv, CreateSchemaInv, ServeInv, InterruptInv DEF Startup
<1>2. CASE Stop \/ Exit \/ Crash
  BY <1>2, StopInv, EndInv
<1>3. CASE \E p \in Pools : Worker(p)
  BY <1>3, BeginInv, OpenInv, FirstProgressInv, WorkEndsInv, FinishInv, ReportInv,
     WakeInv DEF Worker
<1>4. CASE \E p \in Pools : (NextStage(p) \/ Clock(p)) /\ UNCHANGED databaseVars
  <2>1. PICK p \in Pools : (NextStage(p) \/ Clock(p)) /\ UNCHANGED databaseVars
    BY <1>4
  <2>2. Clock(p) => phase \in {"up", "stopping"}
    BY DEF IInv, Clock, StageDeadline, NextPassOverdue, PassDeadline, Asleep, Timed, InPass
  <2> QED BY <2>1, <2>2, NextStageInv, ClockInv
<1>5. CASE UNCHANGED svars
  <2>1. UNCHANGED <<version, tables, columns, phase, incidents, run>>
    BY <1>5 DEF svars, databaseVars, runtimeVars, serviceVars
  <2>2. DatabaseTypeOK' /\ SchemaFollows'
    BY <2>1 DEF IInv, ServiceTypeOK, DatabaseTypeOK, SchemaFollows
  <2>3. /\ UNCHANGED <<runtimeVars, trackerVars, pass, result, phase>>
        /\ phase' \in {"down", "creating", "starting", "up", "stopping", "stopped"}
        /\ failures' \in 0 .. MaxFailures /\ stops' \in 0 .. MaxStops
    BY <1>5 DEF IInv, ServiceTypeOK, svars, serviceVars
  <2> QED BY <2>2, <2>3, PhaseInv
<1> QED BY <1>1, <1>2, <1>3, <1>4, <1>5 DEF ServiceNext

-----------------------------------------------------------------------------

\* Every reachable state satisfies the inductive invariant.
THEOREM ServiceInvariant == ServiceSpec => []IInv
BY InitInv, StepInv, PTL DEF ServiceSpec

\* However often it crashes, fails and restarts, a service keeps the types of
\* its tables and of its tracker.
THEOREM ServiceTypes == ServiceSpec => []ServiceTypeOK
<1>1. IInv => ServiceTypeOK
  BY DEF IInv
<1> QED BY <1>1, ServiceInvariant, PTL

\* The open incident of a pool is the one it points at, and its last result
\* tells whether there is one.
THEOREM IncidentsLinked == ServiceSpec => []IncidentLinked
<1>1. IInv => IncidentLinked
  BY DEF IInv, Recorded, IncidentLinked
<1> QED BY <1>1, ServiceInvariant, PTL

\* A serving process shows no run of an earlier one as running.
THEOREM NoStaleRuns == ServiceSpec => []NoStaleRun
<1>1. IInv => NoStaleRun
  BY DEF IInv, Reported, NoStaleRun
<1> QED BY <1>1, ServiceInvariant, PTL

\* A run whose result did not reach the database shows in /healthz.
THEOREM LostResultsShow == ServiceSpec => []LostResultShows
<1>1. IInv => LostResultShows
  BY DEF IInv, Reported, LostResultShows
<1> QED BY <1>1, ServiceInvariant, PTL

\* Healthy means that no incident is open, but for one about to be reported.
THEOREM HealthyMeansClean == ServiceSpec => []HealthyIsClean
<1>1. Condition = "healthy" => \A p \in Pools : attempted[p] /\ ~failed[p]
  BY DEF Condition
<1>2. IInv => HealthyIsClean
  BY <1>1 DEF IInv, Reported, HealthyIsClean
<1> QED BY <1>2, ServiceInvariant, PTL

\* Between two passes only the next one can be late.
THEOREM IdleNotStalled == ServiceSpec => []IdleIsNotStalled
<1>1. IInv => IdleIsNotStalled
  BY DEF IInv, Timed, IdleIsNotStalled, Late
<1> QED BY <1>1, ServiceInvariant, PTL

\* What runs has the whole schema, whatever was found and cut short.
THEOREM SchemaAlwaysWhole == ServiceSpec => []SchemaIsWhole
<1>1. IInv => SchemaIsWhole
  BY DEF IInv, SchemaFollows, SchemaIsWhole
<1> QED BY <1>1, ServiceInvariant, PTL

\* A file that is refused for good was never in use.
THEOREM RefusedNeverUsed == ServiceSpec => []RefusedIsUnused
<1>1. IInv => RefusedIsUnused
  BY DEF IInv, SchemaFollows, RefusedIsUnused, ServiceTypeOK, SchemaVersion
<1> QED BY <1>1, ServiceInvariant, PTL

-----------------------------------------------------------------------------
(* The history of incidents, and the way down: for every number of pools.   *)

\* A step which leaves the record alone.
LEMMA SameHistory ==
    ASSUME RuntimeTypeOK, incidents' = incidents
    PROVE  HistoryGrows
<1>1. incidents \in Seq(Incident) /\ Len(incidents) \in Nat
  BY RuntimeTypes
<1> QED BY <1>1 DEF HistoryGrows

\* Resolving changes which are open, and nothing else.
LEMMA ResolvedKeeps ==
    ASSUME RuntimeTypeOK, NEW p \in Pools
    PROVE  /\ Resolved(p) \in Seq(Incident)
           /\ Len(Resolved(p)) = Len(incidents)
           /\ \A k \in 1 .. Len(incidents) :
                  /\ incidents[k] \in Incident
                  /\ Resolved(p)[k].pool = incidents[k].pool
                  /\ Resolved(p)[k].cause = incidents[k].cause
                  /\ Resolved(p)[k].open <=> incidents[k].open /\ incidents[k].pool # p
<1>1. incidents \in Seq(Incident)
  BY RuntimeTypes
<1>2. DOMAIN incidents = 1 .. Len(incidents) /\ Len(incidents) \in Nat
  BY <1>1
<1>3. \A k \in 1 .. Len(incidents) : incidents[k] \in Incident
  BY <1>1
<1>4. \A k \in 1 .. Len(incidents) : Resolved(p)[k].cause = incidents[k].cause
  BY <1>2, <1>3 DEF Resolved, Incident
<1> QED BY <1>1, <1>3, <1>4, ResolvedType

LEMMA SuccessHistory ==
    ASSUME RuntimeTypeOK, NEW p \in Pools, FinishSucceeded(p)
    PROVE  HistoryGrows
<1>1. incidents' = Resolved(p) /\ run' = [run EXCEPT ![p] = "succeeded"]
  BY DEF FinishSucceeded
<1>2. run'[p] = "succeeded"
  BY <1>1, RuntimeTypes
<1>3. Len(incidents) \in Nat /\ Len(incidents') = Len(incidents)
  BY <1>1, ResolvedKeeps, RuntimeTypes
<1> QED BY <1>1, <1>2, <1>3, ResolvedKeeps DEF HistoryGrows

LEMMA FailureHistory ==
    ASSUME RuntimeTypeOK, NEW p \in Pools, NEW cause \in Causes, FinishFailed(p, cause)
    PROVE  HistoryGrows
<1>1. CASE UNCHANGED incidents
  BY <1>1, SameHistory
<1>2. CASE /\ \A k \in OpenIncidents(p) : incidents[k].cause # cause
           /\ incidents' =
                  Append(Resolved(p), [pool |-> p, cause |-> cause, open |-> TRUE])
           /\ link' = [link EXCEPT ![p] = Len(incidents')]
  <2> DEFINE new == [pool |-> p, cause |-> cause, open |-> TRUE]
  <2>1. new \in Incident
    BY DEF Incident
  <2>2. /\ Len(incidents) \in Nat /\ Len(incidents') = Len(incidents) + 1
        /\ DOMAIN incidents = 1 .. Len(incidents)
    BY <1>2, <2>1, ResolvedKeeps, RuntimeTypes
  <2>3. /\ incidents'[Len(incidents) + 1] = new
        /\ \A k \in 1 .. Len(incidents) : incidents'[k] = Resolved(p)[k]
    BY <1>2, <2>1, ResolvedKeeps
  <2>4. run'[p] = "failed" /\ link'[p] = Len(incidents) + 1
    BY <1>2, <2>2, RuntimeTypes DEF FinishFailed
  <2>5. incidents'[link'[p]].cause = cause
    BY <2>3, <2>4
  <2>6. \A k \in 1 .. Len(incidents) :
            incidents[k].open /\ incidents[k].pool = p => incidents[k].cause # cause
    BY <1>2, <2>2 DEF OpenIncidents
  <2>7. ASSUME NEW k \in 1 .. Len(incidents)
        PROVE  /\ incidents'[k].pool = incidents[k].pool
               /\ incidents'[k].cause = incidents[k].cause
               /\ incidents'[k].open <=> incidents[k].open /\ incidents[k].pool # p
    BY <2>3, ResolvedKeeps
  <2> QED BY <2>2, <2>4, <2>5, <2>6, <2>7 DEF HistoryGrows
<1> QED BY <1>1, <1>2 DEF FinishFailed, RecordIncident

LEMMA HistoryStep ==
    ASSUME IInv, [ServiceNext]_svars
    PROVE  HistoryGrows
<1>1. RuntimeTypeOK
  BY DEF IInv, ServiceTypeOK
<1>2. ASSUME NEW p \in Pools, Finish(p) PROVE HistoryGrows
  <2>1. Reported(p) /\ pass[p] = "finish"
    BY <1>2 DEF IInv, Finish, At
  <2>2. result[p] # "ok" => result[p] \in Causes
    BY <2>1 DEF Reported
  <2>3. UNCHANGED runtimeVars => HistoryGrows
    BY <1>1, SameHistory DEF runtimeVars
  <2> QED BY <1>1, <1>2, <2>2, <2>3, SuccessHistory, FailureHistory DEF Finish
<1>3. ASSUME NEW p \in Pools, InterruptPool(p) PROVE HistoryGrows
  <2>1. UNCHANGED runtimeVars => HistoryGrows
    BY <1>1, SameHistory DEF runtimeVars
  <2>2. "interrupted" \in Causes
    BY DEF Causes
  <2> QED BY <1>1, <1>3, <2>1, <2>2, FailureHistory DEF InterruptPool
<1>4. CASE Boot \/ CreateSchema \/ Serve \/ Stop \/ Exit \/ Crash \/ UNCHANGED svars
  <2>1. incidents' = incidents
    BY <1>4 DEF Boot, CreateSchema, Serve, Stop, Exit, Crash, Vanish, svars, runtimeVars
  <2> QED BY <1>1, <2>1, SameHistory
<1>5. ASSUME NEW p \in Pools,
             \/ Begin(p) \/ Open(p) \/ FirstProgress(p) \/ WorkEnds(p) \/ Report(p)
             \/ Wake(p) \/ NextStage(p) \/ Clock(p)
      PROVE  HistoryGrows
  <2>1. incidents' = incidents
    BY <1>5 DEF Begin, Open, FirstProgress, WorkEnds, Report, Wake, NextStage, Clock,
       StartPool, ProgressPool, runtimeVars
  <2> QED BY <1>1, <2>1, SameHistory
<1> QED BY <1>2, <1>3, <1>4, <1>5 DEF ServiceNext, Startup, Worker

\* Nothing that was on record about failures is lost, rewritten or reopened.
THEOREM HistoryIsKept == ServiceSpec => HistoryKept
<1>1. IInv /\ [ServiceNext]_svars => [HistoryGrows]_svars
  BY HistoryStep
<1> QED BY <1>1, ServiceInvariant, PTL DEF ServiceSpec, HistoryKept

LEMMA StepsLeftType == \A s : StepsLeft(s) \in 0 .. 6
BY DEF StepsLeft

\* A step of a worker whose context is canceled.
LEMMA CanceledAdvances ==
    ASSUME IInv, NEW p \in Pools, Worker(p), phase = "stopping"
    PROVE  /\ StepsLeft(pass'[p]) < StepsLeft(pass[p])
           /\ pass[p] = "work" => pass'[p] = "finish"
           /\ \A q \in Pools \ {p} : pass'[q] = pass[q]
<1>1. pass \in [Pools -> PassStates]
  BY DEF IInv, ServiceTypeOK
<1>2. CASE Begin(p) \/ Wake(p)
  BY <1>1, <1>2 DEF Begin, Wake, At, Move, StepsLeft
<1>3. CASE Open(p) \/ FirstProgress(p)
  BY <1>1, <1>3 DEF Open, FirstProgress, At, Move, Responds, Canceled, StepsLeft
<1>4. CASE WorkEnds(p) \/ Finish(p) \/ Report(p)
  BY <1>1, <1>4 DEF WorkEnds, Finish, Report, At, Move, StepsLeft
<1> QED BY <1>2, <1>3, <1>4 DEF Worker

\* A shutdown never waits for a worker that starts over.
THEOREM ShutdownsAdvance == ServiceSpec => ShutdownAdvances
<1>1. ASSUME IInv, [ServiceNext]_svars, phase = "stopping", phase' = "stopping"
      PROVE  /\ \A p \in Pools :
                    /\ StepsLeft(pass'[p]) <= StepsLeft(pass[p])
                    /\ pass[p] = "work" => pass'[p] \in {"work", "finish"}
             /\ (\E p \in Pools : Worker(p)) =>
                    \E p \in Pools : StepsLeft(pass'[p]) < StepsLeft(pass[p])
  <2>1. CASE \E p \in Pools : Worker(p)
    <3>1. PICK p \in Pools : Worker(p)
      BY <2>1
    <3>2. /\ StepsLeft(pass'[p]) < StepsLeft(pass[p])
          /\ pass[p] = "work" => pass'[p] = "finish"
          /\ \A q \in Pools \ {p} : pass'[q] = pass[q]
      BY <1>1, <3>1, CanceledAdvances
    <3>3. \A q \in Pools : StepsLeft(pass[q]) \in Nat /\ StepsLeft(pass'[q]) \in Nat
      BY StepsLeftType
    <3>4. \A q \in Pools \ {p} : StepsLeft(pass'[q]) <= StepsLeft(pass[q])
      BY <3>2, <3>3
    <3>5. StepsLeft(pass'[p]) <= StepsLeft(pass[p])
      BY <3>2, <3>3
    <3> QED BY <3>2, <3>4, <3>5
  <2>2. CASE ~\E p \in Pools : Worker(p)
    <3>1. UNCHANGED pass
      BY <1>1, <2>2 DEF ServiceNext, Startup, Boot, CreateSchema, Serve, InterruptPool,
         Stop, Exit, Crash, NextStage, Clock, serviceVars, svars
    <3>2. \A q \in Pools : StepsLeft(pass[q]) \in Nat
      BY StepsLeftType
    <3>3. \A q \in Pools : StepsLeft(pass'[q]) <= StepsLeft(pass[q])
      BY <3>1, <3>2
    <3> QED BY <2>2, <3>1, <3>3
  <2> QED BY <2>1, <2>2
<1>2. IInv /\ [ServiceNext]_svars =>
          [phase = "stopping" /\ phase' = "stopping" =>
               /\ \A p \in Pools :
                      /\ StepsLeft(pass'[p]) <= StepsLeft(pass[p])
                      /\ pass[p] = "work" => pass'[p] \in {"work", "finish"}
               /\ (\E p \in Pools : Worker(p)) =>
                      \E p \in Pools : StepsLeft(pass'[p]) < StepsLeft(pass[p])]_svars
  BY <1>1
<1> QED BY <1>2, ServiceInvariant, PTL DEF ServiceSpec, ShutdownAdvances

=============================================================================
