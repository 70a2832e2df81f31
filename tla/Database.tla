------------------------------ MODULE Database ------------------------------
(***************************************************************************)
(* internal/store, schema.go: how far the database file has come.  A new   *)
(* one is created statement by statement, each in a transaction of its     *)
(* own; one of version 1 is migrated in a single transaction.              *)
(***************************************************************************)
EXTENDS Naturals

VARIABLES
    version,    \* user_version
    tables,     \* the tables that exist
    columns     \* pool_runtime has the columns of version 2

databaseVars == <<version, tables, columns>>

SchemaVersion == 2

\* In the order of schema().
Tables == {"instances", "instance_events", "pool_incidents", "pool_runtime"}
Before(table) ==
    CASE table = "instances"       -> {}
      [] table = "instance_events" -> {"instances"}
      [] table = "pool_incidents"  -> {"instances", "instance_events"}
      [] table = "pool_runtime"    -> Tables \ {"pool_runtime"}

\* The tables initialize looks for: pool_status is of a release that did not
\* stamp a version yet.
KnownTables == Tables \union {"pool_status"}

Unversioned == "pool_status" \in tables

DatabaseTypeOK ==
    /\ version \in 0 .. SchemaVersion + 1
    /\ tables \subseteq KnownTables
    /\ columns \in BOOLEAN

\* No file yet, or that of a release without versions, of an earlier one, of this
\* one, or of a later one.
DatabaseInit ==
    \/ version = 0 /\ tables = {} /\ columns = FALSE
    \/ version = 0 /\ tables = {"instances", "pool_status"} /\ columns = FALSE
    \/ version = 1 /\ tables = Tables /\ columns = FALSE
    \/ version \in {2, 3} /\ tables = Tables /\ columns = TRUE

\* What initialize finds.
Current == version = SchemaVersion
Earlier == version = 1
Empty == version = 0 /\ tables = {}
Refused == version > SchemaVersion \/ (version = 0 /\ tables # {})

\* A slip: the version is stamped first, outside of a transaction.
MigrateV1Unprotected(commits) ==
    /\ version' = SchemaVersion
    /\ columns' = commits
    /\ UNCHANGED tables

\* migrateV1: commits, or leaves nothing behind.
MigrateV1(commits) ==
    /\ version' = IF commits THEN SchemaVersion ELSE version
    /\ columns' = (columns \/ commits)
    /\ UNCHANGED tables

CreateTable(table) ==
    /\ table \notin tables /\ Before(table) \subseteq tables
    /\ tables' = tables \union {table}
    /\ columns' = (columns \/ table = "pool_runtime")
    /\ UNCHANGED version

\* A slip: the tables are created, the version is not stamped.
StampForgotten ==
    /\ tables = Tables
    /\ UNCHANGED databaseVars

Stamp ==
    /\ tables = Tables
    /\ version' = SchemaVersion
    /\ UNCHANGED <<tables, columns>>
=============================================================================
