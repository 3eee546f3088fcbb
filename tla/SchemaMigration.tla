-------------------------- MODULE SchemaMigration --------------------------
(***************************************************************************)
(* The explicit schema migration, which the operator runs while the        *)
(* runtime may be up, and the validation in front of every start of the    *)
(* runtime.  The driver commits each CREATE and ALTER at once and opens a  *)
(* transaction only at the first INSERT, so a migration that fails or dies *)
(* leaves what it had done before that.                                    *)
(* The schema is its version, how many of its tables exist, and the form   *)
(* of the provenance table: with the old CHECK constraint, renamed away,   *)
(* split between an empty new table and the renamed one, or new.           *)
(***************************************************************************)
EXTENDS Integers, FiniteSets

CONSTANT Signals     \* 1..n: the identities of signals

VARIABLES
    version,     \* PRAGMA user_version: 0 legacy, 1 current
    tables,      \* "none", "some", "all"
    provenance,  \* "none", "old", "renamed", "split", "new"
    live,        \* rows of signal_provenance
    legacy,      \* rows of signal_provenance_legacy
    migration,   \* what the migration that runs is doing, "off"
    up           \* whether a runtime holds the instance fence

schemaVars == <<version, tables, provenance, live, legacy, migration, up>>

SchemaInit ==
    /\ \/ version = 0 /\ tables = "none" /\ provenance = "none"
       \/ version \in {0, 1} /\ tables = "all" /\ provenance = "old"
    /\ live = {} /\ legacy = {}
    /\ migration = "off" /\ up = FALSE

(***************************************************************************)
(* Validation.                                                             *)
(***************************************************************************)
\* structure_valid: the split table has no indexes and its other half is an
\* unexpected table; a CHECK constraint is not looked at.
StructureValid == tables = "all" /\ provenance \in {"old", "new"}

\* Mutant: validation asks for the tables and the version only.
ValidByName == tables = "all" /\ provenance # "renamed" /\ version = 1

\* assert_schema_current.
Valid == StructureValid /\ version = 1

(***************************************************************************)
(* The runtime.                                                            *)
(***************************************************************************)
\* run_fenced and startup.
StartRuntime ==
    /\ ~up /\ Valid
    /\ up' = TRUE
    /\ UNCHANGED <<version, tables, provenance, live, legacy, migration>>

StopRuntime ==
    /\ up /\ up' = FALSE
    /\ UNCHANGED <<version, tables, provenance, live, legacy, migration>>

NextSignal == Cardinality(live \cup legacy) + 1

\* The transaction that saves a signal needs the provenance table.
SaveSignal ==
    /\ up /\ provenance # "renamed"
    /\ NextSignal \in Signals /\ live' = live \cup {NextSignal}
    /\ UNCHANGED <<version, tables, provenance, legacy, migration, up>>

(***************************************************************************)
(* migrate_db --apply.                                                     *)
(***************************************************************************)
\* guarded_copy needs room for the backup; --bootstrap goes without one.
MigrateBegin(free) ==
    /\ \E backup \in BOOLEAN : backup => free # "low"
    /\ migration' = IF provenance = "old" THEN "rename"
                    ELSE IF tables = "none" /\ version = 0 THEN "bootstrap" ELSE "validate"
    /\ UNCHANGED <<version, tables, provenance, live, legacy, up>>

\* _ensure_trapped_longs_provenance_constraint.
Rename ==
    /\ migration = "rename" /\ migration' = "create"
    /\ provenance' = "renamed" /\ legacy' = live /\ live' = {}
    /\ UNCHANGED <<version, tables, up>>

Create ==
    /\ migration = "create" /\ migration' = "copy"
    /\ provenance' = "split"
    /\ UNCHANGED <<version, tables, live, legacy, up>>

\* From the INSERT to the version: one transaction.
Copy ==
    /\ migration = "copy" /\ tables = "all" /\ migration' = "off"
    /\ live' = live \cup legacy /\ legacy' = {}
    /\ provenance' = "new" /\ version' = 1
    /\ UNCHANGED <<tables, up>>

\* _create_fresh_schema, table by table.
Bootstrap ==
    /\ migration = "bootstrap"
    /\ \/ tables = "none" /\ tables' = "some" /\ UNCHANGED <<provenance, migration>>
       \/ /\ tables = "some" /\ tables' = "all"
          /\ provenance' = "new" /\ migration' = "validate"
    /\ UNCHANGED <<version, live, legacy, up>>

\* Adoption of a structure that is whole.
Stamp ==
    /\ migration = "validate" /\ StructureValid
    /\ version' = 1 /\ migration' = "off"
    /\ UNCHANGED <<tables, provenance, live, legacy, up>>

\* The validation fails, a statement fails, or the process dies.
MigrationEnds ==
    /\ migration # "off" /\ migration' = "off"
    /\ UNCHANGED <<version, tables, provenance, live, legacy, up>>

Migrate == Rename \/ Create \/ Copy \/ Bootstrap \/ Stamp \/ MigrationEnds

(***************************************************************************)
(* Properties.                                                             *)
(***************************************************************************)
SchemaTypeOK ==
    /\ version \in {0, 1} /\ tables \in {"none", "some", "all"}
    /\ provenance \in {"none", "old", "renamed", "split", "new"}
    /\ {live, legacy} \subseteq SUBSET Signals
    /\ migration \in {"off", "rename", "create", "copy", "bootstrap", "validate"}
    /\ up \in BOOLEAN

\* A migration that dies may leave provenance rows in the renamed table.  No
\* row is lost by that, and no runtime starts that would not see them.
ProvenanceInSight ==
    [][/\ live \cup legacy \subseteq live' \cup legacy'
       /\ up' /\ ~up => legacy' = {}]_schemaVars
=============================================================================
