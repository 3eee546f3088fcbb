------------------------- MODULE StorageOperations -------------------------
(***************************************************************************)
(* The storage of one machine in operation: the runtime, which holds the   *)
(* instance fence, writes the database and the spool, and the operator     *)
(* compacts the spool, archives research tables and migrates the schema,   *)
(* one command at a time, none of which takes the fence.  All of them look *)
(* at the same disk and, the spool apart, at the same database file.       *)
(***************************************************************************)
EXTENDS ResearchSpool, ArchiveRun, SchemaMigration

CONSTANTS
    MaxWork,       \* bound: writes of the runtime
    MaxCommands,   \* bound: commands of the operator
    MaxStops       \* bound: ends of the runtime

VARIABLES work, commands, stops

vars == <<spoolVars, archiveVars, schemaVars, work, commands, stops>>

ASSUME OperationsAssumption ==
    /\ IsFiniteSet(Segments) /\ Segments # {} /\ Segments = 1..Cardinality(Segments)
    /\ IsFiniteSet(Tables) /\ Tables # {} /\ Tables = 1..Cardinality(Tables)
    /\ Months \subseteq Nat
    /\ {Budget, MaxRolls, RowLimit, MaxWork, MaxCommands, MaxStops} \subseteq Nat

\* The free space, which each guard reads anew: "low" is below the reserve.
Levels == {"ample", "tight", "low"}

Init ==
    /\ SpoolInit /\ ArchiveInit /\ SchemaInit
    /\ work = 0 /\ commands = 0 /\ stops = 0

TypeOK ==
    /\ SpoolTypeOK /\ ArchiveTypeOK /\ SchemaTypeOK
    /\ work \in 0..MaxWork /\ commands \in 0..MaxCommands /\ stops \in 0..MaxStops

(***************************************************************************)
(* The runtime.                                                            *)
(***************************************************************************)
Work == up /\ work < MaxWork /\ work' = work + 1

Start ==
    /\ StartRuntime
    /\ UNCHANGED <<spoolVars, archiveVars, work, commands, stops>>

\* The service manager waits ten seconds before the next start.
Stop ==
    /\ stops < MaxStops /\ stops' = stops + 1
    /\ StopRuntime /\ Commit({})
    /\ now' \in Later
    /\ UNCHANGED <<open, sealed, acked, hasty, replaced, job, parquet, manifests, work, commands>>

Spool ==
    /\ Work
    /\ \E second \in {now} \cup Later, month \in Months, free \in Levels, shadow \in BOOLEAN :
        AppendRecord(second, month, free, shadow)
    /\ UNCHANGED <<archiveVars, schemaVars, commands, stops>>

Save ==
    /\ Work /\ SaveSignal /\ Commit({})
    /\ UNCHANGED <<spoolVars, commands, stops>>

\* What changed before the first run is part of the initial state.
Observe ==
    /\ Work /\ (run # None \/ archive # {})
    /\ \E touched \in SUBSET Tables \ {{}} : Commit(touched)
    /\ UNCHANGED <<spoolVars, schemaVars, commands, stops>>

(***************************************************************************)
(* The operator.                                                           *)
(***************************************************************************)
Command ==
    /\ ~Compacting /\ run = None /\ migration = "off"
    /\ commands < MaxCommands /\ commands' = commands + 1

Seal ==
    /\ SealSegment
    /\ UNCHANGED <<archiveVars, schemaVars, work, commands, stops>>

CompactCommand ==
    /\ Command /\ CompactBegin
    /\ UNCHANGED <<archiveVars, schemaVars, work, stops>>

ArchiveCommand ==
    /\ Command /\ tables = "all" /\ \E free \in Levels : ArchiveBegin(free)
    /\ UNCHANGED <<spoolVars, schemaVars, work, stops>>

MigrateCommand ==
    /\ Command /\ \E free \in Levels : MigrateBegin(free)
    /\ UNCHANGED <<spoolVars, archiveVars, work, stops>>

CompactStep ==
    /\ Compact
    /\ UNCHANGED <<archiveVars, schemaVars, work, commands, stops>>

ArchiveStep ==
    /\ Archive
    /\ UNCHANGED <<spoolVars, schemaVars, work, commands, stops>>

MigrateStep ==
    /\ Migrate /\ Commit({})
    /\ UNCHANGED <<spoolVars, work, commands, stops>>

Next ==
    \/ Start \/ Stop \/ Spool \/ Save \/ Observe
    \/ Seal \/ CompactCommand \/ ArchiveCommand \/ MigrateCommand
    \/ CompactStep \/ ArchiveStep \/ MigrateStep

Spec == Init /\ [][Next]_vars
=============================================================================
