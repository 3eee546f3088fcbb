----------------------------- MODULE ArchiveRun -----------------------------
(***************************************************************************)
(* The archive of research tables.  A run exports every table to staged    *)
(* Parquet files while the runtime goes on writing, compares what it       *)
(* staged with the source and the source file with its hash at the         *)
(* beginning, publishes the files one by one and then its manifest.  A     *)
(* run is named after that hash, so an earlier run that died may have left *)
(* files of the same name; writes that are still in the WAL do not change  *)
(* the hash.                                                               *)
(* What a table holds is the number of changes its report shows: row       *)
(* counts, time range, NULLs, numeric sums and the digest of the primary   *)
(* keys.  An update of text alone shows in none of them.  Rows are not     *)
(* deleted from research tables, so a report does not come back.           *)
(***************************************************************************)
EXTENDS Integers, Sequences, FiniteSets

CONSTANTS
    Tables,     \* 1..n: the tables of the run, in the order of their names
    None

VARIABLES
    source,     \* what a reader of the database sees, by table
    hash,       \* of the main file: a number that changes with its content
    run,        \* the archive command that runs, None
    archive,    \* the published files: [id, table, content]
    complete,   \* the COMPLETE manifests: [id, tables]
    history     \* ghost: every state the source has been in

archiveVars == <<source, hash, run, archive, complete, history>>

ArchiveInit ==
    /\ source = [t \in Tables |-> 0]
    /\ hash = 0
    /\ run = None /\ archive = {} /\ complete = {}
    /\ history = {source}

\* Whether anything is named after the hash; if not, a new one is as good.
Named == run # None \/ \E f \in archive : f.id = hash

\* A transaction that touches some of the tables, or none of them, and may
\* take the WAL into the main file.
Commit(touched) ==
    /\ source' = [t \in Tables |-> IF t \in touched THEN source[t] + 1 ELSE source[t]]
    /\ hash' \in IF Named THEN {hash, hash + 1} ELSE {hash}
    /\ history' = history \cup {source'}
    /\ UNCHANGED <<run, archive, complete>>

\* archive_database: a run whose manifest is COMPLETE is only verified again.
ArchiveBegin(free) ==
    /\ free # "low"
    /\ ~\E m \in complete : m.id = hash
    /\ run' = [id |-> hash, staged |-> <<>>, verified |-> 0, published |-> 0]
    /\ UNCHANGED <<source, hash, archive, complete, history>>

\* _collect_table_report, of the source, and _report_from_archive_rows, of a
\* staged file that is read again.
SourceReport(t) == source[t]
StagedReport(t) == run.staged[t]

StagedAll == run # None /\ Len(run.staged) = Cardinality(Tables)

\* _write_table_staging: each table is read on its own.
Stage ==
    /\ run # None /\ ~StagedAll
    /\ run' = [run EXCEPT !.staged = Append(@, SourceReport(Len(@) + 1))]
    /\ UNCHANGED <<source, hash, archive, complete, history>>

\* Mutant: the staged files are only compared with their own manifest.
VerifyNoSource ==
    /\ StagedAll /\ run.verified < Len(run.staged)
    /\ run' = [run EXCEPT !.verified = @ + 1]
    /\ UNCHANGED <<source, hash, archive, complete, history>>

\* verify_manifest: the report of each table is taken from the source again ...
VerifyTable ==
    /\ StagedAll /\ run.verified < Len(run.staged)
    /\ SourceReport(run.verified + 1) = StagedReport(run.verified + 1)
    /\ run' = [run EXCEPT !.verified = @ + 1]
    /\ UNCHANGED <<source, hash, archive, complete, history>>

\* ... and at the end the hash of the main file.
VerifyFile ==
    /\ StagedAll /\ run.verified = Len(run.staged)
    /\ hash = run.id
    /\ run' = [run EXCEPT !.verified = @ + 1]
    /\ UNCHANGED <<source, hash, archive, complete, history>>

Verified == StagedAll /\ run.verified = Len(run.staged) + 1

\* What lies at the target of the file that is published next.
NextFile == [id |-> run.id, table |-> run.published + 1, content |-> StagedReport(run.published + 1)]
AtTarget == {f \in archive : f.id = run.id /\ f.table = run.published + 1}

\* _publish_staged_files: an existing file is kept if it is the same.
Publish ==
    /\ Verified /\ run.published < Len(run.staged)
    /\ AtTarget \subseteq {NextFile}
    /\ archive' = archive \cup {NextFile}
    /\ run' = [run EXCEPT !.published = @ + 1]
    /\ UNCHANGED <<source, hash, complete, history>>

Complete ==
    /\ Verified /\ run.published = Len(run.staged)
    /\ complete' = complete \cup {[id |-> run.id, tables |-> run.staged]}
    /\ run' = None
    /\ UNCHANGED <<source, hash, archive, history>>

\* A comparison fails, a divergent file is in the way, or the process dies.
ArchiveEnds ==
    /\ run # None /\ run' = None
    /\ UNCHANGED <<source, hash, archive, complete, history>>

Archive == Stage \/ VerifyTable \/ VerifyFile \/ Publish \/ Complete \/ ArchiveEnds

(***************************************************************************)
(* Properties.                                                             *)
(***************************************************************************)
ArchiveTypeOK ==
    /\ source \in [Tables -> Nat] /\ history \subseteq [Tables -> Nat]
    /\ hash \in Nat
    /\ archive \subseteq [id : Nat, table : Tables, content : Nat]
    /\ complete \subseteq [id : Nat, tables : Seq(Nat)]
    /\ run # None => run \in [id : Nat, staged : Seq(Nat), verified : Nat, published : Nat]

\* A COMPLETE manifest stands for one state the source was in, although its
\* tables were read one after the other while the runtime wrote; and the files
\* under its name hold just that, although runs of the same name may have died
\* after publishing some of theirs.
ArchiveIsSnapshot ==
    \A m \in complete :
        /\ m.tables \in history
        /\ \A t \in Tables : {f.content : f \in {g \in archive : g.id = m.id /\ g.table = t}} = {m.tables[t]}
=============================================================================
