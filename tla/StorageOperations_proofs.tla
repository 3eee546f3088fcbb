---------------------- MODULE StorageOperations_proofs ----------------------
(***************************************************************************)
(* Proofs about the storage of one machine, for any number of seconds,     *)
(* tables, writes, commands and stops.                                     *)
(*                                                                         *)
(* The three parts share no variable but the steps of the composition, so  *)
(* each has an invariant of its own: what a segment and its outputs have   *)
(* to do with the compaction that writes them, what a run has staged with  *)
(* the states the source was in, and what a migration is about to do with  *)
(* the form of the provenance table.                                       *)
(***************************************************************************)
EXTENDS StorageOperations, FiniteSetTheorems, TLAPS

(***************************************************************************)
(* The inductive invariants.                                               *)
(***************************************************************************)
\* A name that was not sealed within its second is sealed once: nothing is
\* appended to it any more.
SegmentsOK ==
    /\ IsFiniteSet(acked)
    /\ \A g \in Names :
         /\ open[g].form # "none" => g[1] <= now
         /\ sealed[g].form = "none" => sealed[g].rows = {}
         /\ g \notin hasty /\ sealed[g].form # "none" =>
              open[g].form = "none" /\ (g[2] = Plain => g[1] < now)

\* The outputs named after the hashed content hold all loaded rows of a month.
Written(m) ==
    \A r \in job.rows : r.month = m =>
        \E p \in parquet : p.id = job.id /\ p.month = m /\ r \in p.rows

\* The segment a compaction is at still has the rows it loaded, unless it was
\* replaced; it has written what it says, and lists it only when that is all.
JobOK ==
    /\ Holding /\ job.at \notin replaced =>
         sealed[job.at].form # "none" /\ sealed[job.at].rows = job.rows
    /\ job.id = NoFile => job.mine = {}
    /\ job.mine \subseteq JobMonths
    /\ \A m \in job.mine : Written(m)
    /\ Hashed /\ job.mine # JobMonths => job.id \notin manifests
    /\ job.writing => Hashed /\ job.mine # JobMonths

SpoolInv == SpoolTypeOK /\ SegmentsOK /\ JobOK /\ SpoolKeepsRecords

\* What a table reports only grows.
HistoryOK ==
    /\ source \in history
    /\ \A h \in history : \A t \in Tables : h[t] <= source[t]

\* A run goes table by table, and through its phases in order.
ProgressOK ==
    /\ Len(run.staged) <= Cardinality(Tables)
    /\ run.verified > 0 => StagedAll
    /\ run.verified <= Len(run.staged) + 1
    /\ run.published > 0 => Verified
    /\ run.published <= Len(run.staged)

\* When all tables are staged there is one state of the source between what
\* was staged and what the source holds now; a table that has been compared
\* was staged in that state.
SnapshotOK ==
    /\ \A t \in 1..Len(run.staged) : run.staged[t] <= source[t]
    /\ StagedAll => \E h \in history : \A t \in Tables :
         /\ run.staged[t] <= h[t]
         /\ t <= run.verified => h[t] = run.staged[t]

\* The published files of a name and a table hold one content.
Holds(id, t, content) ==
    /\ \E f \in archive : f.id = id /\ f.table = t
    /\ \A f \in archive : f.id = id /\ f.table = t => f.content = content

PublishedOK ==
    /\ \A m \in complete : m.id # run.id
    /\ \A t \in 1..run.published : Holds(run.id, t, run.staged[t])

CompleteOK ==
    \A m \in complete :
        /\ m.tables \in history
        /\ \A t \in Tables : Holds(m.id, t, m.tables[t])

ArchiveInv ==
    /\ ArchiveTypeOK /\ HistoryOK /\ CompleteOK
    /\ run # None => ProgressOK /\ SnapshotOK /\ PublishedOK

\* Rows lie in the renamed table only while it exists, and the step a
\* migration takes next finds the table in the form it expects.
SchemaInv ==
    /\ SchemaTypeOK
    /\ tables # "all" => provenance = "none"
    /\ provenance \in {"none", "old", "new"} => legacy = {}
    /\ migration = "rename" => provenance = "old"
    /\ migration = "create" => provenance = "renamed"
    /\ migration = "copy" => provenance = "split"
    /\ migration = "bootstrap" => provenance = "none"

StorageInv == TypeOK /\ SpoolInv /\ ArchiveInv /\ SchemaInv

-----------------------------------------------------------------------------
(***************************************************************************)
(* The schema.                                                             *)
(***************************************************************************)
LEMMA SchemaInit0 == SchemaInit => SchemaInv
BY DEF SchemaInit, SchemaInv, SchemaTypeOK

\* Every step of the composition is one of the schema's, or leaves it alone.
SchemaNext ==
    \/ StartRuntime \/ StopRuntime \/ SaveSignal \/ Migrate
    \/ \E free \in Levels : migration = "off" /\ MigrateBegin(free)
    \/ UNCHANGED schemaVars

LEMMA SchemaStep == [Next]_vars => SchemaNext
<1> SUFFICES ASSUME [Next]_vars PROVE SchemaNext
  OBVIOUS
<1>1. CASE Start \/ Stop \/ Save
  BY <1>1 DEF Start, Stop, Save, SchemaNext
<1>2. CASE Spool \/ Observe \/ Seal \/ CompactCommand \/ ArchiveCommand
  BY <1>2 DEF Spool, Observe, Seal, CompactCommand, ArchiveCommand, SchemaNext
<1>3. CASE MigrateCommand
  BY <1>3 DEF MigrateCommand, Command, SchemaNext
<1>4. CASE CompactStep \/ ArchiveStep \/ MigrateStep
  BY <1>4 DEF CompactStep, ArchiveStep, MigrateStep, SchemaNext
<1>5. CASE UNCHANGED vars
  BY <1>5 DEF vars, SchemaNext
<1> QED
  BY <1>1, <1>2, <1>3, <1>4, <1>5 DEF Next

LEMMA SchemaInvStep == SchemaInv /\ SchemaNext => SchemaInv'
<1> SUFFICES ASSUME SchemaInv, SchemaNext PROVE SchemaInv'
  OBVIOUS
<1> USE DEF SchemaInv, SchemaTypeOK
<1>1. CASE StartRuntime \/ StopRuntime
  BY <1>1 DEF StartRuntime, StopRuntime
<1>2. CASE SaveSignal
  BY <1>2 DEF SaveSignal
<1>3. CASE \E free \in Levels : migration = "off" /\ MigrateBegin(free)
  BY <1>3 DEF MigrateBegin
<1>4. CASE Migrate
  <2>1. CASE Rename
    BY <2>1 DEF Rename
  <2>2. CASE Create
    BY <2>2 DEF Create
  <2>3. CASE Copy
    BY <2>3 DEF Copy
  <2>4. CASE Bootstrap
    BY <2>4 DEF Bootstrap
  <2>5. CASE Stamp \/ MigrationEnds
    BY <2>5 DEF Stamp, MigrationEnds
  <2> QED
    BY <1>4, <2>1, <2>2, <2>3, <2>4, <2>5 DEF Migrate
<1>5. CASE UNCHANGED schemaVars
  BY <1>5 DEF schemaVars
<1> QED
  BY <1>1, <1>2, <1>3, <1>4, <1>5 DEF SchemaNext

\* What ProvenanceInSight says of a step.
InSight == live \cup legacy \subseteq live' \cup legacy' /\ (up' /\ ~up => legacy' = {})

LEMMA SchemaStepInSight == SchemaInv /\ SchemaNext => InSight
<1> SUFFICES ASSUME SchemaInv, SchemaNext PROVE InSight
  OBVIOUS
<1> USE DEF SchemaInv, SchemaTypeOK, InSight
<1>1. CASE StartRuntime
  BY <1>1 DEF StartRuntime, Valid, StructureValid
<1>2. CASE StopRuntime \/ SaveSignal
  BY <1>2 DEF StopRuntime, SaveSignal
<1>3. CASE \E free \in Levels : migration = "off" /\ MigrateBegin(free)
  BY <1>3 DEF MigrateBegin
<1>4. CASE Migrate
  BY <1>4 DEF Migrate, Rename, Create, Copy, Bootstrap, Stamp, MigrationEnds
<1>5. CASE UNCHANGED schemaVars
  BY <1>5 DEF schemaVars
<1> QED
  BY <1>1, <1>2, <1>3, <1>4, <1>5 DEF SchemaNext

-----------------------------------------------------------------------------
(***************************************************************************)
(* The archive.                                                            *)
(***************************************************************************)
ArchiveNext ==
    \/ \E touched \in SUBSET Tables : Commit(touched)
    \/ \E free \in Levels : run = None /\ ArchiveBegin(free)
    \/ Archive
    \/ UNCHANGED archiveVars

LEMMA ArchiveStepOfNext == [Next]_vars => ArchiveNext
<1> SUFFICES ASSUME [Next]_vars PROVE ArchiveNext
  OBVIOUS
<1>1. CASE Stop \/ Save \/ Observe
  <2>1. \E touched \in SUBSET Tables : Commit(touched)
    BY <1>1 DEF Stop, Save, Observe
  <2> QED
    BY <2>1 DEF ArchiveNext
<1>2. CASE Start \/ Spool \/ Seal \/ CompactCommand \/ MigrateCommand
  BY <1>2 DEF Start, Spool, Seal, CompactCommand, MigrateCommand, ArchiveNext
<1>3. CASE ArchiveCommand
  BY <1>3 DEF ArchiveCommand, Command, ArchiveNext
<1>4. CASE CompactStep \/ ArchiveStep
  BY <1>4 DEF CompactStep, ArchiveStep, ArchiveNext
<1>5. CASE MigrateStep
  <2>1. \E touched \in SUBSET Tables : Commit(touched)
    BY <1>5 DEF MigrateStep
  <2> QED
    BY <2>1 DEF ArchiveNext
<1>6. CASE UNCHANGED vars
  BY <1>6 DEF vars, ArchiveNext
<1> QED
  BY <1>1, <1>2, <1>3, <1>4, <1>5, <1>6 DEF Next

LEMMA TablesOK == Cardinality(Tables) \in Nat /\ Tables = 1..Cardinality(Tables)
BY OperationsAssumption, FS_CardinalityType

\* A run, and what a step of it changes.
RunType == [id : Nat, staged : Seq(Nat), verified : Nat, published : Nat]

LEMMA RunStaged ==
  ASSUME NEW r \in RunType, NEW q \in Seq(Nat), NEW s, s = [r EXCEPT !.staged = q]
  PROVE  /\ s \in RunType /\ s.staged = q
         /\ s.id = r.id /\ s.verified = r.verified /\ s.published = r.published
BY DEF RunType

LEMMA RunVerified ==
  ASSUME NEW r \in RunType, NEW n \in Nat, NEW s, s = [r EXCEPT !.verified = n]
  PROVE  /\ s \in RunType /\ s.staged = r.staged
         /\ s.id = r.id /\ s.verified = n /\ s.published = r.published
BY DEF RunType

LEMMA RunPublished ==
  ASSUME NEW r \in RunType, NEW n \in Nat, NEW s, s = [r EXCEPT !.published = n]
  PROVE  /\ s \in RunType /\ s.staged = r.staged
         /\ s.id = r.id /\ s.verified = r.verified /\ s.published = n
BY DEF RunType

LEMMA RunTypeOK ==
  ASSUME ArchiveInv, run # None
  PROVE  /\ run \in RunType
         /\ run.id \in Nat /\ run.staged \in Seq(Nat) /\ Len(run.staged) \in Nat
         /\ run.verified \in Nat /\ run.published \in Nat
         /\ \A t \in 1..Len(run.staged) : run.staged[t] \in Nat
<1>1. run \in RunType
  BY DEF ArchiveInv, ArchiveTypeOK, RunType
<1> QED
  BY <1>1 DEF RunType

LEMMA ArchiveInit0 == ArchiveInit => ArchiveInv
BY DEF ArchiveInit, ArchiveInv, ArchiveTypeOK, HistoryOK, CompleteOK

\* A commit adds a state to the history that is above all others.
LEMMA CommitStep ==
  ASSUME ArchiveInv, NEW touched \in SUBSET Tables, Commit(touched)
  PROVE  ArchiveInv'
<1> USE DEF ArchiveInv, ArchiveTypeOK
<1>1. source' \in [Tables -> Nat] /\ \A t \in Tables : source[t] <= source'[t]
  BY DEF Commit
<1>2. history' = history \cup {source'} /\ hash' \in {hash, hash + 1}
  BY DEF Commit
<1>3. UNCHANGED <<run, archive, complete>>
  BY DEF Commit
<1>4. ArchiveTypeOK'
  BY <1>1, <1>2, <1>3
<1>5. HistoryOK'
  <2>1. source' \in history'
    BY <1>2
  <2>2. ASSUME NEW h \in history', NEW t \in Tables PROVE h[t] <= source'[t]
    <3>1. CASE h = source'
      BY <3>1, <1>1
    <3>2. CASE h \in history
      <4>1. h[t] <= source[t] /\ h[t] \in Nat /\ source[t] \in Nat /\ source'[t] \in Nat
        BY <3>2, <1>1 DEF HistoryOK
      <4> QED
        BY <4>1, <1>1
    <3> QED
      BY <3>1, <3>2, <1>2
  <2> QED
    BY <2>1, <2>2 DEF HistoryOK
<1>6. CompleteOK'
  BY <1>2, <1>3 DEF CompleteOK, Holds
<1>7. ASSUME run # None PROVE (ProgressOK /\ SnapshotOK /\ PublishedOK)'
  <2>1. ProgressOK' /\ PublishedOK'
    BY <1>3, <1>7 DEF ProgressOK, StagedAll, Verified, PublishedOK, Holds
  <2>2. \A t \in 1..Len(run.staged) : run.staged[t] <= source'[t]
    <3> TAKE t \in 1..Len(run.staged)
    <3>1. t \in Tables
      BY <1>7, TablesOK DEF ProgressOK
    <3>2. run.staged[t] <= source[t] /\ source[t] <= source'[t]
      BY <1>1, <1>7, <3>1 DEF SnapshotOK
    <3>3. run.staged[t] \in Nat /\ source[t] \in Nat /\ source'[t] \in Nat
      BY <1>1, <1>7, <3>1
    <3> QED
      BY <3>2, <3>3
  <2> QED
    BY <1>2, <1>3, <1>7, <2>1, <2>2 DEF SnapshotOK, StagedAll
<1> QED
  BY <1>3, <1>4, <1>5, <1>6, <1>7

LEMMA BeginStep ==
  ASSUME ArchiveInv, NEW free \in Levels, run = None, ArchiveBegin(free)
  PROVE  ArchiveInv'
<1> USE DEF ArchiveInv, ArchiveTypeOK, ArchiveBegin
<1>1. run' = [id |-> hash, staged |-> <<>>, verified |-> 0, published |-> 0]
  OBVIOUS
<1>2. run' \in RunType
  BY <1>1 DEF RunType
<1>3. ArchiveTypeOK'
  BY <1>2 DEF RunType
<1>4. (HistoryOK /\ CompleteOK)'
  BY DEF HistoryOK, CompleteOK, Holds
<1>5. ProgressOK'
  BY <1>1, TablesOK DEF ProgressOK
<1>6. SnapshotOK'
  <2>1. Len(run'.staged) = 0
    BY <1>1
  <2>2. StagedAll' => \A t \in Tables : FALSE
    BY <2>1, TablesOK DEF StagedAll
  <2> QED
    BY <2>1, <2>2 DEF SnapshotOK, HistoryOK
<1>7. PublishedOK'
  BY <1>1 DEF PublishedOK
<1> QED
  BY <1>3, <1>4, <1>5, <1>6, <1>7

LEMMA StageStep == ASSUME ArchiveInv, Stage PROVE ArchiveInv'
<1> DEFINE k == Len(run.staged) + 1
<1> USE DEF ArchiveInv, ArchiveTypeOK
<1>1. run # None /\ ~StagedAll /\ UNCHANGED <<source, hash, archive, complete, history>>
  BY DEF Stage
<1>2. run' = [run EXCEPT !.staged = Append(run.staged, source[k])]
  BY DEF Stage, SourceReport
<1>3. run.verified = 0 /\ run.published = 0
  BY <1>1 DEF ProgressOK, Verified
<1>4. k \in Tables
  BY <1>1, TablesOK DEF ProgressOK, StagedAll
<1>5. source[k] \in Nat
  BY <1>4
<1>6. /\ run' \in RunType
      /\ run'.staged = Append(run.staged, source[k])
      /\ run'.id = run.id /\ run'.verified = 0 /\ run'.published = 0
  <2>1. Append(run.staged, source[k]) \in Seq(Nat)
    BY <1>1, <1>5, RunTypeOK
  <2> QED
    BY ONLY <1>1, <1>2, <1>3, <2>1, RunTypeOK, RunStaged, ArchiveInv
<1>7. /\ Len(run'.staged) = k
      /\ \A t \in 1..k : run'.staged[t] = IF t = k THEN source[k] ELSE run.staged[t]
  BY <1>1, <1>5, <1>6
<1>8. ArchiveTypeOK' /\ HistoryOK' /\ CompleteOK'
  BY <1>1, <1>6 DEF RunType, HistoryOK, CompleteOK, Holds
<1>9. ProgressOK'
  BY <1>4, <1>6, <1>7, TablesOK DEF ProgressOK
<1>10. \A t \in 1..k : run'.staged[t] <= source[t]
  BY <1>1, <1>5, <1>7 DEF SnapshotOK
<1>11. SnapshotOK'
  <2>1. StagedAll' => \A t \in Tables : run'.staged[t] <= source[t]
    BY <1>7, <1>10, TablesOK DEF StagedAll
  <2>2. \A t \in Tables : ~(t <= run'.verified)
    BY <1>6, TablesOK
  <2> QED
    BY <1>1, <1>7, <1>10, <2>1, <2>2 DEF SnapshotOK, HistoryOK
<1>12. PublishedOK'
  BY <1>1, <1>6 DEF PublishedOK
<1> QED
  BY <1>8, <1>9, <1>11, <1>12

LEMMA VerifyTableStep == ASSUME ArchiveInv, VerifyTable PROVE ArchiveInv'
<1> DEFINE v == run.verified + 1
<1> USE DEF ArchiveInv, ArchiveTypeOK
<1>1. run # None /\ StagedAll /\ UNCHANGED <<source, hash, archive, complete, history>>
  BY DEF VerifyTable, StagedAll
<1>2. v \in Tables /\ v <= Len(run.staged) /\ source[v] = run.staged[v] /\ run.published = 0
  <2>1. run.verified < Len(run.staged) /\ source[v] = run.staged[v]
    BY DEF VerifyTable, SourceReport, StagedReport
  <2> QED
    BY <1>1, <2>1, TablesOK DEF StagedAll, ProgressOK, Verified
<1>3. run' = [run EXCEPT !.verified = v]
  BY DEF VerifyTable
<1>4. /\ run' \in RunType
      /\ run'.staged = run.staged /\ run'.id = run.id
      /\ run'.verified = v /\ run'.published = 0
  <2>1. run \in RunType /\ v \in Nat
    BY <1>1, RunTypeOK
  <2> QED
    BY ONLY <1>2, <1>3, <2>1, RunVerified
<1>5. ArchiveTypeOK' /\ HistoryOK' /\ CompleteOK'
  BY <1>1, <1>4 DEF RunType, HistoryOK, CompleteOK, Holds
<1>6. run' # None => ProgressOK'
  BY <1>1, <1>2, <1>4, TablesOK DEF ProgressOK, StagedAll
<1>7. SnapshotOK'
  <2>1. PICK h \in history : \A t \in Tables :
          run.staged[t] <= h[t] /\ (t <= run.verified => h[t] = run.staged[t])
    BY <1>1 DEF SnapshotOK
  <2>2. h[v] = run.staged[v]
    <3>1. h[v] <= source[v]
      BY <1>2, <2>1 DEF HistoryOK
    <3>2. run.staged[v] <= h[v]
      BY <1>2, <2>1
    <3>3. h[v] \in Nat /\ source[v] \in Nat
      BY <1>2
    <3> QED
      BY <1>2, <3>1, <3>2, <3>3
  <2>3. \A t \in Tables : t <= run'.verified => h[t] = run.staged[t]
    <3>1. \A t \in Tables : t <= v <=> t <= run.verified \/ t = v
      BY <1>1, TablesOK, RunTypeOK
    <3> QED
      BY <1>4, <2>1, <2>2, <3>1
  <2>4. \E g \in history' : \A t \in Tables :
          run'.staged[t] <= g[t] /\ (t <= run'.verified => g[t] = run'.staged[t])
    BY <1>1, <1>4, <2>1, <2>3
  <2> QED
    BY <1>1, <1>4, <2>4 DEF SnapshotOK
<1>8. PublishedOK'
  BY <1>1, <1>4 DEF PublishedOK
<1> QED
  BY <1>5, <1>6, <1>7, <1>8

LEMMA VerifyFileStep == ASSUME ArchiveInv, VerifyFile PROVE ArchiveInv'
<1> USE DEF ArchiveInv, ArchiveTypeOK
<1>1. run # None /\ StagedAll /\ UNCHANGED <<source, hash, archive, complete, history>>
  BY DEF VerifyFile, StagedAll
<1>2. run.verified = Len(run.staged) /\ run.published = 0
  BY <1>1 DEF VerifyFile, ProgressOK, Verified
<1>3. run' = [run EXCEPT !.verified = run.verified + 1]
  BY DEF VerifyFile
<1>4. /\ run' \in RunType
      /\ run'.staged = run.staged /\ run'.id = run.id
      /\ run'.verified = run.verified + 1 /\ run'.published = 0
  <2>1. run \in RunType /\ run.verified + 1 \in Nat
    BY <1>1, RunTypeOK
  <2> QED
    BY ONLY <1>2, <1>3, <2>1, RunVerified
<1>5. ArchiveTypeOK' /\ HistoryOK' /\ CompleteOK'
  BY <1>1, <1>4 DEF RunType, HistoryOK, CompleteOK, Holds
<1>6. run' # None => ProgressOK'
  BY <1>1, <1>2, <1>4, TablesOK DEF ProgressOK, StagedAll
<1>7. SnapshotOK'
  <2>1. PICK h \in history : \A t \in Tables :
          run.staged[t] <= h[t] /\ (t <= run.verified => h[t] = run.staged[t])
    BY <1>1 DEF SnapshotOK
  <2>2. \A t \in Tables : t <= run.verified
    BY <1>1, <1>2, TablesOK DEF StagedAll
  <2> QED
    BY <1>1, <1>4, <2>1, <2>2 DEF SnapshotOK
<1>8. PublishedOK'
  BY <1>1, <1>4 DEF PublishedOK
<1> QED
  BY <1>5, <1>6, <1>7, <1>8

\* A published file is about the run's own name, under which no manifest is
\* complete, and what lay at its place was the same file.
LEMMA PublishStep == ASSUME ArchiveInv, Publish PROVE ArchiveInv'
<1> DEFINE k == run.published + 1
<1> USE DEF ArchiveInv, ArchiveTypeOK
<1>1. /\ run # None /\ Verified /\ StagedAll
      /\ UNCHANGED <<source, hash, complete, history>>
  BY DEF Publish, Verified, StagedAll
<1>2. k \in Tables /\ k <= Len(run.staged) /\ run.staged[k] \in Nat /\ k \in 1..Len(run.staged)
  <2>1. run.published < Len(run.staged)
    BY DEF Publish
  <2> QED
    BY <1>1, <2>1, TablesOK DEF StagedAll
<1>3. run' = [run EXCEPT !.published = k]
  BY DEF Publish
<1>4. /\ run' \in RunType
      /\ run'.staged = run.staged /\ run'.id = run.id
      /\ run'.verified = run.verified /\ run'.published = k
  BY ONLY <1>1, <1>2, <1>3, RunTypeOK, RunPublished, ArchiveInv
<1>5. archive' = archive \cup {[id |-> run.id, table |-> k, content |-> run.staged[k]]}
  BY DEF Publish, NextFile, StagedReport
<1>6. \A f \in archive : f.id = run.id /\ f.table = k => f.content = run.staged[k]
  BY DEF Publish, AtTarget, NextFile, StagedReport
<1>7. ArchiveTypeOK'
  BY <1>1, <1>2, <1>4, <1>5, RunTypeOK DEF RunType
<1>8. HistoryOK'
  BY <1>1 DEF HistoryOK
<1>9. CompleteOK'
  <2> SUFFICES ASSUME NEW m \in complete, NEW t \in Tables
               PROVE  Holds(m.id, t, m.tables[t])'
    BY <1>1 DEF CompleteOK
  <2>1. m.id # run.id
    BY <1>1 DEF PublishedOK
  <2>2. Holds(m.id, t, m.tables[t])
    BY DEF CompleteOK
  <2> QED
    BY <1>5, <2>1, <2>2 DEF Holds
<1>10. run' # None => ProgressOK'
  BY <1>1, <1>2, <1>4 DEF ProgressOK, StagedAll, Verified
<1>11. SnapshotOK'
  BY <1>1, <1>4 DEF SnapshotOK
<1>12. PublishedOK'
  <2>1. ASSUME NEW t \in 1..k PROVE Holds(run.id, t, run.staged[t])'
    <3>1. CASE t = k
      <4> DEFINE new == [id |-> run.id, table |-> k, content |-> run.staged[k]]
      <4>1. new \in archive' /\ new.id = run.id /\ new.table = k
        BY <1>5
      <4>2. \A f \in archive' : f.id = run.id /\ f.table = k => f.content = run.staged[k]
        BY <1>5, <1>6
      <4> QED
        BY <1>4, <3>1, <4>1, <4>2 DEF Holds
    <3>2. CASE t # k
      <4>1. t \in 1..run.published
        BY <1>1, <3>2
      <4>2. Holds(run.id, t, run.staged[t])
        BY <1>1, <4>1 DEF PublishedOK
      <4> QED
        BY <1>4, <1>5, <3>2, <4>2 DEF Holds
    <3> QED
      BY <3>1, <3>2
  <2> QED
    BY <1>1, <1>4, <2>1 DEF PublishedOK
<1> QED
  BY <1>7, <1>8, <1>9, <1>10, <1>11, <1>12

\* All tables have been compared, so what was staged is the state between.
LEMMA CompleteStep == ASSUME ArchiveInv, Complete PROVE ArchiveInv'
<1> USE DEF ArchiveInv, ArchiveTypeOK
<1>1. /\ run # None /\ Verified /\ StagedAll /\ run.published = Len(run.staged)
      /\ UNCHANGED <<source, hash, archive, history>> /\ run' = None
      /\ complete' = complete \cup {[id |-> run.id, tables |-> run.staged]}
  BY DEF Complete, Verified, StagedAll
<1>2. run.staged \in history
  <2>1. PICK h \in history : \A t \in Tables : t <= run.verified => h[t] = run.staged[t]
    BY <1>1 DEF SnapshotOK
  <2>2. \A t \in Tables : h[t] = run.staged[t]
    BY <1>1, <2>1, TablesOK DEF Verified, StagedAll
  <2>3. h \in [Tables -> Nat] /\ run.staged \in [Tables -> Nat]
    BY <1>1, TablesOK DEF StagedAll
  <2>4. h = run.staged
    BY <2>2, <2>3
  <2> QED
    BY <2>4
<1>3. \A t \in Tables : Holds(run.id, t, run.staged[t])
  BY <1>1, TablesOK DEF PublishedOK, StagedAll
<1>4. CompleteOK'
  <2> DEFINE new == [id |-> run.id, tables |-> run.staged]
  <2>1. new.id = run.id /\ new.tables = run.staged
    OBVIOUS
  <2>2. \A m \in complete' : m \in complete \/ m = new
    BY <1>1
  <2>3. \A id, t, content : Holds(id, t, content)' = Holds(id, t, content)
    BY <1>1 DEF Holds
  <2> HIDE DEF new
  <2> QED
    BY <1>1, <1>2, <1>3, <2>1, <2>2, <2>3 DEF CompleteOK
<1> QED
  BY <1>1, <1>4 DEF HistoryOK

LEMMA ArchiveInvStep == ArchiveInv /\ ArchiveNext => ArchiveInv'
<1> SUFFICES ASSUME ArchiveInv, ArchiveNext PROVE ArchiveInv'
  OBVIOUS
<1>1. CASE UNCHANGED archiveVars \/ ArchiveEnds
  <2>1. UNCHANGED <<source, hash, archive, complete, history>> /\ (run' = None \/ run' = run)
    BY <1>1 DEF archiveVars, ArchiveEnds
  <2>2. (ArchiveTypeOK /\ HistoryOK /\ CompleteOK)'
    BY <2>1 DEF ArchiveInv, ArchiveTypeOK, HistoryOK, CompleteOK, Holds
  <2>3. run' # None => (ProgressOK /\ SnapshotOK /\ PublishedOK)'
    BY <2>1 DEF ArchiveInv, ProgressOK, SnapshotOK, PublishedOK, Holds, StagedAll, Verified
  <2> QED
    BY <2>2, <2>3 DEF ArchiveInv
<1>2. CASE Archive
  BY <1>1, <1>2, StageStep, VerifyTableStep, VerifyFileStep, PublishStep, CompleteStep DEF Archive
<1> QED
  BY <1>1, <1>2, CommitStep, BeginStep DEF ArchiveNext

\* The set of contents under a name and a table, of PublishedOK, is what the
\* property speaks of.
LEMMA ArchiveInvIsEnough == ArchiveInv => ArchiveIsSnapshot
BY DEF ArchiveInv, CompleteOK, Holds, ArchiveIsSnapshot

-----------------------------------------------------------------------------
(***************************************************************************)
(* The spool.                                                              *)
(***************************************************************************)
SpoolNext ==
    \/ \E second \in {now} \cup Later, month \in Months, free \in Levels, shadow \in BOOLEAN :
          AppendRecord(second, month, free, shadow)
    \/ SealSegment
    \/ CompactBegin
    \/ Compact
    \/ now' \in Later /\ UNCHANGED <<open, sealed, acked, hasty, replaced, job, parquet, manifests>>
    \/ UNCHANGED spoolVars

LEMMA SpoolStepOfNext == [Next]_vars => SpoolNext
<1> SUFFICES ASSUME [Next]_vars PROVE SpoolNext
  OBVIOUS
<1>1. CASE Start \/ Save \/ Observe \/ ArchiveCommand \/ MigrateCommand \/ ArchiveStep \/ MigrateStep
  BY <1>1 DEF Start, Save, Observe, ArchiveCommand, MigrateCommand, ArchiveStep, MigrateStep, SpoolNext
<1>2. CASE Stop
  BY <1>2 DEF Stop, SpoolNext
<1>3. CASE Spool
  BY <1>3 DEF Spool, SpoolNext
<1>4. CASE Seal
  BY <1>4 DEF Seal, SpoolNext
<1>5. CASE CompactCommand
  BY <1>5 DEF CompactCommand, SpoolNext
<1>6. CASE CompactStep
  BY <1>6 DEF CompactStep, SpoolNext
<1>7. CASE UNCHANGED vars
  BY <1>7 DEF vars, SpoolNext
<1> QED
  BY <1>1, <1>2, <1>3, <1>4, <1>5, <1>6, <1>7 DEF Next

LEMMA SegmentsAreTimes == Segments \subseteq Nat /\ 1 \in Segments
<1>1. Cardinality(Segments) \in Nat /\ Cardinality(Segments) # 0
  BY OperationsAssumption, FS_CardinalityType, FS_EmptySet
<1> QED
  BY <1>1, OperationsAssumption

LEMMA NamesOK ==
  /\ \A second \in Segments : /\ <<second, Plain>> \in Names
                              /\ \A p \in 1..MaxRolls : <<second, p>> \in Names /\ p # Plain
  /\ \A g \in Names : g[1] \in Segments /\ g[1] \in Nat /\ g = <<g[1], g[2]>>
<1>1. MaxRolls \in Nat
  BY OperationsAssumption
<1>2. ASSUME NEW second \in Segments, NEW p \in 1..Plain PROVE <<second, p>> \in Names
  BY DEF Names
<1>3. Plain \in 1..Plain /\ \A p \in 1..MaxRolls : p \in 1..Plain /\ p # Plain
  BY <1>1 DEF Plain
<1>4. \A g \in Names : g[1] \in Segments /\ g = <<g[1], g[2]>>
  BY DEF Names
<1> QED
  BY <1>2, <1>3, <1>4, SegmentsAreTimes

JobType == [todo : SUBSET Names, at : Names \cup {<<>>}, rows : SUBSET Records,
            id : File, mine : SUBSET Months, writing : BOOLEAN]

\* The least element of a set of numbers, which the library defines by CHOOSE.
LEMMA MinIsMember ==
  ASSUME NEW S \in SUBSET Nat, S # {}
  PROVE  Min(S) \in S /\ \A y \in S : Min(S) <= y
<1> DEFINE Below == {0..n : n \in S}
<1>1. \A n \in S : 0..n \in FiniteSubsetsOf(Nat)
  <2>1. TAKE n \in S
  <2>2. 0 \in Int /\ n \in Int
    OBVIOUS
  <2>3. IsFiniteSet(0..n)
    BY <2>2, FS_Interval
  <2>4. 0..n \in SUBSET Nat
    BY <2>2
  <2> QED BY <2>3, <2>4, Zenon DEF FiniteSubsetsOf
<1>2. Below # {} /\ Below \subseteq FiniteSubsetsOf(Nat)
  BY <1>1
<1>3. \E x \in Below : \A y \in Below : ~(<<y, x>> \in StrictSubsetOrdering(Nat))
  <2> HIDE DEF Below
  <2> QED BY <1>2, FS_StrictSubsetOrderingWellFounded, WFMin
<1>4. PICK m \in S : \A y \in Below : ~(<<y, 0..m>> \in StrictSubsetOrdering(Nat))
  BY <1>3
<1>5. ASSUME NEW n \in S, n < m PROVE FALSE
  <2>1. 0..n \in Below
    OBVIOUS
  <2>2. 0..n \subseteq 0..m /\ m \in 0..m /\ m \notin 0..n
    BY <1>5
  <2>3. <<0..n, 0..m>> \in StrictSubsetOrdering(Nat)
    BY <2>2 DEF StrictSubsetOrdering
  <2> QED BY <1>4, <2>1, <2>3
<1>6. \A y \in S : m <= y
  BY <1>5
<1> QED BY <1>6 DEF Min

\* The month it writes next is one it has loaded and has not written.
LEMMA NextMonthOK ==
  ASSUME SpoolInv, job.mine # JobMonths
  PROVE  NextMonth \in JobMonths /\ NextMonth \notin job.mine /\ NextMonth \in Months
<1>1. job.mine \subseteq JobMonths
  BY DEF SpoolInv, JobOK
<1>2. JobMonths \subseteq Months
  <2>1. job.rows \subseteq Records
    BY DEF SpoolInv, SpoolTypeOK
  <2> QED
    BY <2>1 DEF JobMonths, Records
<1>3. JobMonths \ job.mine \in SUBSET Nat /\ JobMonths \ job.mine # {}
  BY <1>1, <1>2, OperationsAssumption
<1>4. NextMonth \in JobMonths \ job.mine
  BY <1>3, MinIsMember DEF NextMonth
<1> QED
  BY <1>2, <1>4

LEMMA SpoolInit0 == SpoolInit => SpoolInv
<1> SUFFICES ASSUME SpoolInit PROVE SpoolInv
  OBVIOUS
<1>1. NoFile \in File /\ NoFile.form = "none" /\ NoFile.rows = {}
  BY DEF NoFile, File, Forms
<1>2. /\ open \in [Names -> File] /\ sealed \in [Names -> File]
      /\ \A g \in Names : open[g] = NoFile /\ sealed[g] = NoFile
  BY <1>1 DEF SpoolInit
<1>3. /\ job \in JobType /\ job.at = <<>> /\ job.id = NoFile /\ job.mine = {}
      /\ job.rows = {} /\ job.writing = FALSE
  BY <1>1 DEF SpoolInit, NoJob, JobType
<1>4. SpoolTypeOK
  BY <1>2, <1>3, SegmentsAreTimes DEF SpoolInit, SpoolTypeOK, JobType
<1>5. SegmentsOK
  BY <1>1, <1>2, FS_EmptySet DEF SpoolInit, SegmentsOK
<1>6. JobOK
  BY <1>3 DEF JobOK, Holding, Hashed
<1>7. SpoolKeepsRecords
  BY DEF SpoolInit, SpoolKeepsRecords
<1> QED
  BY <1>4, <1>5, <1>6, <1>7 DEF SpoolInv

\* What a job has to answer for while it and its outputs are left alone.
LEMMA JobStays ==
  ASSUME JobOK, UNCHANGED <<job, parquet, manifests>>,
         replaced \subseteq replaced',
         Holding /\ job.at \notin replaced' => sealed'[job.at] = sealed[job.at]
  PROVE  JobOK'
<1>1. \A m : Written(m)' = Written(m)
  BY DEF Written
<1>2. Holding' = Holding /\ Hashed' = Hashed /\ JobMonths' = JobMonths
  BY DEF Holding, Hashed, JobMonths
<1> QED
  BY <1>1, <1>2 DEF JobOK

\* A line at the end of a file: the file keeps its rows, and the record is one
\* of them unless it was written behind a line without end.
LEMMA AppendToStep ==
  ASSUME NEW files \in [Names -> File], NEW g \in Names, NEW month \in Months,
         IsFiniteSet(acked), acked \subseteq Records, Received(g[1]) < RowLimit,
         AppendTo(files, g, month)
  PROVE  /\ open' \in [Names -> File]
         /\ \A h \in Names : h # g => open'[h] = files[h]
         /\ files[g].rows \subseteq open'[g].rows
         /\ acked \subseteq acked' /\ acked' \subseteq Records /\ IsFiniteSet(acked')
         /\ \A r \in acked' : r \in acked \/ (r.seg = g /\ (r.line => r \in open'[g].rows))
<1> DEFINE row == [seg |-> g, month |-> month, n |-> Received(g[1]) + 1, line |-> files[g].form # "ragged"]
           there == IF files[g].form = "none" THEN "whole" ELSE files[g].form
           written == IF row.line THEN [form |-> there, rows |-> files[g].rows \cup {row}]
                                  ELSE [form |-> "broken", rows |-> files[g].rows]
<1>1. files[g] \in File /\ files[g].form \in Forms /\ files[g].rows \subseteq Records
  BY DEF File
<1>2. Received(g[1]) \in Nat
  <2>1. IsFiniteSet({r \in acked : r.seg[1] = g[1]})
    BY FS_Subset
  <2> QED
    BY <2>1, FS_CardinalityType DEF Received
<1>3. row \in Records /\ row.seg = g /\ row.line = (files[g].form # "ragged")
  <2>1. Received(g[1]) + 1 \in 1..RowLimit
    BY <1>2, OperationsAssumption
  <2> QED
    BY <2>1 DEF Records
<1>4. there \in Forms
  BY <1>1 DEF Forms
<1> HIDE DEF row, there
<1>5. written \in File /\ files[g].rows \subseteq written.rows /\ (row.line => row \in written.rows)
  BY <1>1, <1>3, <1>4 DEF File, Forms
<1>6. \/ open' = [files EXCEPT ![g] = written] /\ acked' = acked \cup {row}
      \/ /\ open' \in {files} \cup {[files EXCEPT ![g].form = form] : form \in {there, "ragged"}}
         /\ acked' = acked
  BY DEF AppendTo, row, there
<1> HIDE DEF written
<1>7. CASE open' = [files EXCEPT ![g] = written] /\ acked' = acked \cup {row}
  BY <1>3, <1>5, <1>7, FS_AddElement
<1>8. CASE open' = files /\ acked' = acked
  BY <1>8
<1>9. ASSUME NEW form \in {there, "ragged"}, open' = [files EXCEPT ![g].form = form], acked' = acked
      PROVE  /\ open' \in [Names -> File] /\ open'[g].rows = files[g].rows
             /\ \A h \in Names : h # g => open'[h] = files[h]
  <2> DEFINE e == [files[g] EXCEPT !.form = form]
  <2>1. e \in File /\ e.rows = files[g].rows
    BY <1>1, <1>4 DEF File, Forms
  <2>2. open' = [files EXCEPT ![g] = e]
    BY <1>9
  <2> HIDE DEF e
  <2> QED
    BY <2>1, <2>2
<1> QED
  BY <1>6, <1>7, <1>8, <1>9

\* Sealing moves a file over the sealed one of its name, if there is one.
LEMMA SealsStep ==
  ASSUME SpoolTypeOK, NEW g \in Names, NEW second, Seals(g, second)
  PROVE  /\ sealed' \in [Names -> File] /\ sealed'[g] = open[g]
         /\ \A h \in Names : h # g => sealed'[h] = sealed[h]
         /\ hasty \subseteq hasty' /\ hasty' \subseteq Names
         /\ g = <<second, Plain>> => g \in hasty'
         /\ replaced \subseteq replaced' /\ replaced' \subseteq replaced \cup {g}
         /\ sealed[g].form # "none" => g \in replaced'
         /\ g \in replaced' => g \in replaced \/ sealed[g].form # "none"
BY DEF SpoolTypeOK, Seals

\* An append finds no sealed segment of its name, unless that was sealed
\* within the current second.
LEMMA AppendStep ==
  ASSUME SpoolInv, NEW second \in {now} \cup Later, NEW month \in Months, NEW free, NEW shadow,
         AppendRecord(second, month, free, shadow)
  PROVE  SpoolInv'
<1> DEFINE plain == <<second, Plain>>
<1>1. second \in Segments /\ now \in Segments /\ now <= second /\ now \in Nat /\ second \in Nat
  BY SegmentsAreTimes DEF SpoolInv, SpoolTypeOK, Later
<1>2. now' = second /\ UNCHANGED <<job, parquet, manifests>> /\ Received(second) < RowLimit
  BY DEF AppendRecord
<1>3. /\ IsFiniteSet(acked) /\ acked \subseteq Records
      /\ open \in [Names -> File] /\ sealed \in [Names -> File]
  BY DEF SpoolInv, SpoolTypeOK, SegmentsOK
<1>4. plain \in Names /\ plain[1] = second /\ plain[2] = Plain
  BY <1>1, NamesOK
<1> HIDE DEF plain
<1>5. CASE AppendTo(open, plain, month) /\ UNCHANGED <<sealed, hasty, replaced>>
  <2>1. /\ open' \in [Names -> File]
        /\ \A h \in Names : h # plain => open'[h] = open[h]
        /\ open[plain].rows \subseteq open'[plain].rows
        /\ acked \subseteq acked' /\ acked' \subseteq Records /\ IsFiniteSet(acked')
        /\ \A r \in acked' : r \in acked \/ (r.seg = plain /\ (r.line => r \in open'[plain].rows))
    BY <1>2, <1>3, <1>4, <1>5, AppendToStep
  <2>2. SpoolTypeOK'
    BY <1>1, <1>2, <1>5, <2>1 DEF SpoolInv, SpoolTypeOK
  <2>3. SegmentsOK'
    <3> SUFFICES ASSUME NEW h \in Names
                 PROVE  /\ open'[h].form # "none" => h[1] <= second
                        /\ sealed[h].form = "none" => sealed[h].rows = {}
                        /\ h \notin hasty /\ sealed[h].form # "none" =>
                             open'[h].form = "none" /\ (h[2] = Plain => h[1] < second)
      BY <1>2, <1>5, <2>1 DEF SegmentsOK
    <3>1. h[1] \in Nat
      BY NamesOK
    <3>2. CASE h = plain
      <4>1. ~(h \notin hasty /\ sealed[h].form # "none")
        BY <1>1, <1>4, <3>2 DEF SpoolInv, SegmentsOK
      <4> QED
        BY <1>1, <1>4, <3>2, <4>1 DEF SpoolInv, SegmentsOK
    <3>3. CASE h # plain
      BY <1>1, <2>1, <3>1, <3>3 DEF SpoolInv, SegmentsOK
    <3> QED
      BY <3>2, <3>3
  <2>4. JobOK'
    BY <1>2, <1>5, JobStays DEF SpoolInv
  <2>5. SpoolKeepsRecords'
    <3> SUFFICES ASSUME NEW r \in acked', r.line, r.seg \notin replaced PROVE Kept(r)'
      BY <1>5 DEF SpoolInv, SpoolKeepsRecords
    <3>1. CASE r \in acked
      <4>1. r.seg \in Names /\ Kept(r)
        BY <1>3, <3>1 DEF SpoolInv, SpoolKeepsRecords, Records
      <4> QED
        BY <1>2, <1>5, <2>1, <4>1 DEF Kept, Archived
    <3>2. CASE r \notin acked
      BY <2>1, <3>2 DEF Kept
    <3> QED
      BY <3>1, <3>2
  <2> QED
    BY <2>2, <2>3, <2>4, <2>5 DEF SpoolInv
<1>6. ASSUME open[plain].form # "none", Seals(plain, second), NEW g \in Fresh(second),
             AppendTo([open EXCEPT ![plain] = NoFile], g, month)
      PROVE  SpoolInv'
  <2> DEFINE files == [open EXCEPT ![plain] = NoFile]
  <2>1. /\ g \in Names /\ g # plain /\ g[1] = second /\ g[2] # Plain
        /\ open[g].form = "none" /\ sealed[g].form = "none"
    BY <1>1, <1>4, NamesOK DEF Fresh, plain
  <2>2. /\ files \in [Names -> File] /\ files[plain].form = "none"
        /\ \A h \in Names : h # plain => files[h] = open[h]
    BY <1>3, <1>4 DEF NoFile, File, Forms
  <2>3. AppendTo(files, g, month)
    BY <1>6
  <2> HIDE DEF files
  <2>4. /\ open' \in [Names -> File]
        /\ \A h \in Names : h # g => open'[h] = files[h]
        /\ files[g].rows \subseteq open'[g].rows
        /\ acked \subseteq acked' /\ acked' \subseteq Records /\ IsFiniteSet(acked')
        /\ \A r \in acked' : r \in acked \/ (r.seg = g /\ (r.line => r \in open'[g].rows))
    BY <1>2, <1>3, <2>1, <2>2, <2>3, AppendToStep
  <2>5. /\ sealed' \in [Names -> File] /\ sealed'[plain] = open[plain]
        /\ \A h \in Names : h # plain => sealed'[h] = sealed[h]
        /\ hasty \subseteq hasty' /\ hasty' \subseteq Names /\ plain \in hasty'
        /\ replaced \subseteq replaced' /\ replaced' \subseteq replaced \cup {plain}
        /\ sealed[plain].form # "none" => plain \in replaced'
    BY <1>4, <1>6, SealsStep DEF SpoolInv, plain
  <2>6. SpoolTypeOK'
    BY <1>1, <1>2, <1>4, <2>4, <2>5 DEF SpoolInv, SpoolTypeOK
  <2>7. SegmentsOK'
    <3> SUFFICES ASSUME NEW h \in Names
                 PROVE  /\ open'[h].form # "none" => h[1] <= second
                        /\ sealed'[h].form = "none" => sealed'[h].rows = {}
                        /\ h \notin hasty' /\ sealed'[h].form # "none" =>
                             open'[h].form = "none" /\ (h[2] = Plain => h[1] < second)
      BY <1>2, <2>4 DEF SegmentsOK
    <3>1. h[1] \in Nat
      BY NamesOK
    <3>2. CASE h = plain
      BY <1>1, <1>4, <1>6, <2>5, <3>2
    <3>3. CASE h = g
      BY <1>1, <2>1, <2>5, <3>3 DEF SpoolInv, SegmentsOK
    <3>4. CASE h # plain /\ h # g
      <4>1. open'[h] = open[h] /\ sealed'[h] = sealed[h] /\ (h \notin hasty' => h \notin hasty)
        BY <2>2, <2>4, <2>5, <3>4
      <4> QED
        BY <1>1, <3>1, <4>1 DEF SpoolInv, SegmentsOK
    <3> QED
      BY <3>2, <3>3, <3>4
  <2>8. JobOK'
    <3>1. Holding /\ job.at \notin replaced' => sealed'[job.at] = sealed[job.at]
      BY <2>5 DEF SpoolInv, SpoolTypeOK, JobOK, Holding
    <3> QED
      BY <1>2, <2>5, <3>1, JobStays DEF SpoolInv
  <2>9. SpoolKeepsRecords'
    <3>1. ASSUME NEW r \in acked', r.line, r.seg \notin replaced' PROVE Kept(r)'
      <4>1. CASE r \in acked
        <5>1. r.seg \in Names /\ Kept(r)
          BY <1>3, <2>5, <3>1, <4>1 DEF SpoolInv, SpoolKeepsRecords, Records
        <5>2. CASE r.seg = plain
          <6>1. sealed[plain].rows = {}
            BY <1>4, <2>5, <3>1, <5>2 DEF SpoolInv, SegmentsOK
          <6> QED
            BY <1>2, <2>5, <5>1, <5>2, <6>1 DEF Kept, Archived
        <5>3. CASE r.seg # plain
          BY <1>2, <2>2, <2>4, <2>5, <5>1, <5>3 DEF Kept, Archived
        <5> QED
          BY <5>2, <5>3
      <4>2. CASE r \notin acked
        BY <2>4, <3>1, <4>2 DEF Kept
      <4> QED
        BY <4>1, <4>2
    <3>2. replaced' \subseteq hasty'
      BY <2>5 DEF SpoolInv, SpoolKeepsRecords
    <3> QED
      BY <3>1, <3>2 DEF SpoolKeepsRecords
  <2> QED
    BY <2>6, <2>7, <2>8, <2>9 DEF SpoolInv
<1> QED
  BY <1>5, <1>6 DEF AppendRecord, plain

\* A segment sealed after its second has no sealed one of its name before it.
LEMMA SealStep == ASSUME SpoolInv, SealSegment PROVE SpoolInv'
<1>1. PICK g \in Names : /\ open[g].form # "none"
                         /\ Seals(g, now') /\ open' = [open EXCEPT ![g] = NoFile]
  BY DEF SealSegment
<1>2. /\ now \in Segments /\ now' \in Segments /\ now \in Nat /\ now' \in Nat /\ now <= now'
      /\ UNCHANGED <<acked, job, parquet, manifests>>
  BY SegmentsAreTimes DEF SealSegment, Later, SpoolInv, SpoolTypeOK
<1>3. /\ sealed' \in [Names -> File] /\ sealed'[g] = open[g]
      /\ \A h \in Names : h # g => sealed'[h] = sealed[h]
      /\ hasty \subseteq hasty' /\ hasty' \subseteq Names
      /\ g = <<now', Plain>> => g \in hasty'
      /\ replaced \subseteq replaced' /\ replaced' \subseteq replaced \cup {g}
      /\ sealed[g].form # "none" => g \in replaced'
      /\ g \in replaced' => g \in replaced \/ sealed[g].form # "none"
  BY <1>1, SealsStep DEF SpoolInv
<1>4. /\ open' \in [Names -> File] /\ open'[g].form = "none"
      /\ \A h \in Names : h # g => open'[h] = open[h]
  BY <1>1 DEF SpoolInv, SpoolTypeOK, NoFile, File, Forms
<1>5. SpoolTypeOK'
  BY <1>2, <1>3, <1>4 DEF SpoolInv, SpoolTypeOK
<1>6. SegmentsOK'
  <2> SUFFICES ASSUME NEW h \in Names
               PROVE  /\ open'[h].form # "none" => h[1] <= now'
                      /\ sealed'[h].form = "none" => sealed'[h].rows = {}
                      /\ h \notin hasty' /\ sealed'[h].form # "none" =>
                           open'[h].form = "none" /\ (h[2] = Plain => h[1] < now')
    BY <1>2 DEF SpoolInv, SegmentsOK
  <2>1. h[1] \in Nat /\ h = <<h[1], h[2]>>
    BY NamesOK
  <2>2. CASE h = g
    <3>1. h[1] <= now'
      BY <1>1, <1>2, <2>1, <2>2 DEF SpoolInv, SegmentsOK
    <3>2. h \notin hasty' /\ h[2] = Plain => h[1] # now'
      BY <1>3, <2>1, <2>2
    <3> QED
      BY <1>1, <1>2, <1>3, <1>4, <2>1, <2>2, <3>1, <3>2
  <2>3. CASE h # g
    BY <1>2, <1>3, <1>4, <2>1, <2>3 DEF SpoolInv, SegmentsOK
  <2> QED
    BY <2>2, <2>3
<1>7. JobOK'
  <2>1. Holding /\ job.at \notin replaced' => sealed'[job.at] = sealed[job.at]
    BY <1>3 DEF SpoolInv, SpoolTypeOK, JobOK, Holding
  <2> QED
    BY <1>2, <1>3, <2>1, JobStays DEF SpoolInv
<1>8. SpoolKeepsRecords'
  <2>1. ASSUME NEW r \in acked, r.line, r.seg \notin replaced' PROVE Kept(r)'
    <3>1. r.seg \in Names /\ Kept(r)
      BY <1>3, <2>1 DEF SpoolInv, SpoolTypeOK, SpoolKeepsRecords, Records
    <3>2. CASE r.seg = g
      <4>1. sealed[g].rows = {}
        BY <1>3, <2>1, <3>2 DEF SpoolInv, SegmentsOK
      <4> QED
        BY <1>2, <1>3, <3>1, <3>2, <4>1 DEF Kept, Archived
    <3>3. CASE r.seg # g
      BY <1>2, <1>3, <1>4, <3>1, <3>3 DEF Kept, Archived
    <3> QED
      BY <3>2, <3>3
  <2>2. g \in replaced' => g \in hasty'
    BY <1>1, <1>3 DEF SpoolInv, SegmentsOK, SpoolKeepsRecords
  <2>3. replaced' \subseteq hasty'
    BY <1>3, <2>2 DEF SpoolInv, SpoolKeepsRecords
  <2> QED
    BY <1>2, <2>1, <2>3 DEF SpoolKeepsRecords
<1> QED
  BY <1>5, <1>6, <1>7, <1>8 DEF SpoolInv

LEMMA LaterStep ==
  ASSUME SpoolInv, now' \in Later, UNCHANGED <<open, sealed, acked, hasty, replaced, job, parquet, manifests>>
  PROVE  SpoolInv'
<1>1. now \in Nat /\ now' \in Nat /\ now < now' /\ now' \in Segments
  BY SegmentsAreTimes DEF Later, SpoolInv, SpoolTypeOK
<1>2. SpoolTypeOK'
  BY <1>1 DEF SpoolInv, SpoolTypeOK
<1>3. SegmentsOK'
  BY <1>1, NamesOK DEF SpoolInv, SegmentsOK
<1>4. JobOK'
  BY JobStays DEF SpoolInv
<1>5. SpoolKeepsRecords'
  BY DEF SpoolInv, SpoolKeepsRecords, Kept, Archived
<1> QED
  BY <1>2, <1>3, <1>4, <1>5 DEF SpoolInv

\* The files of the spool, which no step of a compaction but its last touches.
FilesStay == UNCHANGED <<now, open, sealed, acked, hasty, replaced>>

\* A step that leaves the files and what is archived alone, and keeps the job
\* in order.
LEMMA QuietStep ==
  ASSUME SpoolInv, FilesStay, manifests \subseteq manifests',
         \A p \in parquet : p.id \in manifests => p \in parquet'
  PROVE  SegmentsOK' /\ SpoolKeepsRecords'
<1>1. SegmentsOK'
  BY DEF SpoolInv, SegmentsOK, FilesStay
<1>2. \A r : Kept(r) => Kept(r)'
  BY DEF FilesStay, Kept, Archived
<1>3. SpoolKeepsRecords'
  BY <1>2 DEF SpoolInv, SpoolKeepsRecords, FilesStay
<1> QED
  BY <1>1, <1>3

\* A job that has only chosen its segments has nothing to answer for.
LEMMA FreshJob ==
  ASSUME NEW todo \in SUBSET Names, job' \in {NoJob, [NoJob EXCEPT !.todo = todo]}
  PROVE  job' \in JobType /\ JobOK'
<1>1. /\ job'.at = <<>> /\ job'.rows = {} /\ job'.id = NoFile
      /\ job'.mine = {} /\ job'.writing = FALSE
  BY DEF NoJob
<1>2. NoFile \in File
  BY DEF NoFile, File, Forms
<1>3. ASSUME job' = NoJob PROVE job' \in JobType
  BY <1>2, <1>3 DEF NoJob, JobType
<1>4. ASSUME job' = [NoJob EXCEPT !.todo = todo] PROVE job' \in JobType
  BY <1>2, <1>4 DEF NoJob, JobType
<1>5. JobOK'
  BY <1>1 DEF JobOK, Holding, Hashed
<1> QED
  BY <1>3, <1>4, <1>5

LEMMA BeginCompactStep == ASSUME SpoolInv, CompactBegin PROVE SpoolInv'
<1>1. FilesStay /\ UNCHANGED <<parquet, manifests>>
  BY DEF CompactBegin, FilesStay
<1>2. PICK todo \in {Sealed} \cup {{g} : g \in Sealed} : job' = [NoJob EXCEPT !.todo = todo]
  BY DEF CompactBegin
<1>3. todo \in SUBSET Names
  BY DEF Sealed
<1>4. JobOK' /\ job' \in JobType
  BY <1>2, <1>3, FreshJob
<1> QED
  BY <1>1, <1>4, QuietStep DEF SpoolInv, SpoolTypeOK, JobType, FilesStay

LEMMA EndStep == ASSUME SpoolInv, CompactEnds PROVE SpoolInv'
<1>1. FilesStay /\ UNCHANGED <<parquet, manifests>> /\ job' = NoJob
  BY DEF CompactEnds, FilesStay
<1>2. JobOK' /\ job' \in JobType
  BY <1>1, FreshJob
<1> QED
  BY <1>1, <1>2, QuietStep DEF SpoolInv, SpoolTypeOK, JobType, FilesStay

\* What a job loads is what the sealed segment holds.
LEMMA LoadStep == ASSUME SpoolInv, CompactLoad PROVE SpoolInv'
<1>1. FilesStay /\ UNCHANGED <<parquet, manifests>>
  BY DEF CompactLoad, FilesStay
<1>2. PICK g \in job.todo :
        /\ Loads(sealed[g])
        /\ job' = [NoJob EXCEPT !.todo = job.todo \ {g}, !.at = g, !.rows = sealed[g].rows]
  BY DEF CompactLoad
<1>3. g \in Names /\ job.todo \subseteq Names /\ sealed[g] \in File
  BY DEF SpoolInv, SpoolTypeOK
<1>4. /\ job'.at = g /\ job'.rows = sealed[g].rows /\ job'.id = NoFile
      /\ job'.mine = {} /\ job'.writing = FALSE
  BY <1>2 DEF NoJob
<1>5. job' \in JobType
  <2>1. NoFile \in File /\ sealed[g].rows \in SUBSET Records
    BY <1>3 DEF NoFile, File, Forms
  <2> QED
    BY <1>2, <1>3, <2>1 DEF NoJob, JobType
<1>6. JobOK'
  BY <1>1, <1>2, <1>4 DEF JobOK, Holding, Hashed, Loads, FilesStay
<1> QED
  BY <1>1, <1>5, <1>6, QuietStep DEF SpoolInv, SpoolTypeOK, JobType, FilesStay

LEMMA HashStep == ASSUME SpoolInv, CompactHash PROVE SpoolInv'
<1>1. FilesStay /\ UNCHANGED <<parquet, manifests>> /\ Holding /\ job.id = NoFile
  BY DEF CompactHash, FilesStay
<1>2. job \in JobType
  BY DEF SpoolInv, SpoolTypeOK, JobType
<1>3. JobOK' /\ job' \in JobType
  <2>1. CASE sealed[job.at] \in manifests
    <3>1. job' = [NoJob EXCEPT !.todo = job.todo] /\ job.todo \in SUBSET Names
      BY <1>2, <2>1 DEF CompactHash, NextSegment, JobType
    <3> QED
      BY <3>1, FreshJob
  <2>2. CASE sealed[job.at] \notin manifests
    <3>1. job' = [job EXCEPT !.id = sealed[job.at]]
      BY <2>2 DEF CompactHash
    <3>2. job.at \in Names /\ sealed[job.at] \in File
      BY <1>1, <1>2 DEF SpoolInv, SpoolTypeOK, JobType, Holding
    <3>3. /\ job' \in JobType /\ job'.at = job.at /\ job'.rows = job.rows
          /\ job'.id = sealed[job.at] /\ job'.mine = job.mine /\ job'.writing = job.writing
      BY <1>2, <3>1, <3>2 DEF JobType
    <3>4. job.mine = {} /\ ~job.writing
      BY <1>1, <1>2 DEF SpoolInv, JobOK, Hashed, JobType
    <3>5. JobOK'
      BY <1>1, <2>2, <3>3, <3>4 DEF SpoolInv, JobOK, Holding, Hashed, FilesStay
    <3> QED
      BY <3>3, <3>5
  <2> QED
    BY <2>1, <2>2
<1> QED
  BY <1>1, <1>3, QuietStep DEF SpoolInv, SpoolTypeOK, JobType, FilesStay

\* An output appears empty.
LEMMA OpenStep == ASSUME SpoolInv, CompactOpen PROVE SpoolInv'
<1> DEFINE new == [id |-> job.id, month |-> NextMonth, rows |-> {}]
<1>1. /\ FilesStay /\ UNCHANGED manifests /\ Hashed /\ job.mine # JobMonths
      /\ parquet' = parquet \cup {new}
      /\ job' = [job EXCEPT !.writing = TRUE]
  BY DEF CompactOpen, Output, FilesStay
<1>2. job \in JobType
  BY DEF SpoolInv, SpoolTypeOK, JobType
<1>3. /\ job' \in JobType /\ job'.at = job.at /\ job'.rows = job.rows
      /\ job'.id = job.id /\ job'.mine = job.mine
  BY <1>1, <1>2 DEF JobType
<1>4. new \in [id : File, month : Months, rows : SUBSET Records]
  BY <1>1, <1>2, NextMonthOK DEF JobType
<1> HIDE DEF new
<1>5. SpoolTypeOK'
  BY <1>1, <1>3, <1>4 DEF SpoolInv, SpoolTypeOK, JobType, FilesStay
<1>6. JobOK'
  <2>1. Holding' = Holding /\ Hashed' = Hashed /\ JobMonths' = JobMonths
    BY <1>3 DEF Holding, Hashed, JobMonths
  <2>2. \A m : Written(m) => Written(m)'
    BY <1>1, <1>3 DEF Written
  <2> QED
    BY <1>1, <1>3, <2>1, <2>2 DEF SpoolInv, JobOK, FilesStay
<1> QED
  BY <1>1, <1>5, <1>6, QuietStep DEF SpoolInv

\* Filling the output replaces it: it is of a content that is not listed yet.
LEMMA WriteStep == ASSUME SpoolInv, CompactWrite PROVE SpoolInv'
<1> DEFINE rows == {r \in job.rows : r.month = NextMonth}
           new == [id |-> job.id, month |-> NextMonth, rows |-> rows]
<1>1. /\ FilesStay /\ UNCHANGED manifests /\ job.writing
      /\ parquet' = (parquet \ Target) \cup {new}
      /\ job' = [job EXCEPT !.writing = FALSE, !.mine = job.mine \cup {NextMonth}]
  BY DEF CompactWrite, Output, FilesStay
<1>2. Hashed /\ job.mine # JobMonths /\ job.id \notin manifests /\ job.id # NoFile
  BY <1>1 DEF SpoolInv, JobOK, Hashed
<1>3. NextMonth \in JobMonths /\ NextMonth \notin job.mine /\ NextMonth \in Months
  BY <1>2, NextMonthOK
<1>4. job \in JobType
  BY DEF SpoolInv, SpoolTypeOK, JobType
<1>5. /\ job' \in JobType /\ job'.at = job.at /\ job'.rows = job.rows /\ job'.id = job.id
      /\ job'.mine = job.mine \cup {NextMonth} /\ job'.writing = FALSE
  BY <1>1, <1>3, <1>4 DEF JobType
<1>6. new \in [id : File, month : Months, rows : SUBSET Records]
  BY <1>3, <1>4 DEF JobType
<1>7. new.id = job.id /\ new.month = NextMonth /\ \A r \in job.rows : r.month = NextMonth => r \in new.rows
  OBVIOUS
<1> HIDE DEF new, rows
<1>8. SpoolTypeOK'
  BY <1>1, <1>5, <1>6 DEF SpoolInv, SpoolTypeOK, JobType, FilesStay
<1>9. \A p \in parquet : p.id # job.id \/ p.month # NextMonth => p \in parquet'
  BY <1>1 DEF Target
<1>10. JobOK'
  <2>1. Holding' = Holding /\ Hashed' = Hashed /\ JobMonths' = JobMonths
    BY <1>5 DEF Holding, Hashed, JobMonths
  <2>2. ASSUME NEW m \in job'.mine PROVE Written(m)'
    <3>1. CASE m = NextMonth
      BY <1>1, <1>5, <1>7, <3>1 DEF Written
    <3>2. CASE m \in job.mine
      <4>1. m # NextMonth /\ Written(m)
        BY <1>3, <3>2 DEF SpoolInv, JobOK
      <4> QED
        BY <1>5, <1>9, <4>1 DEF Written
    <3> QED
      BY <1>5, <3>1, <3>2
  <2> QED
    BY <1>1, <1>2, <1>3, <1>5, <2>1, <2>2 DEF SpoolInv, JobOK, FilesStay
<1> QED
  BY <1>1, <1>2, <1>8, <1>9, <1>10, QuietStep DEF SpoolInv

LEMMA ManifestStep == ASSUME SpoolInv, CompactManifest PROVE SpoolInv'
<1>1. /\ FilesStay /\ Hashed /\ job.mine = JobMonths
      /\ manifests' = manifests \cup {job.id}
      /\ UNCHANGED <<job, parquet>>
  BY DEF CompactManifest, WroteAll, FilesStay
<1>2. JobOK'
  <2>1. Holding' = Holding /\ Hashed' = Hashed /\ JobMonths' = JobMonths /\ \A m : Written(m)' = Written(m)
    BY <1>1 DEF Holding, Hashed, JobMonths, Written
  <2> QED
    BY <1>1, <2>1 DEF SpoolInv, JobOK, FilesStay
<1>3. SpoolTypeOK'
  BY <1>1 DEF SpoolInv, SpoolTypeOK, FilesStay
<1> QED
  BY <1>1, <1>2, <1>3, QuietStep DEF SpoolInv

\* What is unlinked is archived, unless the segment was replaced meanwhile.
LEMMA UnlinkStep == ASSUME SpoolInv, CompactUnlink PROVE SpoolInv'
<1>1. /\ Hashed /\ job.mine = JobMonths /\ job.id \in manifests
      /\ sealed' = [sealed EXCEPT ![job.at] = NoFile]
      /\ job' = [NoJob EXCEPT !.todo = job.todo]
      /\ UNCHANGED <<now, open, acked, hasty, replaced, parquet, manifests>>
  BY DEF CompactUnlink, WroteAll, Unlink, NextSegment
<1>2. job.at \in Names /\ job.todo \in SUBSET Names
  BY <1>1 DEF SpoolInv, SpoolTypeOK, Hashed, Holding
<1>3. /\ sealed' \in [Names -> File]
      /\ sealed'[job.at].form = "none" /\ sealed'[job.at].rows = {}
      /\ \A h \in Names : h # job.at => sealed'[h] = sealed[h]
  BY <1>1, <1>2 DEF SpoolInv, SpoolTypeOK, NoFile, File, Forms
<1>4. JobOK' /\ job' \in JobType
  BY <1>1, <1>2, FreshJob
<1>5. SpoolTypeOK'
  BY <1>1, <1>3, <1>4 DEF SpoolInv, SpoolTypeOK, JobType
<1>6. SegmentsOK'
  BY <1>1, <1>3 DEF SpoolInv, SegmentsOK
<1>7. SpoolKeepsRecords'
  <2>1. ASSUME NEW r \in acked, r.line, r.seg \notin replaced PROVE Kept(r)'
    <3>1. r.seg \in Names /\ Kept(r)
      BY <2>1 DEF SpoolInv, SpoolTypeOK, SpoolKeepsRecords, Records
    <3>2. CASE r.seg = job.at /\ r \in sealed[r.seg].rows
      <4>1. r \in job.rows
        BY <1>1, <2>1, <3>2 DEF SpoolInv, JobOK, Hashed
      <4>2. Written(r.month)
        BY <1>1, <4>1 DEF SpoolInv, JobOK, JobMonths
      <4> QED
        BY <1>1, <4>1, <4>2 DEF Written, Kept, Archived
    <3>3. CASE r.seg # job.at \/ r \notin sealed[r.seg].rows
      BY <1>1, <1>3, <3>1, <3>3 DEF Kept, Archived
    <3> QED
      BY <3>2, <3>3
  <2> QED
    BY <1>1, <2>1 DEF SpoolInv, SpoolKeepsRecords
<1> QED
  BY <1>4, <1>5, <1>6, <1>7 DEF SpoolInv

LEMMA SpoolInvStep == SpoolInv /\ SpoolNext => SpoolInv'
<1> SUFFICES ASSUME SpoolInv, SpoolNext PROVE SpoolInv'
  OBVIOUS
<1>1. CASE UNCHANGED spoolVars
  <2>1. FilesStay /\ UNCHANGED <<job, parquet, manifests>>
    BY <1>1 DEF spoolVars, FilesStay
  <2>2. JobOK'
    BY <2>1, JobStays DEF SpoolInv, FilesStay
  <2>3. SpoolTypeOK'
    BY <2>1 DEF SpoolInv, SpoolTypeOK, FilesStay
  <2> QED
    BY <2>1, <2>2, <2>3, QuietStep DEF SpoolInv
<1>2. CASE Compact
  BY <1>2, LoadStep, HashStep, OpenStep, WriteStep, ManifestStep, UnlinkStep, EndStep DEF Compact
<1> QED
  BY <1>1, <1>2, AppendStep, SealStep, LaterStep, BeginCompactStep DEF SpoolNext

-----------------------------------------------------------------------------
(***************************************************************************)
(* The theorems.                                                           *)
(***************************************************************************)
\* The bounds of the run are kept.
BoundsOK == work \in 0..MaxWork /\ commands \in 0..MaxCommands /\ stops \in 0..MaxStops

LEMMA BoundsStep == BoundsOK /\ [Next]_vars => BoundsOK'
<1> SUFFICES ASSUME BoundsOK, [Next]_vars PROVE BoundsOK'
  OBVIOUS
<1> USE OperationsAssumption DEF BoundsOK
<1>1. CASE Start \/ Seal \/ CompactStep \/ ArchiveStep \/ MigrateStep
  BY <1>1 DEF Start, Seal, CompactStep, ArchiveStep, MigrateStep
<1>2. CASE Stop
  BY <1>2 DEF Stop
<1>3. CASE Spool \/ Save \/ Observe
  BY <1>3 DEF Spool, Save, Observe, Work
<1>4. CASE CompactCommand \/ ArchiveCommand \/ MigrateCommand
  BY <1>4 DEF CompactCommand, ArchiveCommand, MigrateCommand, Command
<1>5. CASE UNCHANGED vars
  BY <1>5 DEF vars
<1> QED
  BY <1>1, <1>2, <1>3, <1>4, <1>5 DEF Next

\* The inductive invariant of the composition.
THEOREM StorageInvariant == Spec => []StorageInv
<1>1. StorageInv <=> SpoolInv /\ ArchiveInv /\ SchemaInv /\ BoundsOK
  BY DEF StorageInv, TypeOK, SpoolInv, ArchiveInv, SchemaInv, BoundsOK
<1>2. Init => StorageInv
  BY <1>1, SpoolInit0, ArchiveInit0, SchemaInit0, OperationsAssumption DEF Init, BoundsOK
<1>3. StorageInv /\ [Next]_vars => StorageInv'
  BY SpoolStepOfNext, SpoolInvStep, ArchiveStepOfNext, ArchiveInvStep, SchemaStep, SchemaInvStep,
     BoundsStep DEF StorageInv, TypeOK, SpoolInv, ArchiveInv, SchemaInv, BoundsOK
<1> QED
  BY <1>2, <1>3, PTL DEF Spec

\* Every variable of the spool, the archive and the schema keeps its type.
THEOREM TypeCorrect == Spec => []TypeOK
<1>1. StorageInv => TypeOK
  BY DEF StorageInv
<1> QED
  BY <1>1, StorageInvariant, PTL

\* No record append has returned for is lost by sealing, compacting and
\* unlinking, wherever the compaction dies.
THEOREM RecordsKept == Spec => []SpoolKeepsRecords
<1>1. StorageInv => SpoolKeepsRecords
  BY DEF StorageInv, SpoolInv
<1> QED
  BY <1>1, StorageInvariant, PTL

\* A COMPLETE manifest stands for one state of the source, although the
\* tables were read one by one while the runtime wrote.
THEOREM CompleteIsSnapshot == Spec => []ArchiveIsSnapshot
<1>1. StorageInv => ArchiveIsSnapshot
  BY ArchiveInvIsEnough DEF StorageInv
<1> QED
  BY <1>1, StorageInvariant, PTL

\* No migration loses a provenance row, and no runtime starts while some of
\* them lie where it does not look.
THEOREM ProvenanceStaysInSight == Spec => ProvenanceInSight
<1>1. StorageInv /\ [Next]_vars => [InSight]_schemaVars
  BY SchemaStep, SchemaStepInSight DEF StorageInv
<1> QED
  BY <1>1, StorageInvariant, PTL DEF Spec, ProvenanceInSight, InSight
=============================================================================
