--------------------------- MODULE ResearchSpool ---------------------------
(***************************************************************************)
(* The spool of research telemetry and its compaction.  The runtime        *)
(* appends records to the segment named after the current second; a        *)
(* segment that is full is sealed by append itself, within its second, and *)
(* the record goes to a segment of a name of its own.  Sealing replaces a  *)
(* sealed segment of the same name.  The operator turns sealed segments,   *)
(* in order, into Parquet files under a manifest, both named after the     *)
(* content, before they are unlinked.  Every step can be the last of its   *)
(* process.                                                                *)
(* The segments are those of one dataset.  Appends and seals are calls of  *)
(* the runtime's one thread; the compaction is another process.            *)
(***************************************************************************)
EXTENDS Integers, FiniteSets, FiniteSetsExt

CONSTANTS
    Segments,    \* 1..n: the seconds in which records are written
    Months,      \* what a segment is partitioned by
    Budget,      \* spool_budget_bytes, in records
    MaxRolls,    \* bound: segments of their own a second gives rise to
    RowLimit     \* bound: records of one second

VARIABLES
    now,         \* the current second
    open,        \* the files in open/ and in sealed/, by name
    sealed,
    acked,       \* records append has returned for
    hasty,       \* names sealed within their own second (history)
    replaced,    \* names sealed over a sealed segment (history)
    job,         \* the running compaction: the segments before it, the one it
                 \* is at, the rows it has loaded and the content it has hashed,
                 \* the months it has written, whether it is writing one
    parquet,     \* the output files: the content they are named after, month, rows
    manifests    \* the contents with a COMPLETE manifest

spoolVars == <<now, open, sealed, acked, hasty, replaced, job, parquet, manifests>>

\* The plain name of a second, {dataset}-{second}, sorts after those with a
\* suffix, {dataset}-{second}-{uuid}.
Plain == MaxRolls + 1
Names == Segments \X (1..Plain)

\* A record written behind a line without end is no line of its own.
Records == [seg : Names, month : Months, n : 1..RowLimit, line : BOOLEAN]

\* A "ragged" file ends inside a line; a "broken" one has such a line within.
Forms == {"none", "whole", "ragged", "broken"}
File == [form : Forms, rows : SUBSET Records]
NoFile == [form |-> "none", rows |-> {}]

NoJob == [todo |-> {}, at |-> <<>>, rows |-> {}, id |-> NoFile, mine |-> {}, writing |-> FALSE]

SpoolInit ==
    /\ now = 1
    /\ open = [g \in Names |-> NoFile] /\ sealed = open
    /\ acked = {} /\ hasty = {} /\ replaced = {} /\ job = NoJob
    /\ parquet = {} /\ manifests = {}

(***************************************************************************)
(* The runtime.                                                            *)
(***************************************************************************)
\* _size: open and sealed segments count against the budget.
SpoolSize == Cardinality(UNION {open[g].rows \cup sealed[g].rows : g \in Names})

\* require_spool_capture_capacity: the disk first, then the budget.
Captures(free, shadow) ==
    /\ free # "low"
    /\ shadow => free = "ample"
    /\ SpoolSize + 1 <= Budget

Received(second) == Cardinality({r \in acked : r.seg[1] = second})

\* One line at the end of g.  It raises or dies before the file, before the
\* line or inside it; after the line it is as good as acked.
AppendTo(files, g, month) ==
    LET row == [seg |-> g, month |-> month, n |-> Received(g[1]) + 1, line |-> files[g].form # "ragged"]
        there == IF files[g].form = "none" THEN "whole" ELSE files[g].form
        written == IF row.line THEN [form |-> there, rows |-> files[g].rows \cup {row}]
                               ELSE [form |-> "broken", rows |-> files[g].rows]
    IN \/ open' = [files EXCEPT ![g] = written] /\ acked' = acked \cup {row}
       \/ /\ open' \in {files} \cup {[files EXCEPT ![g].form = form] : form \in {there, "ragged"}}
          /\ UNCHANGED acked

\* seal: os.replace.
Seals(g, second) ==
    /\ sealed' = [sealed EXCEPT ![g] = open[g]]
    /\ hasty' = hasty \cup {h \in {g} : h = <<second, Plain>>}
    /\ replaced' = replaced \cup {h \in {g} : sealed[h].form # "none"}

\* A suffix nobody has used.
Fresh(second) ==
    {g \in {<<second, p>> : p \in 1..MaxRolls} :
        open[g].form = "none" /\ sealed[g].form = "none" /\ \A r \in acked : r.seg # g}

\* append.  Whether the record still fits depends on the sizes.
AppendRecord(second, month, free, shadow) ==
    LET plain == <<second, Plain>> IN
    /\ Captures(free, shadow) /\ Received(second) < RowLimit
    /\ now' = second
    /\ \/ AppendTo(open, plain, month) /\ UNCHANGED <<sealed, hasty, replaced>>
       \/ /\ open[plain].form # "none"
          /\ Seals(plain, second)
          /\ \E g \in Fresh(second) : AppendTo([open EXCEPT ![plain] = NoFile], g, month)
    /\ UNCHANGED <<job, parquet, manifests>>

Later == {t \in Segments : t > now}

\* seal_open_segments, one segment at a time: that of the current second too.
SealSegment ==
    /\ now' \in {now} \cup Later
    /\ \E g \in Names : /\ open[g].form # "none"
                        /\ Seals(g, now') /\ open' = [open EXCEPT ![g] = NoFile]
    /\ UNCHANGED <<acked, job, parquet, manifests>>

(***************************************************************************)
(* The operator.                                                           *)
(***************************************************************************)
Sealed == {g \in Names : sealed[g].form # "none"}

\* compact_research_spool: the sealed segments by name, or the one asked for.
CompactBegin ==
    /\ Sealed # {}
    /\ \E todo \in {Sealed} \cup {{g} : g \in Sealed} : job' = [NoJob EXCEPT !.todo = todo]
    /\ UNCHANGED <<now, open, sealed, acked, hasty, replaced, parquet, manifests>>

Holding == job.at # <<>>
Compacting == job.todo # {} \/ Holding

Before(g, h) == g[1] < h[1] \/ (g[1] = h[1] /\ g[2] <= h[2])

\* _load_segment raises on a line that is no record; an empty segment is refused.
Loads(f) == f.form = "whole" /\ f.rows # {}

CompactLoad ==
    /\ ~Holding
    /\ \E g \in job.todo : /\ \A h \in job.todo : Before(g, h)
                           /\ Loads(sealed[g])
                           /\ job' = [NoJob EXCEPT !.todo = job.todo \ {g}, !.at = g, !.rows = sealed[g].rows]
    /\ UNCHANGED <<now, open, sealed, acked, hasty, replaced, parquet, manifests>>

NextSegment == job' = [NoJob EXCEPT !.todo = job.todo]

\* The file is read again for its hash.  A content with a complete manifest is
\* NOOP_ALREADY_COMPACTED, and the segment stays.
CompactHash ==
    /\ Holding /\ job.id = NoFile
    /\ IF sealed[job.at] \in manifests THEN NextSegment ELSE job' = [job EXCEPT !.id = sealed[job.at]]
    /\ UNCHANGED <<now, open, sealed, acked, hasty, replaced, parquet, manifests>>

\* The rows are written month by month.
JobMonths == {r.month : r \in job.rows}
NextMonth == Min(JobMonths \ job.mine)
Output(rows) == [id |-> job.id, month |-> NextMonth, rows |-> rows]
Target == {p \in parquet : p.id = job.id /\ p.month = NextMonth}
Hashed == Holding /\ job.id # NoFile

\* pq.write_table creates the next output, which must not exist ...
CompactOpen ==
    /\ Hashed /\ ~job.writing
    /\ job.mine # JobMonths /\ Target = {}
    /\ parquet' = parquet \cup {Output({})}
    /\ job' = [job EXCEPT !.writing = TRUE]
    /\ UNCHANGED <<now, open, sealed, acked, hasty, replaced, manifests>>

\* ... and fills it.
CompactWrite ==
    /\ job.writing
    /\ parquet' = (parquet \ Target) \cup {Output({r \in job.rows : r.month = NextMonth})}
    /\ job' = [job EXCEPT !.writing = FALSE, !.mine = @ \cup {NextMonth}]
    /\ UNCHANGED <<now, open, sealed, acked, hasty, replaced, manifests>>

WroteAll == Hashed /\ job.mine = JobMonths

CompactManifest ==
    /\ WroteAll /\ job.id \notin manifests
    /\ manifests' = manifests \cup {job.id}
    /\ UNCHANGED <<now, open, sealed, acked, hasty, replaced, job, parquet>>

Unlink ==
    /\ sealed' = [sealed EXCEPT ![job.at] = NoFile]
    /\ NextSegment
    /\ UNCHANGED <<now, open, acked, hasty, replaced, parquet, manifests>>

\* Mutant: the segment is unlinked before its manifest is written.
UnlinkUnlisted == WroteAll /\ Unlink

\* What is unlinked is the file of that name.
CompactUnlink == WroteAll /\ job.id \in manifests /\ Unlink

\* A segment that does not load, or an output that exists, ends the command;
\* so does the death of its process at any step.
CompactEnds ==
    /\ Compacting /\ job' = NoJob
    /\ UNCHANGED <<now, open, sealed, acked, hasty, replaced, parquet, manifests>>

Compact ==
    \/ CompactLoad \/ CompactHash \/ CompactOpen \/ CompactWrite
    \/ CompactManifest \/ CompactUnlink \/ CompactEnds

(***************************************************************************)
(* Properties.                                                             *)
(***************************************************************************)
SpoolTypeOK ==
    /\ now \in Segments
    /\ open \in [Names -> File] /\ sealed \in [Names -> File]
    /\ acked \subseteq Records /\ hasty \subseteq Names /\ replaced \subseteq Names
    /\ manifests \subseteq File
    /\ parquet \subseteq [id : File, month : Months, rows : SUBSET Records]
    /\ job \in [todo : SUBSET Names, at : Names \cup {<<>>}, rows : SUBSET Records,
                id : File, mine : SUBSET Months, writing : BOOLEAN]

Archived(r) == \E p \in parquet : p.id \in manifests /\ r \in p.rows
Kept(r) == r \in open[r.seg].rows \/ r \in sealed[r.seg].rows \/ Archived(r)

\* A record append has returned for stays a line of its segment until that is
\* unlinked, and then it is in a Parquet file under a COMPLETE manifest,
\* wherever appends, seals, compactions and their process died before.  Two
\* records are lost: one written behind a line that was cut off, and one whose
\* segment is replaced by another of its name.  That happens to no segment but
\* one sealed within its own second.
SpoolKeepsRecords ==
    /\ \A r \in acked : r.line /\ r.seg \notin replaced => Kept(r)
    /\ replaced \subseteq hasty
=============================================================================
