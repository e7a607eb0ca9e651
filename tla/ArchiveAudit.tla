----------------------------- MODULE ArchiveAudit -----------------------------
(***************************************************************************)
(* The archive audits (evaluation/): every registered archive is read, the *)
(* messages found are kept in an index, and the exposed rows are matched   *)
(* against it.  There are two implementations of the same report, over one *)
(* SQLite index (archive_audit.py) and over partitions of one directory    *)
(* per source (archive_partitioned.py).  Both save a checkpoint after each *)
(* source and resume from it.                                              *)
(*                                                                         *)
(* This module has the archives, the files, and the steps both share; the  *)
(* modules SQLiteAudit and PartitionedAudit add those that differ.  The    *)
(* registry, the corpus, the exposure files (read without error) and the   *)
(* limits do not change: the identity of every run is the same.  The       *)
(* corpus holds the exposed identities, each once.                         *)
(***************************************************************************)
EXTENDS Integers, Sequences, FiniteSets, SequencesExt

CONSTANTS
    Content,      \* Content[i][v]: the lines of source i in its version v
    Expected,     \* expected_checksum of each source: a version, or None
    Identity,     \* message, revision, thread and text of an archived message
    Exposed,      \* the identities each exposed row resolves to
    Malformed,    \* a line normalize_record refuses
    Quarantined,  \* a line that is not a JSON object
    MaxRecords,   \* lines an audit may read
    None,
    MaxFaults     \* bound on failures, interruptions and deliveries

Sources == 1 .. Len(Content)
Rows == DOMAIN Exposed
Targets == UNION {Exposed[r] : r \in Rows}

ASSUME ContentAssumption ==
    /\ Content \in Seq(Seq(Seq(Identity \union {Malformed, Quarantined})))
    /\ \A i \in Sources : Len(Content[i]) > 0

ASSUME BoundAssumption == MaxRecords \in Nat /\ MaxFaults \in Nat

ASSUME NoneAssumption ==
    \A i \in Sources : \A v \in DOMAIN Content[i] :
        \A rows \in SUBSET ((DOMAIN Content[i][v]) \X Identity) : None # rows

ASSUME ExposedAssumption == Targets # {} /\ Targets \subseteq Identity

ASSUME ExpectedAssumption == \A i \in Sources : Expected[i] \in DOMAIN Content[i] \union {None}

VARIABLES
    implementation,  \* "sqlite" or "partitioned"
    archive,         \* the version of each source on disk: its fingerprint
    store,           \* the index, the checkpoint and the published files.
                     \* History: orphaned, the sources a checkpoint was left
                     \* with but not their rows; doubtful, the manifest was
                     \* written while there were any
    proc,            \* the command that is running, with its locals.
                     \* History: seen, the versions on disk since it began
    faults           \* failures, interruptions and deliveries so far

vars == <<implementation, archive, store, proc, faults>>

-----------------------------------------------------------------------------
Idle == [cmd |-> "none"]

Outputs == <<"matches", "coverage", "collisions">>

(* rows: the indexed lines of each source, None without a directory of its   *)
(* own; staging: the partitions of the source being read.                    *)
NoIndex == [rows |-> [i \in Sources |-> None], staging |-> None]

NoStore == [index |-> None, checkpoint |-> None, manifest |-> None,
            matches |-> None, coverage |-> None, collisions |-> None,
            rematchFiles |-> None, rematch |-> None, derived |-> None,
            orphaned |-> {}, doubtful |-> FALSE]

NoStats == [i \in Sources |-> None]

Fault == faults < MaxFaults /\ faults' = faults + 1

(* An archive is delivered again, or an earlier delivery is put back. *)
ReplaceArchive ==
    /\ Fault
    /\ \E i \in Sources : \E v \in DOMAIN Content[i] \ {archive[i]} :
        /\ archive' = [archive EXCEPT ![i] = v]
        /\ proc' = IF proc.cmd = "audit" THEN [proc EXCEPT !.seen[i] = @ \union {v}] ELSE proc
    /\ UNCHANGED <<implementation, store>>

(* The process ends. *)
Crash ==
    /\ proc.cmd # "none"
    /\ Fault
    /\ proc' = Idle
    /\ UNCHANGED <<implementation, archive>>

-----------------------------------------------------------------------------
(* The completed sources a run may keep: the first ones, as long as the      *)
(* checkpoint has them with the fingerprint they have now.                   *)
Fresh(checkpoint) == {i \in checkpoint.completed : checkpoint.stats[i].version = archive[i]}

(* Seeded fault: completed sources are kept whatever their fingerprint. *)
ResumableByName(checkpoint) == {i \in Sources : 1 .. i \subseteq checkpoint.completed}

Resumable(checkpoint) == {i \in Sources : 1 .. i \subseteq Fresh(checkpoint)}

LinesOf(i, stats) == Content[i][stats[i].version]

(* A run that keeps these sources, with their statistics. *)
Began(completed, stats) ==
    [cmd |-> "audit", pc |-> "open", at |-> 1, version |-> None, line |-> 0, rows |-> {},
     used |-> Cardinality(UNION {{i} \X (DOMAIN LinesOf(i, stats)) : i \in completed}),
     errors |-> FALSE, exhausted |-> FALSE, active |-> None, completed |-> completed,
     stats |-> [i \in Sources |-> IF i \in completed THEN stats[i] ELSE None],
     out |-> 1, report |-> None, seen |-> [i \in Sources |-> {archive[i]}]]

Auditing(pc) == proc.cmd = "audit" /\ proc.pc = pc

(* The sources are taken in order; completed ones are passed over. *)
Pending == {i \in Sources : i >= proc.at /\ i \notin proc.completed}
ToOpen == CHOOSE i \in Pending : \A j \in Pending : i <= j

OpenWith(index) ==
    /\ Auditing("open") /\ Pending # {}
    /\ store' = [store EXCEPT !.index = index]
    /\ proc' = [proc EXCEPT !.pc = "scan", !.at = ToOpen, !.version = archive[ToOpen],
                  !.line = 0, !.rows = {}, !.errors = FALSE]
    /\ UNCHANGED <<implementation, archive, faults>>

Text == Content[proc.at][proc.version]
HasLine == proc.line < Len(Text)
Line == Text[proc.line + 1]

(* One line.  A record beyond the limit ends the reading; a line that cannot *)
(* be used is an error of the source; a message the index keeps is a row.    *)
ReadLine(keep) ==
    /\ Auditing("scan") /\ HasLine
    /\ LET over == Line # Quarantined /\ proc.used + 1 > MaxRecords IN
        proc' = [proc EXCEPT !.line = @ + 1, !.used = @ + 1,
                   !.exhausted = over,
                   !.errors = @ \/ Line = Quarantined \/ (Line = Malformed /\ ~over),
                   !.rows = IF Line \in keep /\ ~over THEN @ \union {<<proc.line + 1, Line>>} ELSE @,
                   !.pc = IF over THEN "ended" ELSE @]
    /\ UNCHANGED <<implementation, archive, faults>>

(* Seeded fault: the limit is reached with the last record that is allowed. *)
EndOfSourceAtLimit ==
    /\ Auditing("scan") /\ ~HasLine
    /\ proc' = [proc EXCEPT !.pc = "ended", !.exhausted = proc.used >= MaxRecords]
    /\ UNCHANGED <<implementation, archive, store, faults>>

EndOfSource ==
    /\ Auditing("scan") /\ ~HasLine
    /\ proc' = [proc EXCEPT !.pc = "ended", !.exhausted = proc.used > MaxRecords]
    /\ UNCHANGED <<implementation, archive, store, faults>>

SourceReadError ==
    /\ Auditing("scan")
    /\ Fault
    /\ proc' = [proc EXCEPT !.pc = "ended", !.errors = TRUE,
                  !.exhausted = proc.used > MaxRecords]
    /\ UNCHANGED <<implementation, archive, store>>

Mismatch ==
    /\ ~proc.errors /\ ~proc.exhausted
    /\ Expected[proc.at] \notin {None, proc.version}

SourceComplete == ~proc.errors /\ ~proc.exhausted /\ ~Mismatch

(* Seeded fault: the fingerprint is taken when the source has been read. *)
ReportLate == [version |-> archive[proc.at], complete |-> SourceComplete]

Report == [version |-> proc.version, complete |-> SourceComplete]

(* Seeded fault: the source that was just read is completed in any case. *)
CheckpointOfActive(complete) ==
    [completed |-> proc.completed \union {proc.at}, complete |-> complete,
     stats |-> [i \in Sources |-> IF i \in proc.completed THEN proc.stats[i] ELSE None],
     index |-> store.index]

Checkpoint(complete) ==
    [completed |-> proc.completed, complete |-> complete,
     stats |-> [i \in Sources |-> IF i \in proc.completed THEN proc.stats[i] ELSE None],
     index |-> store.index]

(* After a source: the next one, or the end of the scan when this one was    *)
(* not completed.                                                            *)
SaveCheckpoint(after) ==
    /\ Auditing("checkpoint")
    /\ store' = [store EXCEPT !.checkpoint = Checkpoint(FALSE)]
    /\ proc' = [proc EXCEPT !.pc = IF proc.active = None THEN "open" ELSE after]
    /\ UNCHANGED <<implementation, archive, faults>>

AllOpened ==
    /\ Auditing("open") /\ Pending = {}
    /\ proc' = [proc EXCEPT !.pc = "final"]
    /\ UNCHANGED <<implementation, archive, store, faults>>

FinalCheckpoint ==
    /\ Auditing("final")
    /\ store' = [store EXCEPT !.checkpoint =
                   Checkpoint(~proc.exhausted /\ proc.completed = Sources)]
    /\ proc' = [proc EXCEPT !.pc = "report"]
    /\ UNCHANGED <<implementation, archive, faults>>

-----------------------------------------------------------------------------
(* _matches_for and the query of exposure_rows: where the identities of an   *)
(* exposed row are, over the indexed sources.                                *)
Matched(rows, sources, r) ==
    UNION {{<<i, hit[1]>> : hit \in {h \in rows[i] : h[2] \in Exposed[r]}} : i \in sources}

Found(rows, sources, id) ==
    UNION {{<<i, hit[1]>> : hit \in {h \in rows[i] : h[2] = id}} : i \in sources}

(* The three files of a report, over the sources an index has. *)
ReportOf(rows, sources, stats) ==
    [matches |-> [r \in Rows |-> Matched(rows, sources, r)],
     coverage |-> [i \in Sources |->
        IF stats[i] = None THEN None
        ELSE [stat |-> stats[i],
              matched |-> IF i \in sources THEN Cardinality({h \in rows[i] : h[2] \in Targets}) ELSE 0]],
     collisions |-> {id \in Identity : Cardinality(Found(rows, sources, id)) > 1}]

ComputeReport(sources) ==
    /\ Auditing("report")
    /\ proc' = [proc EXCEPT !.pc = "publish", !.out = 1,
                  !.report = ReportOf(store.index.rows, sources, proc.stats)]
    /\ UNCHANGED <<implementation, archive, store, faults>>

(* The files are replaced one after the other. *)
PublishOutput ==
    /\ Auditing("publish")
    /\ LET name == Outputs[proc.out] IN
        store' = [store EXCEPT ![name] = proc.report[name]]
    /\ proc' = IF proc.out < 3 THEN [proc EXCEPT !.out = @ + 1]
               ELSE [proc EXCEPT !.pc = "manifest"]
    /\ UNCHANGED <<implementation, archive, faults>>

(* What the manifest says: complete only when every source is. *)
ManifestOf(report) ==
    [complete |-> /\ ~proc.exhausted /\ proc.completed = Sources
                  /\ \A i \in Sources : proc.stats[i].complete,
     stats |-> proc.stats, outputs |-> report]

WriteManifest ==
    /\ Auditing("manifest")
    /\ store' = [store EXCEPT !.manifest = ManifestOf(proc.report),
                              !.doubtful = store.orphaned # {}]
    /\ proc' = Idle
    /\ UNCHANGED <<implementation, archive, faults>>

AuditInit ==
    /\ implementation \in {"sqlite", "partitioned"}
    /\ archive = [i \in Sources |-> 1]
    /\ store = NoStore
    /\ proc = Idle
    /\ faults = 0
=============================================================================
