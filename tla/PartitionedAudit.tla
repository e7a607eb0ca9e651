--------------------------- MODULE PartitionedAudit ---------------------------
(***************************************************************************)
(* audit_registered_archives_partitioned (archive_partitioned.py): only    *)
(* the messages that are exposed are indexed, in partitions that are       *)
(* staged for each source and then take their final name.                  *)
(***************************************************************************)
EXTENDS ArchiveAudit

CONSTANT CommitEvery  \* rows between two commits and budget checks of a source

ASSUME CommitAssumption == CommitEvery \in Nat \ {0}

Partitioned == implementation = "partitioned"

(* The rows of a directory that may not exist. *)
Held(directory) == IF directory = None THEN {} ELSE directory

(* _partition_metadata: a partition exists from its first row on, and is     *)
(* found by its path, in a staging directory too.                            *)
Files(index) ==
    [rows |-> [i \in Sources |-> Held(index.rows[i])], staging |-> Held(index.staging)]

Index == IF store.index = None THEN NoIndex ELSE store.index

(* Sources with a directory. *)
Present == {i \in Sources : Index.rows[i] # None}

Kept(checkpoint) == {i \in Sources : 1 .. i \subseteq Resumable(checkpoint) \intersect Present}

(* A directory without a checkpoint, and partitions other than those the     *)
(* checkpoint names, are refused; the directories of sources that are not    *)
(* kept are removed.                                                         *)
StartPartitioned ==
    /\ Partitioned
    /\ proc.cmd = "none"
    /\ IF store.checkpoint = None
       THEN Index = NoIndex /\ proc' = Began({}, NoStats) /\ store' = [store EXCEPT !.index = NoIndex]
       ELSE LET kept == Kept(store.checkpoint) IN
            /\ Files(Index) = Files(store.checkpoint.index)
            /\ proc' = Began(kept, store.checkpoint.stats)
            /\ store' = [store EXCEPT !.index =
                  [rows |-> [i \in Sources |-> IF i \in kept THEN Index.rows[i] ELSE None],
                   staging |-> None]]
    /\ UNCHANGED <<implementation, archive, faults>>

(* The index or the free disk is found beyond its budget. *)
Breach == Fault

PartitionedOpen == Partitioned /\ OpenWith([store.index EXCEPT !.staging = {}])

PartitionedRead ==
    /\ Partitioned
    /\ ReadLine(Targets)
    /\ store' = [store EXCEPT !.index.staging = proc'.rows]

(* The budget check between two commits raises out of the command. *)
PartitionedRaise ==
    /\ Partitioned /\ Auditing("scan")
    /\ Cardinality(proc.rows) > 0 /\ Cardinality(proc.rows) % CommitEvery = 0
    /\ Breach
    /\ proc' = Idle
    /\ UNCHANGED <<implementation, archive, store>>

(* A completed source: its staging directory becomes its directory. *)
PartitionedAccept ==
    /\ Partitioned /\ Auditing("ended")
    /\ SourceComplete
    /\ store' = [store EXCEPT !.index.rows[proc.at] = store.index.staging, !.index.staging = None]
    /\ proc' = [proc EXCEPT !.pc = "checkpoint", !.completed = @ \union {proc.at},
                  !.stats[proc.at] = Report]
    /\ UNCHANGED <<implementation, archive, faults>>

Drop ==
    /\ Partitioned /\ Auditing("ended")
    /\ store' = [store EXCEPT !.index.staging = None]

(* Any other source is dropped. *)
PartitionedReject ==
    /\ Drop
    /\ ~SourceComplete
    /\ proc' = [proc EXCEPT !.pc = "checkpoint", !.active = proc.at, !.stats[proc.at] = Report]
    /\ UNCHANGED <<implementation, archive, faults>>

PartitionedBudget ==
    /\ Drop
    /\ Breach
    /\ proc' = [proc EXCEPT !.pc = "checkpoint", !.active = proc.at, !.stats[proc.at] = Report,
                  !.exhausted = TRUE]
    /\ UNCHANGED <<implementation, archive>>

PartitionedCheckpoint == Partitioned /\ SaveCheckpoint("final")

(* The partitions of the completed sources are matched. *)
PartitionedReport == Partitioned /\ ComputeReport(proc.completed)

Empty == [name \in {"matches", "coverage", "collisions"} |-> None]

(* The budget is checked before the files are replaced: none is, and the     *)
(* manifest has empty ones.                                                  *)
PartitionedWithhold ==
    /\ Partitioned /\ Auditing("publish") /\ proc.out = 1
    /\ Breach
    /\ proc' = [proc EXCEPT !.pc = "manifest", !.report = Empty, !.exhausted = TRUE]
    /\ UNCHANGED <<implementation, archive, store>>

PartitionedStep ==
    \/ PartitionedOpen
    \/ PartitionedRead
    \/ PartitionedAccept
    \/ PartitionedReject
    \/ PartitionedCheckpoint
    \/ PartitionedReport
=============================================================================
