----------------------------- MODULE SQLiteAudit -----------------------------
(***************************************************************************)
(* audit_registered_archives (evaluation/archive_audit.py) with a          *)
(* checkpoint: the messages of all sources are rows of one database, which *)
(* a resumed run opens again.                                              *)
(***************************************************************************)
EXTENDS ArchiveAudit

Sqlite == implementation = "sqlite"

(* The rows of the sources that are kept; those of all others are deleted. *)
Retained(index, completed) ==
    [index EXCEPT !.rows = [i \in Sources |-> IF i \in completed THEN index.rows[i] ELSE {}]]

EmptyIndex == [rows |-> [i \in Sources |-> {}], staging |-> None]

Resume(completed) ==
    /\ proc.cmd = "none"
    /\ store.checkpoint # None
    /\ store' = [store EXCEPT !.index = Retained(@, completed)]
    /\ proc' = Began(completed, store.checkpoint.stats)

(* An index without a checkpoint is refused. *)
StartSqlite ==
    /\ Sqlite
    /\ IF store.checkpoint = None
       THEN /\ proc.cmd = "none"
            /\ store.index = None
            /\ store' = [store EXCEPT !.index = EmptyIndex]
            /\ proc' = Began({}, NoStats)
       ELSE Resume(Resumable(store.checkpoint))
    /\ UNCHANGED <<implementation, archive, faults>>

(* A source whose fingerprint cannot be read now ends the list of those that *)
(* are kept; the rows of the others are deleted although the checkpoint      *)
(* still names them.                                                         *)
StartUnreadable ==
    /\ Sqlite
    /\ store.checkpoint # None
    /\ Fault
    /\ \E i \in Resumable(store.checkpoint) : Resume(1 .. i - 1)
    /\ UNCHANGED <<implementation, archive>>

(* The sources the checkpoint still names of which this run deleted the rows *)
(* and has not the same version again.                                       *)
Overdrawn ==
    IF Sqlite /\ proc.cmd = "audit" /\ store.checkpoint # None
      THEN {i \in store.checkpoint.completed :
              i \in proc.completed => proc.stats[i].version # store.checkpoint.stats[i].version}
      ELSE {}

SqliteOpen == Sqlite /\ OpenWith([store.index EXCEPT !.rows[ToOpen] = {}])

(* The rows are in the open transaction. *)
SqliteRead == Sqlite /\ ReadLine(Identity) /\ UNCHANGED store

(* A completed source is committed, then recorded. *)
SqliteAccept ==
    /\ Sqlite /\ Auditing("ended")
    /\ SourceComplete
    /\ store' = [store EXCEPT !.index.rows[proc.at] = proc.rows, !.orphaned = @ \ {proc.at}]
    /\ proc' = [proc EXCEPT !.pc = "checkpoint", !.completed = @ \union {proc.at},
                  !.stats[proc.at] = Report]
    /\ UNCHANGED <<implementation, archive, faults>>

(* The rows of a source with errors stay, those of a source with another     *)
(* checksum do not; they are committed after the checkpoint.                 *)
SqliteReject ==
    /\ Sqlite /\ Auditing("ended")
    /\ ~SourceComplete
    /\ proc' = [proc EXCEPT !.pc = "checkpoint", !.active = proc.at, !.stats[proc.at] = Report,
                  !.rows = IF Mismatch THEN {} ELSE @]
    /\ UNCHANGED <<implementation, archive, store, faults>>

(* The memory or the output budget is breached: the rows are deleted. *)
SqliteBudget ==
    /\ Sqlite /\ Auditing("ended")
    /\ Fault
    /\ proc' = [proc EXCEPT !.pc = "checkpoint", !.active = proc.at, !.stats[proc.at] = Report,
                  !.rows = {}, !.exhausted = TRUE]
    /\ UNCHANGED <<implementation, archive, store>>

SqliteCheckpoint == Sqlite /\ SaveCheckpoint("flush")

SqliteFlush ==
    /\ Sqlite /\ Auditing("flush")
    /\ store' = [store EXCEPT !.index.rows[proc.active] = proc.rows]
    /\ proc' = [proc EXCEPT !.pc = "final"]
    /\ UNCHANGED <<implementation, archive, faults>>

(* Every row of the index is matched, those of a rejected source too. *)
SqliteReport == Sqlite /\ ComputeReport(Sources)

SqliteStep ==
    \/ SqliteOpen
    \/ SqliteRead
    \/ SqliteAccept
    \/ SqliteReject
    \/ SqliteCheckpoint
    \/ SqliteFlush
    \/ SqliteReport
=============================================================================
