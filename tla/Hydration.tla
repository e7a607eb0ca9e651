------------------------------- MODULE Hydration -------------------------------
(***************************************************************************)
(* run_hydration (ingest/hydration.py): one pass over every source keeps   *)
(* the lowest-ranked messages of the selected threads as context and, from *)
(* the other threads, as controls.  The progress of the pass is saved in a *)
(* checkpoint that a later run of the same identity resumes from.          *)
(***************************************************************************)
EXTENDS Ingest

CONSTANTS
    MaxContext,          \* max_context_messages
    ControlTarget,       \* control_target
    CheckpointInterval,  \* records of one source between two checkpoints
    ScanLimits           \* values of max_records

ASSUME HydrationAssumption ==
    /\ MaxContext \in Nat \ {0} /\ ControlTarget \in Nat
    /\ CheckpointInterval \in Nat \ {0} /\ ScanLimits \subseteq Nat

(* The identity of a run; the sources do not change here. *)
HydrationRun(limit) == [ledger |-> ledger, selection |-> disk.selection, limit |-> limit]

(* The selected messages that are not deleted, and their threads. *)
Selected(run) == {m \in run.selection : ~Deleted(m, run.ledger)}
Threads(run) == {m.thread : m \in Selected(run)}

NoCount == [processed |-> 0, matched |-> 0, rejected |-> 0, tombstoned |-> 0]

(* What a checkpoint holds: the sources before at are completed, and the    *)
(* first line lines of source at were read (active_source, if any).         *)
Beginning(run) ==
    [at |-> 1, line |-> 0, count |-> NoCount, reports |-> <<>>,
     context |-> {}, contextCandidates |-> 0,
     controls |-> {}, controlCandidates |-> 0,
     fromContextOnly |-> 0, scanned |-> 0,
     tombstoned |-> Cardinality(run.selection \ Selected(run))]

Hydrating == proc.cmd = "hydrate" /\ proc.pc = "scan"

(* With every selected message deleted no source is read. *)
Reading == Hydrating /\ proc.progress.at <= Len(Archive) /\ Selected(proc.run) # {}
Present == proc.progress.at
HasLine == proc.progress.line < Len(Lines(Present))
Line == Lines(Present)[proc.progress.line + 1]

(* _restore_retainer: the rows of a checkpoint are offered again. *)
Restored(kept, rank, capacity) ==
    FoldSet(LAMBDA m, found : Offer(found, m, rank, capacity), {}, kept)

(* _load_hydration_checkpoint: where a run goes on. *)
Resumed(run) ==
    IF disk.checkpoint = None THEN Beginning(run)
    ELSE [disk.checkpoint.progress EXCEPT
            !.context = Restored(@, Rank, MaxContext),
            !.controls = Restored(@, ControlRank, ControlTarget)]

(* Seeded fault: the manifest of an interrupted run refuses the next one. *)
StartWithoutManifest ==
    /\ proc.cmd = "none"
    /\ disk.selection \notin {None, {}}
    /\ disk.hydrationManifest = None /\ disk.context = None /\ disk.controls = None
    /\ \E limit \in ScanLimits :
        LET run == HydrationRun(limit) IN
        /\ disk.checkpoint # None => disk.checkpoint.run = run
        /\ proc' = [cmd |-> "hydrate", pc |-> "scan", run |-> run, complete |-> TRUE,
                    status |-> registry,
                    progress |-> Resumed(run)]
    /\ UNCHANGED <<registry, ledger, disk, faults>>

(* Shards without a manifest, and a manifest or checkpoint of another run,  *)
(* are refused; a complete manifest of this run is returned.  Otherwise the *)
(* checkpoint is resumed.                                                   *)
StartHydration ==
    /\ proc.cmd = "none"
    /\ disk.selection \notin {None, {}}
    /\ \E limit \in ScanLimits :
        LET run == HydrationRun(limit) IN
        /\ IF disk.hydrationManifest = None
           THEN disk.context = None /\ disk.controls = None
           ELSE disk.hydrationManifest.run = run /\ ~disk.hydrationManifest.complete
        /\ disk.checkpoint # None => disk.checkpoint.run = run
        /\ proc' = [cmd |-> "hydrate", pc |-> "scan", run |-> run, complete |-> TRUE,
                    status |-> registry,
                    progress |-> Resumed(run)]
    /\ UNCHANGED <<registry, ledger, disk, faults>>

(* Seeded fault: a resumed run reads the source from its first line. *)
RereadCheckpoint(progress) == [run |-> proc.run, progress |-> [progress EXCEPT !.line = 0]]

Checkpoint(progress) == [run |-> proc.run, progress |-> progress]

(* A source that is registered as failed is reported as skipped. *)
SkipSource ==
    /\ Reading
    /\ proc.status[Present] = "failed"
    /\ LET next == [proc.progress EXCEPT !.at = @ + 1, !.line = 0, !.count = NoCount,
                       !.reports = Append(@, [status |-> "skipped", count |-> NoCount])] IN
        /\ proc' = [proc EXCEPT !.progress = next]
        /\ disk' = [disk EXCEPT !.checkpoint = Checkpoint(next)]
    /\ UNCHANGED <<registry, ledger, faults>>

Counted(p, field) ==
    [p EXCEPT !.line = @ + 1, !.scanned = @ + 1, !.count.processed = @ + 1, !.count[field] = @ + 1]

(* What the record m does to the progress p of the pass. *)
Classified(m, p) ==
    CASE m = Malformed -> Counted(p, "rejected")
      [] m # Malformed /\ Deleted(m, proc.run.ledger) ->
           [Counted(p, "tombstoned") EXCEPT !.tombstoned = @ + 1]
      [] m # Malformed /\ ~Deleted(m, proc.run.ledger) /\ m.name \in Names(Selected(proc.run)) ->
           Counted(p, "matched")
      [] OTHER ->
           IF m.thread \in Threads(proc.run)
           THEN [Counted(p, "matched") EXCEPT
                   !.context = Offer(@, m, Rank, MaxContext),
                   !.contextCandidates = @ + 1,
                   !.fromContextOnly = IF Archive[p.at].role = "context_only" THEN @ + 1 ELSE @]
           ELSE IF ControlTarget = 0 THEN Counted(p, "rejected")
           ELSE [Counted(p, "rejected") EXCEPT
                   !.controls = Offer(@, m, ControlRank, ControlTarget),
                   !.controlCandidates = @ + 1]

(* One line; a checkpoint is written every CheckpointInterval records. *)
HydrateRecord ==
    /\ Reading /\ proc.status[Present] # "failed"
    /\ HasLine
    /\ IF Line = Quarantined
       THEN proc' = [proc EXCEPT !.progress.line = @ + 1] /\ UNCHANGED disk
       ELSE LET next == Classified(Line, proc.progress) IN
            /\ proc.progress.scanned < proc.run.limit
            /\ proc' = [proc EXCEPT !.progress = next]
            /\ disk' = IF next.count.processed % CheckpointInterval = 0
                       THEN [disk EXCEPT !.checkpoint = Checkpoint(next)] ELSE disk
    /\ UNCHANGED <<registry, ledger, faults>>

Stop(status) ==
    proc' = [proc EXCEPT !.pc = "publish", !.complete = FALSE, !.status = status]

(* Another record beyond max_records: the run is incomplete. *)
HydrationLimit ==
    /\ Reading /\ proc.status[Present] # "failed"
    /\ HasLine /\ Line # Quarantined
    /\ proc.progress.scanned >= proc.run.limit
    /\ Stop(proc.status)
    /\ UNCHANGED <<registry, ledger, disk, faults>>

(* A SourceReadError marks the source in the registry row held in memory. *)
SourceFails ==
    /\ Reading /\ proc.status[Present] # "failed"
    /\ Fault
    /\ Stop([proc.status EXCEPT ![Present] = "failed"])
    /\ UNCHANGED <<registry, ledger, disk>>

(* The memory or the output budget is breached. *)
HydrationBudget ==
    /\ Hydrating
    /\ Fault
    /\ Stop(proc.status)
    /\ UNCHANGED <<registry, ledger, disk>>

SourceEnds ==
    /\ Reading /\ proc.status[Present] # "failed"
    /\ ~HasLine
    /\ LET next == [proc.progress EXCEPT !.at = @ + 1, !.line = 0, !.count = NoCount,
                       !.reports = Append(@, [status |-> "read", count |-> proc.progress.count])] IN
        /\ proc' = [proc EXCEPT !.progress = next]
        /\ disk' = [disk EXCEPT !.checkpoint = Checkpoint(next)]
    /\ UNCHANGED <<registry, ledger, faults>>

AllRead ==
    /\ Hydrating /\ ~Reading
    /\ proc' = [proc EXCEPT !.pc = "publish"]
    /\ UNCHANGED <<registry, ledger, disk, faults>>

-----------------------------------------------------------------------------
(* _publish_hydration_outputs: the context shard (with the selected         *)
(* messages), then the control shard; a failure removes what was published. *)
PublishContext ==
    /\ proc.cmd = "hydrate" /\ proc.pc = "publish" /\ proc.complete
    /\ disk' = [disk EXCEPT !.context = Selected(proc.run) \union proc.progress.context]
    /\ proc' = [proc EXCEPT !.pc = "controls"]
    /\ UNCHANGED <<registry, ledger, faults>>

PublishControls ==
    /\ proc.cmd = "hydrate" /\ proc.pc = "controls"
    /\ disk' = [disk EXCEPT !.controls = proc.progress.controls]
    /\ proc' = [proc EXCEPT !.pc = "manifest"]
    /\ UNCHANGED <<registry, ledger, faults>>

PublishFails ==
    /\ proc.cmd = "hydrate" /\ proc.pc = "controls"
    /\ Fault
    /\ disk' = [disk EXCEPT !.context = None]
    /\ proc' = Idle
    /\ UNCHANGED <<registry, ledger>>

(* An incomplete run removes both shards. *)
Withhold ==
    /\ proc.cmd = "hydrate" /\ proc.pc = "publish" /\ ~proc.complete
    /\ disk' = [disk EXCEPT !.context = None, !.controls = None]
    /\ proc' = [proc EXCEPT !.pc = "manifest"]
    /\ UNCHANGED <<registry, ledger, faults>>

WriteHydrationManifest ==
    /\ proc.cmd = "hydrate" /\ proc.pc = "manifest"
    /\ disk' = [disk EXCEPT !.hydrationManifest =
                  [run |-> proc.run, complete |-> proc.complete, progress |-> proc.progress]]
    /\ proc' = [proc EXCEPT !.pc = "registry"]
    /\ UNCHANGED <<registry, ledger, faults>>

PersistRegistry ==
    /\ proc.cmd = "hydrate" /\ proc.pc = "registry"
    /\ registry' = proc.status
    /\ proc' = IF proc.complete THEN [proc EXCEPT !.pc = "checkpoint"] ELSE Idle
    /\ UNCHANGED <<ledger, disk, faults>>

RemoveCheckpoint ==
    /\ proc.cmd = "hydrate" /\ proc.pc = "checkpoint"
    /\ disk' = [disk EXCEPT !.checkpoint = None]
    /\ proc' = Idle
    /\ UNCHANGED <<registry, ledger, faults>>

HydrationStep ==
    \/ SkipSource
    \/ HydrateRecord
    \/ HydrationLimit
    \/ SourceEnds
    \/ AllRead
    \/ PublishContext
    \/ PublishControls
    \/ Withhold
    \/ WriteHydrationManifest
    \/ PersistRegistry
    \/ RemoveCheckpoint

Hydrate == StartHydration \/ HydrationStep \/ SourceFails \/ HydrationBudget \/ PublishFails
=============================================================================
