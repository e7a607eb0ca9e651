------------------------------- MODULE Discovery -------------------------------
(***************************************************************************)
(* run_discovery (ingest/pilot.py): one pass over the discovery sources    *)
(* keeps the lowest-ranked messages a rule selects, and publishes a shard  *)
(* and then its manifest.                                                  *)
(***************************************************************************)
EXTENDS Ingest

CONSTANTS
    Target,      \* messages to select
    RecordLimits \* values of max_records

ASSUME DiscoveryAssumption == Target \in Nat \ {0} /\ RecordLimits \subseteq Nat \ {0}

DiscoverySources == {i \in Sources : Archive[i].role = "discovery"}

(* The discovery source that is read after source i, or the end. *)
NextSource(i) == Min({j \in DiscoverySources : j > i} \union {Len(Archive) + 1})

(* The identity of a run: the sources, rules and target do not change here. *)
DiscoveryRun(limit) == [ledger |-> ledger, limit |-> limit]

Discovering == proc.cmd = "discover" /\ proc.pc = "scan"
AtSource == proc.at <= Len(Archive)
Source == proc.at

(* Existing files are either returned (a pair of this run) or refused: the  *)
(* command goes on only when neither is there.                              *)
StartDiscovery ==
    /\ proc.cmd = "none"
    /\ disk.selection = None /\ disk.selectionManifest = None
    /\ \E limit \in RecordLimits :
        proc' = [cmd |-> "discover", pc |-> "scan", run |-> DiscoveryRun(limit),
                 at |-> NextSource(0), line |-> 1, kept |-> {}, scanned |-> 0, complete |-> TRUE,
                 status |-> registry]
    /\ UNCHANGED <<registry, ledger, disk, faults>>

(* A malformed, deleted or unselected record is counted only. *)
Selectable(line) ==
    /\ line \in Message
    /\ ~Deleted(line, proc.run.ledger)
    /\ line.name \in Topic

(* retain_lowest_ranked: the Target lowest ranks. *)
Retained(kept, m) == Offer(kept, m, Rank, Target)

Readable == proc.status[Source] \in {"registered", "complete"}

ScanRecord ==
    /\ Discovering /\ AtSource /\ Readable
    /\ proc.line <= Len(Lines(Source))
    /\ LET line == Lines(Source)[proc.line] IN
        IF line = Quarantined THEN proc' = [proc EXCEPT !.line = @ + 1]
        ELSE /\ proc.scanned < proc.run.limit
             /\ proc' = [proc EXCEPT !.line = @ + 1, !.scanned = @ + 1,
                            !.kept = IF Selectable(line) THEN Retained(@, line) ELSE @]
    /\ UNCHANGED <<registry, ledger, disk, faults>>

(* The record limit ends the reading of this source, and the selection is   *)
(* marked as that of an incomplete scan.                                    *)
ScanLimit ==
    /\ Discovering /\ AtSource /\ Readable
    /\ proc.line <= Len(Lines(Source))
    /\ Lines(Source)[proc.line] # Quarantined
    /\ proc.scanned >= proc.run.limit
    /\ proc' = [proc EXCEPT !.at = NextSource(@), !.line = 1, !.complete = FALSE]
    /\ UNCHANGED <<registry, ledger, disk, faults>>

(* record_reader_validation: errors in the source end the command, with the *)
(* registry of the moment.                                                  *)
SourceRead ==
    /\ Discovering /\ AtSource /\ Readable
    /\ proc.line > Len(Lines(Source))
    /\ LET status == [proc.status EXCEPT ![Source] = Validated(Source)] IN
        IF status[Source] = "complete"
        THEN /\ proc' = [proc EXCEPT !.at = NextSource(@), !.line = 1, !.status = status]
             /\ UNCHANGED registry
        ELSE proc' = Idle /\ registry' = status
    /\ UNCHANGED <<ledger, disk, faults>>

SourceUnreadable ==
    /\ Discovering /\ AtSource /\ Readable
    /\ Fault
    /\ registry' = [proc.status EXCEPT ![Source] = "failed"]
    /\ proc' = Idle
    /\ UNCHANGED <<ledger, disk>>

(* A source that is failed, or complete with errors, is refused. *)
SourceRefused ==
    /\ Discovering /\ AtSource /\ ~Readable
    /\ proc' = Idle
    /\ UNCHANGED <<registry, ledger, disk, faults>>

(* The memory budget is breached while scanning or before publication: an   *)
(* incomplete manifest is written, and no shard.                            *)
DiscoveryBudget ==
    /\ Discovering
    /\ Fault
    /\ disk' = [disk EXCEPT !.selection = None,
                  !.selectionManifest = [run |-> proc.run, complete |-> FALSE, rows |-> None]]
    /\ registry' = IF AtSource THEN registry ELSE proc.status
    /\ proc' = Idle
    /\ UNCHANGED ledger

(* The shard is written first and the manifest after it. *)
PublishSelection ==
    /\ Discovering /\ ~AtSource
    /\ registry' = proc.status
    /\ disk' = [disk EXCEPT !.selection = proc.kept]
    /\ proc' = [proc EXCEPT !.pc = "manifest"]
    /\ UNCHANGED <<ledger, faults>>

WriteSelectionManifest ==
    /\ proc.cmd = "discover" /\ proc.pc = "manifest"
    /\ disk' = [disk EXCEPT !.selectionManifest =
                  [run |-> proc.run, complete |-> proc.complete, rows |-> disk.selection]]
    /\ proc' = Idle
    /\ UNCHANGED <<registry, ledger, faults>>

DiscoveryStep ==
    \/ ScanRecord
    \/ ScanLimit
    \/ SourceRead
    \/ SourceRefused
    \/ PublishSelection
    \/ WriteSelectionManifest

Discover == StartDiscovery \/ DiscoveryStep \/ SourceUnreadable \/ DiscoveryBudget
=============================================================================
