-------------------------------- MODULE Ingest --------------------------------
(***************************************************************************)
(* What the ingest commands share (ingest/): archives and their registry,  *)
(* tombstones, stable-rank retention, the files of each stage, and a       *)
(* process that may end at any step.  Discovery, Hydration and CorpusBuild *)
(* extend this module with the steps of one command each.                  *)
(*                                                                         *)
(* Commands run one at a time.  A hash of a file or of the inputs of a run *)
(* is modelled by what is hashed.                                          *)
(***************************************************************************)
EXTENDS Integers, Sequences, FiniteSets, SequencesExt

CONSTANTS
    Message,      \* messages of the archives: name, revision, thread, parent
    Archive,      \* registered sources, in order: a role and lines
    Malformed,    \* a line normalize_record refuses
    Quarantined,  \* a line that is not a JSON object
    Tombstone,    \* records the operator may add to the ledger
    AnyRevision,  \* a record for all revisions of a message
    Topic,        \* names a discovery rule selects
    Rank,         \* stable_rank of each name under the seed
    ControlRank,  \* stable_rank of each name under seed + 1
    None,         \* an absent file, a missing parent
    MaxFaults     \* bound on failures and interruptions

Name == {m.name : m \in Message}
Sources == 1 .. Len(Archive)

ASSUME ArchiveAssumption ==
    /\ Archive \in Seq([role : {"discovery", "context_only"},
                        lines : Seq(Message \union {Malformed, Quarantined})])
    /\ Malformed \notin Message /\ Quarantined \notin Message \union {Malformed}

ASSUME RankAssumption ==
    \A f \in {Rank, ControlRank} :
        f \in [Name -> Nat] /\ \A a, b \in Name : f[a] = f[b] => a = b

ASSUME FaultAssumption == MaxFaults \in Nat

VARIABLES
    registry,  \* the status of each source in the registry file
    ledger,    \* the tombstone ledger given to every command
    disk,      \* the files of the three stages
    proc,      \* the command that is running, with its locals
    faults     \* failures so far

vars == <<registry, ledger, disk, proc, faults>>

-----------------------------------------------------------------------------
Idle == [cmd |-> "none"]

NoFiles == [selection |-> None, selectionManifest |-> None,
            checkpoint |-> None, context |-> None, controls |-> None,
            hydrationManifest |-> None,
            staged |-> None, corpus |-> None, corpusManifest |-> None]

Status == {"registered", "complete", "complete_with_errors", "failed"}

(* TombstoneLedger.matches. *)
Deleted(m, tombstones) ==
    \E t \in tombstones : t.message = m.name /\ t.revision \in {AnyRevision, m.revision}

Names(S) == {m.name : m \in S}

(* Seeded fault: one message more than the capacity is kept. *)
OfferOneMore(kept, m, rank, capacity) ==
    IF m.name \in Names(kept) \/ Cardinality(kept) > capacity THEN kept ELSE kept \union {m}

(* Seeded fault: what was met first is kept. *)
OfferFirst(kept, m, rank, capacity) ==
    IF m.name \in Names(kept) \/ Cardinality(kept) >= capacity THEN kept ELSE kept \union {m}

(* _RankRetainer.offer and retain_lowest_ranked: a name that is kept stays; *)
(* at capacity the worst rank makes room for a lower one.  The root of the  *)
(* heap is the worst kept message; with no capacity there is none to read.  *)
Offer(kept, m, rank, capacity) ==
    IF m.name \in Names(kept) THEN kept
    ELSE IF Cardinality(kept) < capacity THEN kept \union {m}
    ELSE LET worst == CHOOSE w \in kept : \A k \in kept : rank[k.name] <= rank[w.name] IN
         IF rank[m.name] < rank[worst.name] THEN (kept \ {worst}) \union {m} ELSE kept

(* The status a completely read source gets: quarantined rows are errors.  *)
Validated(i) ==
    IF Quarantined \in ToSet(Archive[i].lines) THEN "complete_with_errors" ELSE "complete"

Lines(i) == Archive[i].lines

(* A failure, an interruption: at most MaxFaults of them. *)
Fault == faults < MaxFaults /\ faults' = faults + 1

(* The process ends; what it held in memory is gone. *)
Crash ==
    /\ proc.cmd # "none"
    /\ Fault
    /\ proc' = Idle
    /\ UNCHANGED <<registry, ledger, disk>>

(* The operator adds to the ledger between two commands. *)
AddTombstone ==
    /\ proc.cmd = "none"
    /\ \E t \in Tombstone \ ledger : ledger' = ledger \union {t}
    /\ UNCHANGED <<registry, disk, proc, faults>>

(* register_source_set: every source is declared again, as unread. *)
RegisterSources ==
    /\ proc.cmd = "none"
    /\ registry' = [i \in Sources |-> "registered"]
    /\ UNCHANGED <<ledger, disk, proc, faults>>

(* validate_registered_sources: all sources are read, one of them perhaps    *)
(* without success, and the registry is replaced at the end.                 *)
ValidateSources ==
    /\ proc.cmd = "none"
    /\ registry' = [i \in Sources |-> Validated(i)]
    /\ UNCHANGED <<ledger, disk, proc, faults>>

ValidationFails ==
    /\ proc.cmd = "none"
    /\ Fault
    /\ \E failed \in Sources :
        registry' = [i \in Sources |-> IF i = failed THEN "failed" ELSE Validated(i)]
    /\ UNCHANGED <<ledger, disk, proc>>

IngestInit ==
    /\ registry = [i \in Sources |-> "registered"]
    /\ ledger = {}
    /\ disk = NoFiles
    /\ proc = Idle
    /\ faults = 0
=============================================================================
