------------------------------ MODULE CorpusBuild ------------------------------
(***************************************************************************)
(* build_corpus_index (corpus/baseline.py): the selected messages, each    *)
(* with the context that ContextBuilder (ingest/hydrate.py) finds for it,  *)
(* are indexed in a staging database, which then replaces the output.      *)
(***************************************************************************)
EXTENDS Ingest

CONSTANT MaxParents  \* max_parent_messages of ContextBuilder

ASSUME ParentAssumption == MaxParents \in Nat \ {0}

(* A thread is named after a submission, whose thread is its own name. *)
ASSUME ThreadAssumption == \A m, r \in Message : r.name = m.thread => r.thread = r.name

(* The identity of a build; the shard of context is optional. *)
CorpusRun(shard) == [ledger |-> ledger, selection |-> disk.selection, context |-> shard]

Live(S, run) == {m \in S : ~Deleted(m, run.ledger)}
Indexed(run) == Live(run.selection, run)

(* Seeded fault: the context shard is taken as it is. *)
UnfilteredRows(run) == IF run.context = None THEN {} ELSE run.context

ContextRows(run) == IF run.context = None THEN {} ELSE Live(run.context, run)

(* messages_by_fullname: a row of the context shard replaces a selected one. *)
Known(run) ==
    LET rows == ContextRows(run)
        chosen == rows \union {m \in Indexed(run) : m.name \notin Names(rows)}
    IN [n \in Names(chosen) |-> CHOOSE m \in chosen : m.name = n]

(* One ancestor further up, unless there is no parent, it is not known, or   *)
(* it was met before.                                                       *)
Up(focus, known, c) ==
    IF c.next = None THEN c
    ELSE IF c.next \notin DOMAIN known \/ c.next \in {focus.name} \union Names(ToSet(c.path))
    THEN [c EXCEPT !.next = None, !.missing = {c.next}]
    ELSE [c EXCEPT !.next = known[c.next].parent, !.path = Append(@, known[c.next])]

(* The way up from focus: at most MaxParents ancestors, nearest first.       *)
Climb(focus, known) ==
    LET up[k \in 0 .. MaxParents] ==
            IF k = 0 THEN [next |-> focus.parent, path |-> <<>>, missing |-> {}]
            ELSE Up(focus, known, up[k - 1])
    IN up[MaxParents]

(* Seeded fault: a context that was cut is not marked. *)
UncutUnitOf(focus, known) ==
    LET climb == Climb(focus, known) IN
    [focus |-> focus, quotes |-> ToSet(climb.path), missing |-> climb.missing, truncated |-> FALSE]

(* ContextBuilder.build and build_message_units: the root of the thread is   *)
(* quoted too when it is known, and missing when a comment's is not.         *)
UnitOf(focus, known) ==
    LET climb == Climb(focus, known)
        root == focus.thread
        missing == climb.missing \union
                     IF root \notin DOMAIN known /\ focus.name # root THEN {root} ELSE {}
    IN [focus |-> focus,
        quotes |-> ToSet(climb.path) \union
                     IF root \in DOMAIN known /\ root # focus.name THEN {known[root]} ELSE {},
        missing |-> missing,
        truncated |-> climb.next # None]

UnitsOf(run) ==
    LET known == Known(run) IN {UnitOf(known[m.name], known) : m \in Indexed(run)}

ContextComplete(u) == u.missing = {} /\ ~u.truncated

(* The outputs the tombstone audit can be given, by kind: of a corpus it    *)
(* reads the messages of the rows, not their context.                       *)
Persisted(files) ==
    [selection_shard |-> files.selection,
     hydrated_context_shard |-> files.context,
     rejected_controls_shard |-> files.controls,
     corpus_sqlite |-> IF files.corpus = None THEN None ELSE {u.focus : u \in files.corpus}]

(* _audit_artifact and _audit_rows: an output is stale when a record of the  *)
(* ledger matches a message in it.                                           *)
Audited(rows, records) ==
    LET matched == IF rows = None THEN {} ELSE {t \in records : \E m \in rows : Deleted(m, {t})} IN
    [status |-> IF rows = None THEN "missing" ELSE IF matched = {} THEN "clean" ELSE "stale",
     matched |-> matched,
     unmatched |-> records \ matched]

(* audit_tombstone_outputs, for the kinds of output that are supplied. *)
AuditTombstoneOutputs(files, supplied, records) ==
    [kind \in supplied |-> Audited(Persisted(files)[kind], records)]

AllSuppliedClean(report) == \A kind \in DOMAIN report : report[kind].status = "clean"

-----------------------------------------------------------------------------
Building == proc.cmd = "corpus"

(* An output and its manifest are returned or refused; one without the other *)
(* is refused.                                                               *)
StartCorpus ==
    /\ proc.cmd = "none"
    /\ disk.corpus = None /\ disk.corpusManifest = None
    /\ disk.selection \notin {None, {}}
    /\ \E shard \in {None, disk.context} :
        proc' = [cmd |-> "corpus", pc |-> "stage", run |-> CorpusRun(shard), found |-> disk.staged]
    /\ UNCHANGED <<registry, ledger, disk, faults>>

(* LexicalStore(temporary).index_units: one transaction, over the database   *)
(* that is there; a unit of the same identity is replaced.                   *)
StageCorpus ==
    /\ Building /\ proc.pc = "stage"
    /\ LET units == UnitsOf(proc.run)
           old == IF disk.staged = None THEN {} ELSE disk.staged
       IN disk' = [disk EXCEPT !.staged =
                     units \union {u \in old : \A v \in units : u.focus # v.focus}]
    /\ proc' = [proc EXCEPT !.pc = "replace"]
    /\ UNCHANGED <<registry, ledger, faults>>

(* An error while staging or replacing removes the staging database. *)
CorpusFails ==
    /\ Building /\ proc.pc \in {"stage", "replace"}
    /\ Fault
    /\ disk' = [disk EXCEPT !.staged = None]
    /\ proc' = Idle
    /\ UNCHANGED <<registry, ledger>>

ReplaceCorpus ==
    /\ Building /\ proc.pc = "replace"
    /\ disk' = [disk EXCEPT !.corpus = disk.staged, !.staged = None]
    /\ proc' = [proc EXCEPT !.pc = "manifest"]
    /\ UNCHANGED <<registry, ledger, faults>>

WriteCorpusManifest ==
    /\ Building /\ proc.pc = "manifest"
    /\ disk' = [disk EXCEPT !.corpusManifest = [run |-> proc.run, rows |-> disk.corpus]]
    /\ proc' = Idle
    /\ UNCHANGED <<registry, ledger, faults>>

BuildStep == StageCorpus \/ ReplaceCorpus \/ WriteCorpusManifest

Build == StartCorpus \/ BuildStep \/ CorpusFails
=============================================================================
