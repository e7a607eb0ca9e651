------------------------------ MODULE DenseIndex ------------------------------
(***************************************************************************)
(* The dense index (retrieval/dense.py, retrieval/indexing.py): points in  *)
(* Qdrant collections, the SQLite ledger of index jobs that lets a build   *)
(* resume, and the deletion of a tombstone projection.                     *)
(*                                                                         *)
(* One snapshot and one embedding recipe.  A request to Qdrant is a step;  *)
(* so is a transaction of the ledger.  An embedding is the content it was  *)
(* made from.  Points are returned in the order of their identifiers.      *)
(***************************************************************************)
EXTENDS Integers, FiniteSets

CONSTANTS
    Unit,         \* search units: an identifier, a focus message, a revision
    Message,      \* fullnames
    Content,      \* contents a unit can have, one per unit_content_hash
    Quotes,       \* the messages in the context of a unit, by its content
    Corpus,       \* states of the corpus: contents of the units it holds
    Record,       \* tombstone records a projection can hold
    AnyRevision,  \* a record that names no revision
    AnyUnit,      \* a record that names no unit
    Absent,       \* a collection that does not exist
    NoKey,        \* a payload without context_message_refs
    BatchSize,    \* batch_size of every command
    ProbeSize,    \* points the payload probe looks at (8 in the code)
    MaxCommands   \* bound on the commands of one behaviour

(* 0 is the offset of a scroll that has not begun. *)
ASSUME UnitAssumption ==
    /\ IsFiniteSet(Unit)
    /\ \A u \in Unit : u.id \in Nat \ {0} /\ u.message \in Message
    /\ \A u, v \in Unit : u.id = v.id => u = v

ASSUME CorpusAssumption ==
    /\ Quotes \in [Unit -> [Content -> SUBSET Message]]
    /\ \A c \in Corpus : c \in [DOMAIN c -> Content] /\ DOMAIN c \subseteq Unit

ASSUME BoundAssumption ==
    BatchSize \in Nat \ {0} /\ ProbeSize \in Nat \ {0} /\ MaxCommands \in Nat

VARIABLES
    corpus,    \* the units of the lexical corpus
    points,    \* the points of each collection, or Absent
    jobs,      \* the rows of dense_index_jobs
    manifest,  \* the dense index manifest on disk
    run,       \* the phase and the locals of each command
    result,    \* what the command that finished last returned
    commands,  \* commands started (a bound)
    lost,      \* history: units whose point a deletion removed from "main"
    deleted,   \* history: the records of the deletions that removed them
    mixed      \* history: units of "ctx2" with the references of another content

vars == <<corpus, points, jobs, manifest, run, result, commands, lost, mixed, deleted>>

-----------------------------------------------------------------------------
Collection == {"main", "ctx2"}
Point == [content : Content, snapshot : {"live", "old"},
          refs : (SUBSET Message) \union {NoKey}]

(* What does not exist is told from what is empty. *)
ASSUME AbsentAssumption ==
    /\ \A S \in SUBSET Unit : Absent \notin [S -> Point]
    /\ \A S \in SUBSET Message : NoKey # S

NoManifest == [status |-> "none"]
NoResult == [of |-> "none"]
Idle == [pc |-> "idle"]
Nothing == [u \in {} |-> u]

Exists(c) == points[c] # Absent
Ids(c) == IF Exists(c) THEN DOMAIN points[c] ELSE {}
InSnapshot(c, s) == {u \in Ids(c) : points[c][u].snapshot = s}

(* The first n units of a set, as scroll and ORDER BY unit_id return them. *)
First(S, n) == {u \in S : Cardinality({v \in S : v.id < u.id}) < n}

Overlay(f, g) ==
    [u \in DOMAIN f \union DOMAIN g |-> IF u \in DOMAIN g THEN g[u] ELSE f[u]]

(* ensure_collection creates the collection when the server answers 404. *)
Ensured(c) == [points EXCEPT ![c] = IF Exists(c) THEN @ ELSE Nothing]

(* upsert: the point of an identifier is replaced, payload and vector. *)
Upserted(c, new) == [points EXCEPT ![c] = Overlay(@, new)]

Running == {k \in DOMAIN run : run[k].pc # "idle"}

Job == [content : Content, status : {"pending", "indexed"}]

TypeOK ==
    /\ corpus \in Corpus
    /\ \A c \in Collection : Exists(c) =>
          Ids(c) \subseteq Unit /\ points[c] \in [Ids(c) -> Point]
    /\ DOMAIN jobs \subseteq Unit /\ jobs \in [DOMAIN jobs -> Job]
    /\ manifest.status \in {"none", "ready", "failed"}
    /\ run["build"].pc \in {"idle", "prepare", "batch", "mark", "assert", "write"}
    /\ run["delete"].pc \in {"idle", "probe", "count", "remove", "check"}
    /\ commands \in 0 .. MaxCommands
    /\ lost \subseteq Unit /\ mixed \subseteq Unit /\ deleted \subseteq Record

-----------------------------------------------------------------------------
(* How a command moves.  Every record of run carries `alone`: no other      *)
(* command has written points since this one started (history).             *)

Begin(k, locals) ==
    /\ run[k].pc = "idle" /\ commands < MaxCommands
    /\ commands' = commands + 1
    /\ run' = [run EXCEPT ![k] = locals]

Go(k, locals) == run' = [run EXCEPT ![k] = locals] /\ UNCHANGED commands

(* A step of k that writes points. *)
Write(k, locals) ==
    /\ run' = [j \in DOMAIN run |->
                  IF j = k THEN locals
                  ELSE IF j \in Running THEN [run[j] EXCEPT !.alone = FALSE]
                  ELSE Idle]
    /\ UNCHANGED commands

(* An exception, or the end of the process, at any point of a command. *)
Ends(k) ==
    /\ k \in Running
    /\ Go(k, Idle)
    /\ UNCHANGED <<corpus, points, jobs, manifest, result, lost, mixed, deleted>>

(* The corpus is built again: other units, or other contents of them. *)
ReplaceCorpus ==
    /\ commands < MaxCommands /\ commands' = commands + 1
    /\ corpus' \in Corpus
    /\ UNCHANGED <<points, jobs, manifest, run, result, lost, mixed, deleted>>

Labelled(snapshot, Refs(_)) ==
    [u \in DOMAIN corpus |-> [content |-> corpus[u], snapshot |-> snapshot, refs |-> Refs(u)]]

(* A fresh installation, or one whose points predate context references.    *)
(* The second collection is absent, or holds references but the label of    *)
(* another snapshot (what repair_snapshot is for).                          *)
Init ==
    /\ corpus \in Corpus
    /\ manifest = NoManifest /\ result = NoResult
    /\ commands = 0 /\ lost = {} /\ mixed = {} /\ deleted = {}
    /\ run = [k \in {"build", "delete", "migrate", "repair"} |-> Idle]
    /\ \E fresh \in BOOLEAN, other \in {Absent, Labelled("old", LAMBDA u : Quotes[u][corpus[u]])} :
        /\ points = [main |-> IF fresh THEN Absent ELSE Labelled("live", LAMBDA u : NoKey),
                     ctx2 |-> other]
        /\ jobs = IF fresh THEN Nothing
                  ELSE [u \in DOMAIN corpus |-> [content |-> corpus[u], status |-> "indexed"]]

-----------------------------------------------------------------------------
(* build_dense_index.                                                       *)

b == run["build"]

(* Seeded fault: what was indexed once is skipped, whatever its content is now. *)
UnindexedByStatus(docs) ==
    {u \in DOMAIN docs : ~(u \in DOMAIN jobs /\ jobs[u].status = "indexed")}

Unindexed(docs) ==
    {u \in DOMAIN docs :
        ~(u \in DOMAIN jobs /\ jobs[u] = [content |-> docs[u], status |-> "indexed"])}

(* The units of the snapshot are read; a corpus without any is refused. *)
StartBuild ==
    /\ DOMAIN corpus # {}
    /\ Begin("build", [pc |-> "prepare", docs |-> corpus, pending |-> {}, batch |-> {},
                       actual |-> 0, alone |-> TRUE])
    /\ points' = Ensured("main")
    /\ UNCHANGED <<corpus, jobs, manifest, result, lost, mixed, deleted>>

(* Seeded fault: the rows are marked before the points are written. *)
PrepareIndexed ==
    /\ b.pc = "prepare"
    /\ LET pending == Unindexed(b.docs) IN
        /\ jobs' = Overlay(jobs, [u \in pending |->
                              [content |-> b.docs[u], status |-> "indexed"]])
        /\ Go("build", [b EXCEPT !.pc = "batch", !.pending = pending])
    /\ UNCHANGED <<corpus, points, manifest, result, lost, mixed, deleted>>

(* DenseIndexJobStore.prepare, one transaction. *)
Prepare ==
    /\ b.pc = "prepare"
    /\ LET pending == Unindexed(b.docs) IN
        /\ jobs' = Overlay(jobs, [u \in pending |->
                              [content |-> b.docs[u], status |-> "pending"]])
        /\ Go("build", [b EXCEPT !.pc = "batch", !.pending = pending])
    /\ UNCHANGED <<corpus, points, manifest, result, lost, mixed, deleted>>

(* What build_dense_index gives of a unit: its documents are triples, and   *)
(* upsert stores an empty reference list for them.                          *)
NewPoint(u, content) == [content |-> content, snapshot |-> "live", refs |-> {}]

(* index_documents: one batch is encoded and upserted. *)
UpsertBatch ==
    /\ b.pc = "batch" /\ b.pending # {}
    /\ LET batch == First(b.pending, BatchSize) IN
        /\ points' = Upserted("main", [u \in batch |-> NewPoint(u, b.docs[u])])
        /\ Write("build", [b EXCEPT !.pc = "mark", !.batch = batch,
                                    !.pending = @ \ batch])
        /\ lost' = lost \ batch
    /\ UNCHANGED <<corpus, jobs, manifest, result, mixed, deleted>>

(* Seeded fault: a status the ledger does not know. *)
MarkDone ==
    /\ b.pc = "mark"
    /\ \E u \in First(b.batch, 1) :
        /\ jobs' = [jobs EXCEPT ![u].status = "done"]
        /\ Go("build", [b EXCEPT !.batch = @ \ {u},
                                 !.pc = IF b.batch = {u} THEN "batch" ELSE "mark"])
    /\ UNCHANGED <<corpus, points, manifest, result, lost, mixed, deleted>>

(* on_batch_indexed: mark_indexed commits unit by unit. *)
MarkIndexed ==
    /\ b.pc = "mark"
    /\ \E u \in First(b.batch, 1) :
        /\ jobs' = [jobs EXCEPT ![u].status = "indexed"]
        /\ Go("build", [b EXCEPT !.batch = @ \ {u},
                                 !.pc = IF b.batch = {u} THEN "batch" ELSE "mark"])
    /\ UNCHANGED <<corpus, points, manifest, result, lost, mixed, deleted>>

CountPoints ==
    /\ b.pc = "batch" /\ b.pending = {}
    /\ Go("build", [b EXCEPT !.pc = "assert", !.actual = Cardinality(Ids("main"))])
    /\ UNCHANGED <<corpus, points, jobs, manifest, result, lost, mixed, deleted>>

(* assert_count is a second request; a difference raises. *)
AssertCount ==
    /\ b.pc = "assert"
    /\ Cardinality(Ids("main")) = Cardinality(DOMAIN b.docs)
    /\ Go("build", [b EXCEPT !.pc = "write"])
    /\ UNCHANGED <<corpus, points, jobs, manifest, result, lost, mixed, deleted>>

WriteManifest ==
    /\ b.pc = "write"
    /\ LET expected == Cardinality(DOMAIN b.docs) IN
        manifest' = [status |-> IF expected = b.actual THEN "ready" ELSE "failed",
                     count |-> b.actual]
    /\ result' = [of |-> "build", docs |-> b.docs, status |-> manifest'.status]
    /\ Go("build", Idle)
    /\ UNCHANGED <<corpus, points, jobs, lost, mixed, deleted>>

Build ==
    \/ StartBuild
    \/ Prepare
    \/ UpsertBatch
    \/ MarkIndexed
    \/ CountPoints
    \/ AssertCount
    \/ WriteManifest

-----------------------------------------------------------------------------
(* delete_tombstone_projection: its two halves, first of the points that    *)
(* quote a message and then of the message's own, are each a count, a       *)
(* delete and a count of one selector.                                      *)

d == run["delete"]

(* _identity_clause: the fields the record gives, all of them. *)
Names(t, u) ==
    /\ t.message = u.message
    /\ t.revision \in {AnyRevision, u.revision}
    /\ t.unit \in {AnyUnit, u}

Direct(c, recs) == {u \in InSnapshot(c, "live") : \E t \in recs : Names(t, u)}

(* A condition on context_message_refs selects no point without the key. *)
Quoting(c, recs) ==
    {u \in InSnapshot(c, "live") :
        points[c][u].refs # NoKey /\ \E t \in recs : t.message \in points[c][u].refs}

(* Seeded fault: each half excludes what the other one selects. *)
SelectedOnce(phase, c, recs) ==
    IF phase = "context" THEN Quoting(c, recs) \ Direct(c, recs)
                         ELSE Direct(c, recs) \ Quoting(c, recs)

Selected(phase, c, recs) ==
    IF phase = "context" THEN Quoting(c, recs) \ Direct(c, recs) ELSE Direct(c, recs)

StartDeletion ==
    /\ \E c \in Collection, recs \in SUBSET Record \ {{}} :
        /\ Begin("delete", [pc |-> "probe", in |-> c, recs |-> recs, phase |-> "context",
                            before |-> 0, context |-> 0, seen |-> Ids(c), alone |-> TRUE])
        /\ points' = Ensured(c)
    /\ UNCHANGED <<corpus, jobs, manifest, result, lost, mixed, deleted>>

(* _probe_context_payload_coverage: the first points of the snapshot must   *)
(* have the key, or the command raises before it deletes anything.          *)
Probe ==
    /\ d.pc = "probe"
    /\ \A u \in First(InSnapshot(d.in, "live"), ProbeSize) : points[d.in][u].refs # NoKey
    /\ Go("delete", [d EXCEPT !.pc = "count"])
    /\ UNCHANGED <<corpus, points, jobs, manifest, result, lost, mixed, deleted>>

CountSelected ==
    /\ d.pc = "count"
    /\ Go("delete", [d EXCEPT !.pc = "remove",
                              !.before = Cardinality(Selected(d.phase, d.in, d.recs))])
    /\ UNCHANGED <<corpus, points, jobs, manifest, result, lost, mixed, deleted>>

RemoveSelected ==
    /\ d.pc = "remove"
    /\ LET gone == Selected(d.phase, d.in, d.recs) IN
        /\ points' = [points EXCEPT ![d.in] = [u \in Ids(d.in) \ gone |-> @[u]]]
        /\ lost' = IF d.in = "main" THEN lost \union gone ELSE lost
        /\ deleted' = IF d.in = "main" THEN deleted \union d.recs ELSE deleted
    /\ Write("delete", [d EXCEPT !.pc = "check"])
    /\ UNCHANGED <<corpus, jobs, manifest, result, mixed>>

(* The count is taken again; an increase raises.  The first half goes on to *)
(* the second, whose end is the result that claims coverage.                *)
CheckRemoved ==
    /\ d.pc = "check"
    /\ LET after == Cardinality(Selected(d.phase, d.in, d.recs)) IN
        /\ after <= d.before
        /\ IF d.phase = "context"
           THEN /\ Go("delete", [d EXCEPT !.pc = "count", !.phase = "direct",
                                          !.context = d.before - after])
                /\ UNCHANGED result
           ELSE /\ result' = [of |-> "delete", in |-> d.in, recs |-> d.recs,
                              context |-> d.context, deleted |-> d.before - after,
                              seen |-> d.seen, alone |-> d.alone]
                /\ Go("delete", Idle)
    /\ UNCHANGED <<corpus, points, jobs, manifest, lost, mixed, deleted>>

Delete ==
    \/ StartDeletion
    \/ Probe
    \/ CountSelected
    \/ RemoveSelected
    \/ CheckRemoved
=============================================================================
