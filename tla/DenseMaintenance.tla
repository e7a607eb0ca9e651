--------------------------- MODULE DenseMaintenance ---------------------------
(***************************************************************************)
(* The operations on a dense index beside its build and its deletions, and *)
(* all of them together: the migration that copies a collection and adds   *)
(* context references (retrieval/dense_migration.py), the repair of        *)
(* mislabelled points (retrieval/dense_repair.py) and the read-only        *)
(* reconciliation with the corpus (operations/reconciliation.py).          *)
(*                                                                         *)
(* Each is a command of its own, so their requests interleave.  A page and *)
(* the write that follows it are one step.                                 *)
(***************************************************************************)
EXTENDS DenseIndex

g == run["migrate"]
r == run["repair"]

Page(c, from, S) == First({u \in S : u.id > from}, BatchSize)

Last(page, from) == IF page = {} THEN from ELSE CHOOSE i \in {u.id : u \in page} :
                                                   \A u \in page : u.id <= i
-----------------------------------------------------------------------------
(* migrate_snapshot and migrate_collection.                                 *)

(* A target that is not there, or empty; with points in it, only by force. *)
TargetAccepted(force) == force \/ Ids("ctx2") = {}

(* The references come from the corpus of the moment, by the identifier of  *)
(* the unit.  That identifier leaves the context out, so the corpus may hold *)
(* another content of the unit than its point embeds (`read` is history).    *)
StartMigration ==
    /\ Exists("main")
    /\ \E force \in BOOLEAN :
        /\ TargetAccepted(force)
        /\ Begin("migrate", [pc |-> "validate", read |-> corpus,
                             refs |-> [u \in DOMAIN corpus |-> Quotes[u][corpus[u]]],
                             want |-> Cardinality(InSnapshot("main", "live")),
                             from |-> 0, copied |-> Nothing, alone |-> TRUE])
    /\ UNCHANGED <<corpus, points, jobs, manifest, result, lost, mixed, deleted>>

(* Pass 1: every point has to join the corpus before a target is created. *)
Joined == InSnapshot("main", "live") \subseteq DOMAIN g.refs

Validate ==
    /\ g.pc = "validate"
    /\ Cardinality(InSnapshot("main", "live")) = g.want
    /\ Joined
    /\ points' = Ensured("ctx2")
    /\ Go("migrate", [g EXCEPT !.pc = "copy"])
    /\ UNCHANGED <<corpus, jobs, manifest, result, lost, mixed, deleted>>

(* Seeded fault: the payload is copied as it is. *)
ReferencedNot(u) == points["main"][u]

(* Pass 2: the payload and the vector of a page, with references. *)
Referenced(u) == [points["main"][u] EXCEPT !.refs = g.refs[u]]

CopyPage ==
    /\ g.pc = "copy"
    /\ LET live == InSnapshot("main", "live")
           page == Page("main", g.from, live)
           end == Last(page, g.from) IN
        /\ page \subseteq DOMAIN g.refs
        /\ points' = Upserted("ctx2", [u \in page |-> Referenced(u)])
        /\ mixed' = (mixed \ page)
                       \union {u \in page : g.read[u] # points["main"][u].content}
        /\ Write("migrate",
              [g EXCEPT !.from = end,
                        !.copied = Overlay(@, [u \in page |-> points["main"][u].content]),
                        !.pc = IF \A u \in live : u.id <= end THEN "verify" ELSE "copy"])
    /\ UNCHANGED <<corpus, jobs, manifest, result, lost, deleted>>

(* Seeded fault: only the number of copied points is compared. *)
VerifyCopied ==
    /\ g.pc = "verify"
    /\ Cardinality(DOMAIN g.copied) = g.want
    /\ result' = [of |-> "migrate", refs |-> g.refs, alone |-> g.alone]
    /\ Go("migrate", Idle)
    /\ UNCHANGED <<corpus, points, jobs, manifest, lost, mixed, deleted>>

VectorSample == 16

(* The vectors of the first copied points are those of the target. *)
VectorsAgree ==
    \A u \in First(DOMAIN g.copied, VectorSample) :
        u \in Ids("ctx2") /\ points["ctx2"][u].content = g.copied[u]

(* The first points of the target have references. *)
ReferencesProbed == \A u \in First(Ids("ctx2"), ProbeSize) : points["ctx2"][u].refs # NoKey

Verify ==
    /\ g.pc = "verify"
    /\ Cardinality(DOMAIN g.copied) = g.want
    /\ Cardinality(Ids("ctx2")) = g.want
    /\ ReferencesProbed
    /\ VectorsAgree
    /\ result' = [of |-> "migrate", refs |-> g.refs, alone |-> g.alone]
    /\ Go("migrate", Idle)
    /\ UNCHANGED <<corpus, points, jobs, manifest, lost, mixed, deleted>>

Migrate ==
    \/ StartMigration
    \/ Validate
    \/ CopyPage
    \/ Verify

-----------------------------------------------------------------------------
(* repair_snapshot.                                                         *)

(* The preflight: as many mislabelled points as units in the corpus (and in *)
(* the registry entry, which names the same count), and no labelled one.    *)
Preflight ==
    /\ Cardinality(InSnapshot("ctx2", "old")) = Cardinality(DOMAIN corpus)
    /\ InSnapshot("ctx2", "live") = {}

StartRepair ==
    /\ Exists("ctx2") /\ Preflight
    /\ \E dry \in BOOLEAN :
        Begin("repair", [pc |-> "page", dry |-> dry, total |-> Cardinality(Ids("ctx2")),
                         from |-> 0, changed |-> 0, alone |-> TRUE])
    /\ UNCHANGED <<corpus, points, jobs, manifest, result, lost, mixed, deleted>>

(* Seeded fault: the first page is taken for the last. *)
RelabelFirstPage ==
    /\ r.pc = "page"
    /\ LET wrong == First(Ids("ctx2"), BatchSize) \intersect InSnapshot("ctx2", "old") IN
        /\ points' = IF r.dry THEN points
                     ELSE Upserted("ctx2", [u \in wrong |->
                              [points["ctx2"][u] EXCEPT !.snapshot = "live"]])
        /\ Write("repair", [r EXCEPT !.changed = Cardinality(wrong), !.pc = "check"])
    /\ UNCHANGED <<corpus, jobs, manifest, result, lost, mixed, deleted>>

(* All points are scrolled through; those of the wrong snapshot relabelled. *)
RelabelPage ==
    /\ r.pc = "page"
    /\ LET page == Page("ctx2", r.from, Ids("ctx2"))
           wrong == page \intersect InSnapshot("ctx2", "old")
           end == Last(page, r.from)
           next == [r EXCEPT !.from = end, !.changed = @ + Cardinality(wrong),
                             !.pc = IF \A u \in Ids("ctx2") : u.id <= end
                                    THEN "check" ELSE "page"] IN
        IF r.dry \/ wrong = {}
        THEN Go("repair", next) /\ UNCHANGED points
        ELSE /\ points' = Upserted("ctx2", [u \in wrong |->
                              [points["ctx2"][u] EXCEPT !.snapshot = "live"]])
             /\ Write("repair", next)
    /\ UNCHANGED <<corpus, jobs, manifest, result, lost, mixed, deleted>>

CheckRepair ==
    /\ r.pc = "check"
    /\ r.dry \/ /\ Cardinality(Ids("ctx2")) = r.total
                /\ Cardinality(InSnapshot("ctx2", "live")) = r.changed
    /\ result' = [of |-> "repair", dry |-> r.dry, changed |-> r.changed, alone |-> r.alone]
    /\ Go("repair", Idle)
    /\ UNCHANGED <<corpus, points, jobs, manifest, lost, mixed, deleted>>

Repair ==
    \/ StartRepair
    \/ RelabelPage
    \/ CheckRepair

-----------------------------------------------------------------------------
(* reconcile_snapshot_collection: the corpus against a previous one, the    *)
(* ledger of jobs and the index manifest, without a request to Qdrant.      *)

(* The job of a unit is evidence only for the content it was run for. *)
Current(u) ==
    /\ u \in DOMAIN jobs
    /\ jobs[u].status = "indexed" /\ jobs[u].content = corpus[u]

(* Seeded fault: a record that names no revision blocks none. *)
BlockedByRevision(ledger) ==
    {u \in DOMAIN corpus : \E t \in ledger :
        \/ t.message = u.message /\ t.revision = u.revision
        \/ t.message \in Quotes[u][corpus[u]]}

(* tombstone_blocks_row: by its own identity, or by a message it quotes. *)
Blocked(ledger) ==
    {u \in DOMAIN corpus :
        \E t \in ledger : Names(t, u) \/ t.message \in Quotes[u][corpus[u]]}

(* Nothing added, removed or changed, no unit pending, no count that differs. *)
Reconciled(previous, active) ==
    /\ previous = corpus
    /\ \A u \in active : Current(u)
    /\ manifest.status # "none" => manifest.count = Cardinality(active)

Reconcile ==
    /\ commands < MaxCommands /\ commands' = commands + 1
    /\ \E previous \in Corpus, ledger \in {{}} \union {{t} : t \in {s \in Record : s.unit = AnyUnit}} :
        LET active == DOMAIN corpus \ Blocked(ledger) IN
        result' = [of |-> "reconcile", active |-> active, ledger |-> ledger,
                   status |-> IF Reconciled(previous, active)
                              THEN "ready" ELSE "needs_reconciliation"]
    /\ UNCHANGED <<corpus, points, jobs, manifest, run, lost, mixed, deleted>>

CommandEnds == \E k \in DOMAIN run : Ends(k)

Next ==
    \/ ReplaceCorpus
    \/ Build
    \/ Delete
    \/ Migrate
    \/ Repair
    \/ Reconcile
    \/ CommandEnds

Spec == Init /\ [][Next]_vars

-----------------------------------------------------------------------------
(* Properties.                                                              *)

(* The job ledger never runs ahead of the collection: a unit marked as      *)
(* indexed has a point made from that content, unless a tombstone deletion  *)
(* took it.  What lets a build that was interrupted, or resumed over a      *)
(* replaced corpus, skip the unit.                                          *)
LedgerIsBehind ==
    \A u \in DOMAIN jobs : jobs[u].status = "indexed" =>
        \/ u \in lost
        \/ u \in Ids("main") /\ points["main"][u].content = jobs[u].content

Returns(k) == result' # result /\ result'.of = k

(* A build that writes a ready manifest has in its collection the current   *)
(* content of each unit it read and no other point, although it compares    *)
(* counts only and skipped what earlier builds had marked; unless a         *)
(* tombstone deletion removed a point a ledger row still vouches for.       *)
ReadyIsComplete ==
    [][ Returns("build") /\ result'.status = "ready" /\ lost = {} =>
          /\ Ids("main") = DOMAIN result'.docs
          /\ \A u \in Ids("main") : points["main"][u].content = result'.docs[u] ]_vars

(* When a deletion claims its projection applied and no other command wrote *)
(* meanwhile, no point it selects is left, and its two counts add up to     *)
(* what went: a point both halves select is counted once.                   *)
DeletionIsExact ==
    [][ Returns("delete") /\ result'.alone =>
          /\ Quoting(result'.in, result'.recs) \union Direct(result'.in, result'.recs) = {}
          /\ result'.context + result'.deleted
                = Cardinality(result'.seen \ Ids(result'.in)) ]_vars

(* What a point embeds decides, not what its payload says of it.            *)
StillQuoting(c, recs) ==
    {u \in InSnapshot(c, "live") :
        \E t \in recs : t.message \in Quotes[u][points[c][u].content]}

(* What "context_contributors: covered" promises: no point of the snapshot  *)
(* embeds a deleted message in its context.                                 *)
ContextIsCovered ==
    [][ Returns("delete") /\ result'.alone =>
          StillQuoting(result'.in, result'.recs) = {} ]_vars

(* It holds of the collection a migration has built, for which migration    *)
(* exists, point by point: of each one whose references were joined from    *)
(* the content it embeds, whatever was migrated, forced, repaired or        *)
(* deleted since.  A point joined with a corpus that holds another content  *)
(* of the unit escapes: nothing compares the two.                           *)
MigratedIsCovered ==
    [][ Returns("delete") /\ result'.alone /\ result'.in = "ctx2" =>
          StillQuoting("ctx2", result'.recs) \subseteq mixed ]_vars

(* A migration that reports success while no other command writes leaves a  *)
(* target that is the source, vector for vector, with the corpus'           *)
(* references: also when it was forced over the rest of an earlier one.     *)
MigrationIsExact ==
    [][ Returns("migrate") /\ result'.alone =>
          points["ctx2"] = [u \in InSnapshot("main", "live") |->
              [points["main"][u] EXCEPT !.refs = result'.refs[u]]] ]_vars

(* A repair that reports success leaves no mislabelled point; one that was  *)
(* interrupted is refused when it is run again, not reported.               *)
RepairIsTotal ==
    [][ Returns("repair") /\ ~result'.dry /\ result'.alone =>
          /\ InSnapshot("ctx2", "old") = {}
          /\ result'.changed = Cardinality(Ids("ctx2")) ]_vars

(* A ledger holds what a deletion was given, or more. *)
Covers(ledger, recs) ==
    \A s \in recs : \E t \in ledger :
        t.message = s.message /\ t.revision \in {AnyRevision, s.revision}

(* A reconciliation that finds nothing to do is right about the collection  *)
(* it never asks: what is active is there with its current content.  The    *)
(* job ledger still vouches for what deletions removed, so it takes a       *)
(* tombstone ledger that holds their records: what the filter of a deletion *)
(* selects, by fullname, revision and unit, the ledger blocks.              *)
ReconciledIsIndexed ==
    [][ Returns("reconcile") /\ result'.status = "ready" /\ Covers(result'.ledger, deleted) =>
          \A u \in result'.active :
              u \in Ids("main") /\ points["main"][u].content = corpus[u] ]_vars
=============================================================================
