------------------------ MODULE DenseMaintenance_proofs ------------------------
(***************************************************************************)
(* What the job ledger of a dense index and the manifest of its build      *)
(* promise, for any units, corpora, records and batch sizes, while builds, *)
(* deletions, migrations, repairs and reconciliations interleave and end   *)
(* anywhere.                                                               *)
(***************************************************************************)
EXTENDS DenseMaintenance, FiniteSetTheorems, TLAPS

IsMap(f, T) == DOMAIN f \subseteq Unit /\ f \in [DOMAIN f -> T]

(* What the collections hold. *)
Collections ==
    /\ points = [c \in Collection |-> points[c]]
    /\ \A c \in Collection : Exists(c) => IsMap(points[c], Point)

BuildLocals ==
    [pc : {"prepare", "batch", "mark", "assert", "write"}, docs : Corpus,
     pending : SUBSET Unit, batch : SUBSET Unit, actual : Nat, alone : BOOLEAN]

DeleteLocals ==
    [pc : {"probe", "count", "remove", "check"}, in : Collection, recs : SUBSET Record,
     phase : {"context", "direct"}, before : Nat, context : Int,
     seen : SUBSET Unit, alone : BOOLEAN]

MigrateLocals(x) ==
    /\ x = [k \in {"pc", "read", "refs", "want", "from", "copied", "alone"} |-> x[k]]
    /\ x.pc \in {"validate", "copy", "verify"}
    /\ IsMap(x.refs, SUBSET Message)

RepairLocals(x) ==
    /\ x = [k \in {"pc", "dry", "total", "from", "changed", "alone"} |-> x[k]]
    /\ x.pc \in {"page", "check"}

Command == {"build", "delete", "migrate", "repair"}

Locals ==
    /\ run = [k \in Command |-> run[k]]
    /\ b = Idle \/ b \in BuildLocals
    /\ d = Idle \/ d \in DeleteLocals
    /\ g = Idle \/ MigrateLocals(g)
    /\ r = Idle \/ RepairLocals(r)

(* A command that runs has opened its collection, and none is ever dropped. *)
Opened ==
    /\ b.pc # "idle" => Exists("main")
    /\ d.pc # "idle" => Exists(d.in)
    /\ g.pc # "idle" => Exists("main")
    /\ g.pc \in {"copy", "verify"} => Exists("ctx2")
    /\ r.pc # "idle" => Exists("ctx2")

Typed ==
    /\ corpus \in Corpus
    /\ Collections
    /\ IsMap(jobs, Job)
    /\ manifest.status \in {"none", "ready", "failed"}
    /\ Locals
    /\ Opened
    /\ commands \in 0 .. MaxCommands
    /\ lost \subseteq Unit /\ mixed \subseteq Unit /\ deleted \subseteq Record

(* The job of a unit that a build has read. *)
JobIs(u, s) == u \in DOMAIN jobs /\ jobs[u].content = b.docs[u] /\ jobs[u].status = s

(* A unit in the collection, with this content. *)
Holds(u, content) == u \in Ids("main") /\ points["main"][u].content = content

(* How far a build is: the units still to write and those written but not   *)
(* yet marked have pending jobs, all others indexed ones.                   *)
BuildReached ==
    /\ b.pc \in {"batch", "mark", "assert", "write"} =>
          /\ b.pending \subseteq DOMAIN b.docs /\ b.batch \subseteq DOMAIN b.docs
          /\ \A u \in b.pending \union b.batch : JobIs(u, "pending")
          /\ \A u \in DOMAIN b.docs \ (b.pending \union b.batch) : JobIs(u, "indexed")
          /\ b.pending \intersect b.batch = {}
    /\ b.pc = "mark" => \A u \in b.batch : u \in lost \/ Holds(u, b.docs[u])
    /\ b.pc \in {"prepare", "batch", "assert", "write"} => b.batch = {}
    /\ b.pc \in {"assert", "write"} => b.pending = {}

(* The count was right, and stays so until a deletion removes a point. *)
Counted == b.pc = "write" /\ lost = {} => Ids("main") = DOMAIN b.docs

IInv == Typed /\ BuildReached /\ LedgerIsBehind /\ Counted

-----------------------------------------------------------------------------
(* The union of two maps is a map (dense.py:466-490). *)
LEMMA OverlayIsMap ==
    ASSUME NEW T, NEW f, IsMap(f, T), NEW h, IsMap(h, T)
    PROVE  /\ IsMap(Overlay(f, h), T)
           /\ DOMAIN Overlay(f, h) = DOMAIN f \union DOMAIN h
    BY DEF IsMap, Overlay

(* A page is a part of what it is taken from. *)
LEMMA FirstIsSubset == ASSUME NEW S, NEW n PROVE First(S, n) \subseteq S
    BY DEF First

(* A collection that was written exists. *)
LEMMA MapIsPresent == ASSUME NEW f, IsMap(f, Point) PROVE f # Absent
    BY AbsentAssumption DEF IsMap

(* The points of a collection are units. *)
LEMMA IdsAreUnits ==
    ASSUME Collections, NEW c \in Collection
    PROVE  Ids(c) \subseteq Unit /\ IsFiniteSet(Ids(c)) /\ Cardinality(Ids(c)) \in Nat
  <1>1. Ids(c) \subseteq Unit BY DEF Collections, Ids, IsMap
  <1> QED BY <1>1, UnitAssumption, FS_Subset, FS_CardinalityType

(* ensure_collection adds no point and leaves the others (dense.py:439-464). *)
LEMMA EnsuredKeeps ==
    ASSUME Collections, NEW c \in Collection, points' = Ensured(c)
    PROVE  /\ Collections' /\ Exists(c)'
           /\ \A k \in Collection : /\ Exists(k) => Exists(k)'
                                    /\ Ids(k)' = Ids(k)
                                    /\ \A u \in Ids(k) : points'[k][u] = points[k][u]
  <1>1. IsMap(Nothing, Point) /\ DOMAIN Nothing = {} BY DEF IsMap, Nothing
  <1>2. Nothing # Absent BY <1>1, MapIsPresent
  <1> QED BY <1>1, <1>2 DEF Collections, Ensured, Exists, Ids

(* An upsert into a collection leaves the others (dense.py:466-490). *)
LEMMA UpsertedKeeps ==
    ASSUME Collections, NEW c \in Collection, Exists(c), NEW new, IsMap(new, Point),
           points' = Upserted(c, new)
    PROVE  /\ Collections'
           /\ Ids(c)' = Ids(c) \union DOMAIN new
           /\ \A u \in DOMAIN new : points'[c][u] = new[u]
           /\ \A u \in Ids(c) \ DOMAIN new : points'[c][u] = points[c][u]
           /\ \A k \in Collection : Exists(k) => Exists(k)'
           /\ \A k \in Collection \ {c} : points'[k] = points[k]
  <1>1. IsMap(points[c], Point) BY DEF Collections
  <1>2. /\ IsMap(Overlay(points[c], new), Point)
        /\ DOMAIN Overlay(points[c], new) = DOMAIN points[c] \union DOMAIN new
    BY <1>1, OverlayIsMap
  <1>3. Overlay(points[c], new) # Absent BY <1>2, MapIsPresent
  <1>4. points' = [k \in Collection |-> IF k = c THEN Overlay(points[c], new) ELSE points[k]]
    BY DEF Upserted, Collections
  <1>5. \A u \in DOMAIN points[c] \union DOMAIN new :
            Overlay(points[c], new)[u] = IF u \in DOMAIN new THEN new[u] ELSE points[c][u]
    BY DEF Overlay
  <1> QED BY <1>1, <1>2, <1>3, <1>4, <1>5 DEF Collections, Exists, Ids

-----------------------------------------------------------------------------
(* A step of one command leaves the locals of the others. *)
LEMMA GoMoves ==
    ASSUME Locals, NEW k \in Command, NEW x, run' = [run EXCEPT ![k] = x]
    PROVE  /\ run' = [j \in Command |-> run'[j]]
           /\ run'[k] = x
           /\ \A j \in Command \ {k} : run'[j] = run[j]
    BY DEF Locals, Command

(* A write is seen by the others in the history they carry only. *)
LEMMA WriteMoves ==
    ASSUME Locals, NEW k \in Command, NEW x, Write(k, x)
    PROVE  /\ run' = [j \in Command |-> run'[j]]
           /\ run'[k] = x
           /\ \A j \in Command \ {k} :
                  run'[j] = IF run[j].pc = "idle" THEN Idle ELSE [run[j] EXCEPT !.alone = FALSE]
    BY DEF Locals, Command, Write, Running

(* The locals of the others keep their type and their phase. *)
LEMMA OthersKeep ==
    ASSUME Locals, NEW k \in Command, NEW x, run'[k] = x,
           \A j \in Command \ {k} :
              \/ run'[j] = run[j]
              \/ run'[j] = IF run[j].pc = "idle" THEN Idle ELSE [run[j] EXCEPT !.alone = FALSE]
    PROVE  /\ k # "build" =>
                 /\ b' = Idle \/ b' \in BuildLocals
                 /\ b'.pc = b.pc /\ b'.docs = b.docs /\ b'.pending = b.pending /\ b'.batch = b.batch
           /\ k # "delete" => (d' = Idle \/ d' \in DeleteLocals) /\ d'.pc = d.pc /\ d'.in = d.in
           /\ k # "migrate" => (g' = Idle \/ MigrateLocals(g)') /\ g'.pc = g.pc /\ g'.refs = g.refs /\ g'.read = g.read
           /\ k # "repair" => (r' = Idle \/ RepairLocals(r)') /\ r'.pc = r.pc
  <1>1. ASSUME k # "build"
        PROVE  /\ b' = Idle \/ b' \in BuildLocals
               /\ b'.pc = b.pc /\ b'.docs = b.docs /\ b'.pending = b.pending /\ b'.batch = b.batch
    <2>1. b' = b \/ b' = IF b.pc = "idle" THEN Idle ELSE [b EXCEPT !.alone = FALSE]
      BY <1>1 DEF b, Command
    <2>2. CASE b = Idle BY <2>1, <2>2 DEF Idle
    <2>3. CASE b \in BuildLocals BY <2>1, <2>3 DEF BuildLocals
    <2> QED BY <2>2, <2>3 DEF Locals
  <1>2. ASSUME k # "delete"
        PROVE  (d' = Idle \/ d' \in DeleteLocals) /\ d'.pc = d.pc /\ d'.in = d.in
    <2>1. d' = d \/ d' = IF d.pc = "idle" THEN Idle ELSE [d EXCEPT !.alone = FALSE]
      BY <1>2 DEF d, Command
    <2>2. CASE d = Idle BY <2>1, <2>2 DEF Idle
    <2>3. CASE d \in DeleteLocals BY <2>1, <2>3 DEF DeleteLocals
    <2> QED BY <2>2, <2>3 DEF Locals
  <1>3. ASSUME k # "migrate"
        PROVE  (g' = Idle \/ MigrateLocals(g)') /\ g'.pc = g.pc /\ g'.refs = g.refs /\ g'.read = g.read
    <2>1. g' = g \/ g' = IF g.pc = "idle" THEN Idle ELSE [g EXCEPT !.alone = FALSE]
      BY <1>3 DEF g, Command
    <2>2. CASE g = Idle BY <2>1, <2>2 DEF Idle
    <2>3. CASE MigrateLocals(g) BY <2>1, <2>3 DEF MigrateLocals
    <2> QED BY <2>2, <2>3 DEF Locals
  <1>4. ASSUME k # "repair"
        PROVE  (r' = Idle \/ RepairLocals(r)') /\ r'.pc = r.pc
    <2>1. r' = r \/ r' = IF r.pc = "idle" THEN Idle ELSE [r EXCEPT !.alone = FALSE]
      BY <1>4 DEF r, Command
    <2>2. CASE r = Idle BY <2>1, <2>2 DEF Idle
    <2>3. CASE RepairLocals(r) BY <2>1, <2>3 DEF RepairLocals
    <2> QED BY <2>2, <2>3 DEF Locals
  <1> QED BY <1>1, <1>2, <1>3, <1>4

-----------------------------------------------------------------------------
(* What a step of any other command may do to a build: remove points, and   *)
(* say so.                                                                  *)
Spared ==
    /\ jobs' = jobs /\ lost \subseteq lost'
    /\ b'.pc = b.pc /\ b'.docs = b.docs /\ b'.pending = b.pending /\ b'.batch = b.batch
    /\ Ids("main")' \subseteq Ids("main")
    /\ \A u \in Ids("main") \ lost' :
          u \in Ids("main")' /\ points'["main"][u].content = points["main"][u].content

(* A step that spares the build and its collection keeps the invariant. *)
LEMMA SparedPreserves ==
    ASSUME BuildReached, LedgerIsBehind, Counted, Spared
    PROVE  BuildReached' /\ LedgerIsBehind' /\ Counted'
  <1> USE DEF Spared
  <1>1. BuildReached' BY DEF BuildReached, JobIs, Holds
  <1>2. LedgerIsBehind' BY DEF LedgerIsBehind
  <1>3. Counted'
    <2> SUFFICES ASSUME b.pc = "write", lost' = {} PROVE Ids("main")' = DOMAIN b.docs
      BY DEF Counted
    <2>1. lost = {} /\ Ids("main") = DOMAIN b.docs BY DEF Counted
    <2> QED BY <2>1
  <1> QED BY <1>1, <1>2, <1>3

(* The points of the main collection are untouched. *)
LEMMA MainKept ==
    ASSUME Ids("main")' = Ids("main"),
           \A u \in Ids("main") : points'["main"][u] = points["main"][u],
           jobs' = jobs, lost' = lost,
           b'.pc = b.pc, b'.docs = b.docs, b'.pending = b.pending, b'.batch = b.batch
    PROVE  Spared
    BY DEF Spared

-----------------------------------------------------------------------------
(* A fresh or an old installation (dense.py:154-178). *)
LEMMA Initially == Init => IInv
  <1> SUFFICES ASSUME Init PROVE IInv
    OBVIOUS
  <1>1. IsMap(corpus, Content) BY CorpusAssumption DEF Init, IsMap
  <1>2. IsMap(Labelled("live", LAMBDA u : NoKey), Point)
    BY <1>1 DEF IsMap, Labelled, Point
  <1>3. IsMap(Labelled("old", LAMBDA u : Quotes[u][corpus[u]]), Point)
    BY <1>1, CorpusAssumption DEF IsMap, Labelled, Point
  <1>4. Collections BY <1>2, <1>3 DEF Init, Collections, Collection, Exists
  <1>5. IsMap(jobs, Job) BY <1>1 DEF Init, IsMap, Nothing, Job
  <1>6. Locals /\ Opened /\ BuildReached /\ Counted
    BY DEF Init, Locals, Opened, BuildReached, Counted, Idle, b, d, g, r, Command
  <1>7. LedgerIsBehind
    <2>1. Exists("main") => points["main"] = Labelled("live", LAMBDA u : NoKey)
      BY DEF Init, Exists
    <2>2. CASE Exists("main")
      BY <2>1, <2>2 DEF Init, LedgerIsBehind, Ids, Nothing, Labelled
    <2>3. CASE ~Exists("main")
      <3>1. jobs = Nothing
        BY <1>2, <2>3, MapIsPresent DEF Init, Exists
      <3> QED BY <3>1 DEF LedgerIsBehind, Nothing
    <2> QED BY <2>2, <2>3
  <1> QED BY <1>4, <1>5, <1>6, <1>7, BoundAssumption DEF Init, IInv, Typed, NoManifest

-----------------------------------------------------------------------------
(* A step that leaves the collections, the ledger and the commands alone.    *)
LEMMA AsidePreserves ==
    ASSUME IInv, corpus' \in Corpus, commands' \in 0 .. MaxCommands,
           UNCHANGED <<points, jobs, manifest, run, lost, mixed, deleted>>
    PROVE  IInv'
  <1> USE DEF IInv
  <1>1. Typed'
    BY DEF Typed, Collections, IsMap, Exists, Locals, MigrateLocals, RepairLocals, Opened, b, d, g, r
  <1>2. BuildReached' /\ LedgerIsBehind' /\ Counted'
    BY DEF BuildReached, JobIs, Holds, LedgerIsBehind, Counted, Ids, Exists, b
  <1> QED BY <1>1, <1>2

(* The bounded commands stay counted. *)
LEMMA Counting == ASSUME IInv, commands < MaxCommands, commands' = commands + 1
                  PROVE  commands' \in 0 .. MaxCommands
    BY BoundAssumption DEF IInv, Typed

(* The corpus is replaced, or looked at (reconciliation.py:92-241).          *)
LEMMA CorpusPreserves == IInv /\ (ReplaceCorpus \/ Reconcile) => IInv'
    BY AsidePreserves, Counting DEF ReplaceCorpus, Reconcile, IInv, Typed

(* A command ends without a result (dense.py:396-430).                       *)
LEMMA EndsPreserves == ASSUME IInv, NEW k \in Command, Ends(k) PROVE IInv'
  <1> USE DEF IInv, Typed
  <1>1. /\ run' = [j \in Command |-> run'[j]]
        /\ run'[k] = Idle
        /\ \A j \in Command \ {k} : run'[j] = run[j]
    BY GoMoves DEF Ends, Go
  <1>2. UNCHANGED <<corpus, points, jobs, manifest, lost, mixed, deleted, commands>> BY DEF Ends, Go
  <1>3. Idle.pc = "idle" BY DEF Idle
  <1>4. Locals' BY <1>1 DEF Locals, MigrateLocals, RepairLocals, b, d, g, r, Command
  <1>5. Opened' BY <1>1, <1>2, <1>3 DEF Opened, Exists, b, d, g, r, Command
  <1>6. Typed' BY <1>2, <1>4, <1>5 DEF Collections, IsMap, Exists
  <1>7. BuildReached' /\ LedgerIsBehind' /\ Counted'
    BY <1>1, <1>2, <1>3 DEF BuildReached, JobIs, Holds, LedgerIsBehind, Counted, Ids, Exists, b, Command
  <1> QED BY <1>6, <1>7

-----------------------------------------------------------------------------
(* The steps of a deletion (dense.py:687-770).                               *)
LEMMA StartDeletionPreserves == IInv /\ StartDeletion => IInv'
  <1> SUFFICES ASSUME IInv, StartDeletion PROVE IInv'
    OBVIOUS
  <1> USE DEF IInv, Typed
  <1>1. PICK c \in Collection, recs \in SUBSET Record :
          /\ commands < MaxCommands /\ commands' = commands + 1
          /\ run' = [run EXCEPT !["delete"] =
                [pc |-> "probe", in |-> c, recs |-> recs, phase |-> "context",
                 before |-> 0, context |-> 0, seen |-> Ids(c), alone |-> TRUE]]
          /\ points' = Ensured(c)
    BY DEF StartDeletion, Begin
  <1>2. UNCHANGED <<corpus, jobs, manifest, lost, mixed, deleted>> BY DEF StartDeletion
  <1>3. /\ Collections' /\ Exists(c)'
        /\ \A k \in Collection : /\ Exists(k) => Exists(k)'
                                 /\ Ids(k)' = Ids(k)
                                 /\ \A u \in Ids(k) : points'[k][u] = points[k][u]
    BY <1>1, EnsuredKeeps
  <1>4. /\ run' = [j \in Command |-> run'[j]]
        /\ d' = [pc |-> "probe", in |-> c, recs |-> recs, phase |-> "context",
                 before |-> 0, context |-> 0, seen |-> Ids(c), alone |-> TRUE]
        /\ \A j \in Command \ {"delete"} : run'[j] = run[j]
    BY <1>1, GoMoves DEF d, Command
  <1>5. d' \in DeleteLocals BY <1>1, <1>4, IdsAreUnits DEF DeleteLocals
  <1>6. b' = b /\ g' = g /\ r' = r BY <1>4 DEF b, g, r, Command
  <1>7. Locals' BY <1>4, <1>5, <1>6 DEF Locals, MigrateLocals, RepairLocals
  <1>8. Opened'
    BY <1>3, <1>4, <1>6 DEF Opened, Collection
  <1>9. Typed' BY <1>1, <1>2, <1>3, <1>7, <1>8, Counting DEF IsMap
  <1>10. Spared BY <1>2, <1>3, <1>6, MainKept DEF Collection
  <1> QED BY <1>9, <1>10, SparedPreserves

(* A step that only reads the collections. *)
LEMMA ReadingPreserves ==
    ASSUME IInv, NEW x, x = Idle \/ x \in DeleteLocals, x.pc # "idle" => x.in = d.in /\ d.pc # "idle",
           Go("delete", x), UNCHANGED <<corpus, points, jobs, manifest, lost, mixed, deleted>>
    PROVE  IInv'
  <1> USE DEF IInv, Typed
  <1>1. /\ run' = [j \in Command |-> run'[j]]
        /\ d' = x
        /\ \A j \in Command \ {"delete"} : run'[j] = run[j]
    BY GoMoves DEF Go, d, Command
  <1>2. b' = b /\ g' = g /\ r' = r BY <1>1 DEF b, g, r, Command
  <1>3. Locals' BY <1>1, <1>2 DEF Locals, MigrateLocals, RepairLocals
  <1>4. Opened' BY <1>1, <1>2 DEF Opened, Exists
  <1>5. Typed' BY <1>3, <1>4 DEF Go, Collections, IsMap, Exists
  <1>6. Ids("main")' = Ids("main") BY DEF Ids, Exists
  <1>7. Spared BY <1>2, <1>6, MainKept
  <1> QED BY <1>5, <1>7, SparedPreserves

(* What a deletion selects are points, hence units. *)
LEMMA SelectedAreUnits ==
    ASSUME Collections, NEW c \in Collection, NEW phase, NEW recs
    PROVE  /\ Selected(phase, c, recs) \subseteq Ids(c)
           /\ Cardinality(Selected(phase, c, recs)) \in Nat
  <1>1. Selected(phase, c, recs) \subseteq Ids(c)
    BY DEF Selected, Quoting, Direct, InSnapshot
  <1> QED BY <1>1, IdsAreUnits, FS_Subset, FS_CardinalityType

(* The probe of the payload (dense.py:703-712). *)
LEMMA ProbePreserves == IInv /\ Probe => IInv'
  <1> SUFFICES ASSUME IInv, Probe PROVE IInv'
    OBVIOUS
  <1>1. d \in DeleteLocals BY DEF IInv, Typed, Locals, Probe, Idle
  <1>2. [d EXCEPT !.pc = "count"] \in DeleteLocals BY <1>1 DEF DeleteLocals
  <1>3. [d EXCEPT !.pc = "count"].in = d.in /\ d.pc # "idle" BY <1>1 DEF DeleteLocals
  <1> QED BY <1>2, <1>3, ReadingPreserves DEF Probe

(* The count before a removal. *)
LEMMA CountSelectedPreserves == IInv /\ CountSelected => IInv'
  <1> SUFFICES ASSUME IInv, CountSelected PROVE IInv'
    OBVIOUS
  <1> DEFINE n == Cardinality(Selected(d.phase, d.in, d.recs))
             x == [d EXCEPT !.pc = "remove", !.before = n]
  <1>1. d \in DeleteLocals BY DEF IInv, Typed, Locals, CountSelected, Idle
  <1>2. n \in Nat BY <1>1, SelectedAreUnits DEF IInv, Typed, DeleteLocals
  <1>3. x \in DeleteLocals /\ x.in = d.in /\ d.pc # "idle" BY <1>1, <1>2 DEF DeleteLocals
  <1>4. Go("delete", x) /\ UNCHANGED <<corpus, points, jobs, manifest, lost, mixed, deleted>>
    BY DEF CountSelected
  <1> HIDE DEF x
  <1> QED BY <1>3, <1>4, ReadingPreserves

(* The count after a removal. *)
LEMMA CheckRemovedPreserves == IInv /\ CheckRemoved => IInv'
  <1> SUFFICES ASSUME IInv, CheckRemoved PROVE IInv'
    OBVIOUS
  <1> DEFINE after == Cardinality(Selected(d.phase, d.in, d.recs))
             x == [d EXCEPT !.pc = "count", !.phase = "direct", !.context = d.before - after]
  <1>1. d \in DeleteLocals BY DEF IInv, Typed, Locals, CheckRemoved, Idle
  <1>2. after \in Nat BY <1>1, SelectedAreUnits DEF IInv, Typed, DeleteLocals
  <1>3. Go("delete", x) \/ Go("delete", Idle) BY DEF CheckRemoved
  <1>4. UNCHANGED <<corpus, points, jobs, manifest, lost, mixed, deleted>> BY DEF CheckRemoved
  <1> HIDE DEF after
  <1>5. d.before - after \in Int /\ d.pc # "idle" BY <1>1, <1>2 DEF DeleteLocals
  <1>6. x \in DeleteLocals /\ x.in = d.in BY <1>1, <1>5 DEF DeleteLocals
  <1>7. Idle.pc = "idle" BY DEF Idle
  <1> HIDE DEF x
  <1> QED BY <1>3, <1>4, <1>5, <1>6, <1>7, ReadingPreserves

(* The points that go are recorded as lost (dense.py:573-580).               *)
LEMMA RemoveSelectedPreserves == IInv /\ RemoveSelected => IInv'
  <1> SUFFICES ASSUME IInv, RemoveSelected PROVE IInv'
    OBVIOUS
  <1> USE DEF IInv, Typed
  <1> DEFINE gone == Selected(d.phase, d.in, d.recs)
             kept == [u \in Ids(d.in) \ gone |-> points[d.in][u]]
             x == [d EXCEPT !.pc = "check"]
  <1>1. d \in DeleteLocals /\ Exists(d.in) BY DEF Locals, RemoveSelected, Idle, Opened
  <1>2. d.in \in Collection /\ gone \subseteq Ids(d.in) /\ gone \subseteq Unit
    BY <1>1, SelectedAreUnits, IdsAreUnits DEF DeleteLocals
  <1>3. IsMap(kept, Point) BY <1>1, <1>2 DEF IsMap, Collections, Ids
  <1>4. kept # Absent BY <1>3, MapIsPresent
  <1>5. points' = [c \in Collection |-> IF c = d.in THEN kept ELSE points[c]]
    BY <1>2 DEF RemoveSelected, Collections
  <1>6. Write("delete", x) /\ UNCHANGED <<corpus, jobs, manifest, commands>>
    BY DEF RemoveSelected, Write
  <1>7. lost' = IF d.in = "main" THEN lost \union gone ELSE lost BY DEF RemoveSelected
  <1>8. x \in DeleteLocals /\ x.in = d.in BY <1>1 DEF DeleteLocals
  <1>9. kept = [u \in DOMAIN kept |-> kept[u]] /\ DOMAIN kept = Ids(d.in) \ gone
        /\ \A u \in DOMAIN kept : kept[u] = points[d.in][u]
    OBVIOUS
  <1> HIDE DEF x, kept, gone
  <1>10. Collections' /\ \A c \in Collection : Exists(c) => Exists(c)'
    BY <1>3, <1>4, <1>5 DEF Collections, Exists
  <1>11. /\ run' = [j \in Command |-> run'[j]]
         /\ d' = x
         /\ \A j \in Command \ {"delete"} :
                run'[j] = IF run[j].pc = "idle" THEN Idle ELSE [run[j] EXCEPT !.alone = FALSE]
    BY <1>6, WriteMoves DEF d, Command
  <1>12. /\ b' = Idle \/ b' \in BuildLocals
         /\ b'.pc = b.pc /\ b'.docs = b.docs /\ b'.pending = b.pending /\ b'.batch = b.batch
         /\ (g' = Idle \/ MigrateLocals(g)') /\ g'.pc = g.pc
         /\ (r' = Idle \/ RepairLocals(r)') /\ r'.pc = r.pc
    BY <1>11, OthersKeep DEF d, Command
  <1>13. Locals' BY <1>8, <1>11, <1>12 DEF Locals
  <1>14. Opened' BY <1>1, <1>2, <1>8, <1>10, <1>11, <1>12 DEF Opened, Collection
  <1>15. Typed'
    <2>1. d.recs \subseteq Record BY <1>1 DEF DeleteLocals
    <2>2. deleted' \subseteq Record /\ mixed' \subseteq Unit BY <2>1 DEF RemoveSelected
    <2> QED BY <1>2, <1>6, <1>7, <1>10, <1>13, <1>14, <2>2 DEF IsMap
  <1>16. Spared
    <2>1. CASE d.in = "main"
      BY <1>2, <1>4, <1>5, <1>6, <1>7, <1>9, <1>12, <2>1 DEF Spared, Ids, Exists, Collection
    <2>2. CASE d.in # "main"
      BY <1>5, <1>6, <1>7, <1>12, <2>2 DEF Spared, Ids, Exists, Collection
    <2> QED BY <2>1, <2>2
  <1> QED BY <1>15, <1>16, SparedPreserves

(* All steps of a deletion together. *)
LEMMA DeletePreserves == IInv /\ Delete => IInv'
    BY StartDeletionPreserves, ProbePreserves, CountSelectedPreserves, RemoveSelectedPreserves,
       CheckRemovedPreserves DEF Delete

-----------------------------------------------------------------------------
(* The steps of a migration and of a repair: neither touches the main        *)
(* collection (dense_migration.py:194-363, dense_repair.py:42-175).          *)
LEMMA MigratesAside ==
    ASSUME IInv, NEW x, x = Idle \/ MigrateLocals(x), x.pc # "idle" => Exists("main"),
           x.pc \in {"copy", "verify"} => Exists("ctx2")',
           Collections', \A c \in Collection : Exists(c) => Exists(c)',
           Ids("main")' = Ids("main"),
           \A u \in Ids("main") : points'["main"][u] = points["main"][u],
           run' = [run EXCEPT !["migrate"] = x] \/ Write("migrate", x),
           commands' \in 0 .. MaxCommands, mixed' \subseteq Unit,
           UNCHANGED <<corpus, jobs, manifest, lost, deleted>>
    PROVE  IInv'
  <1> USE DEF IInv, Typed
  <1>1. /\ run' = [j \in Command |-> run'[j]]
        /\ g' = x
        /\ \A j \in Command \ {"migrate"} :
              \/ run'[j] = run[j]
              \/ run'[j] = IF run[j].pc = "idle" THEN Idle ELSE [run[j] EXCEPT !.alone = FALSE]
    BY GoMoves, WriteMoves DEF g, Command
  <1>2. /\ b' = Idle \/ b' \in BuildLocals
        /\ b'.pc = b.pc /\ b'.docs = b.docs /\ b'.pending = b.pending /\ b'.batch = b.batch
        /\ (d' = Idle \/ d' \in DeleteLocals) /\ d'.pc = d.pc /\ d'.in = d.in
        /\ (r' = Idle \/ RepairLocals(r)') /\ r'.pc = r.pc
    BY <1>1, OthersKeep DEF g, Command
  <1>3. Locals' BY <1>1, <1>2 DEF Locals, MigrateLocals
  <1>4. d.pc # "idle" => d.in \in Collection BY DEF Locals, DeleteLocals, Idle
  <1>5. Opened' BY <1>1, <1>2, <1>4 DEF Opened, Collection
  <1>6. Typed' BY <1>3, <1>5 DEF IsMap
  <1>7. Spared BY <1>2, MainKept
  <1> QED BY <1>6, <1>7, SparedPreserves

(* The same for a repair. *)
LEMMA RepairsAside ==
    ASSUME IInv, NEW x, x = Idle \/ RepairLocals(x), x.pc # "idle" => Exists("ctx2"),
           Collections', \A c \in Collection : Exists(c) => Exists(c)',
           Ids("main")' = Ids("main"),
           \A u \in Ids("main") : points'["main"][u] = points["main"][u],
           run' = [run EXCEPT !["repair"] = x] \/ Write("repair", x),
           commands' \in 0 .. MaxCommands, UNCHANGED <<corpus, jobs, manifest, lost, mixed, deleted>>
    PROVE  IInv'
  <1> USE DEF IInv, Typed
  <1>1. /\ run' = [j \in Command |-> run'[j]]
        /\ r' = x
        /\ \A j \in Command \ {"repair"} :
              \/ run'[j] = run[j]
              \/ run'[j] = IF run[j].pc = "idle" THEN Idle ELSE [run[j] EXCEPT !.alone = FALSE]
    BY GoMoves, WriteMoves DEF r, Command
  <1>2. /\ b' = Idle \/ b' \in BuildLocals
        /\ b'.pc = b.pc /\ b'.docs = b.docs /\ b'.pending = b.pending /\ b'.batch = b.batch
        /\ (d' = Idle \/ d' \in DeleteLocals) /\ d'.pc = d.pc /\ d'.in = d.in
        /\ (g' = Idle \/ MigrateLocals(g)') /\ g'.pc = g.pc
    BY <1>1, OthersKeep DEF r, Command
  <1>3. Locals' BY <1>1, <1>2 DEF Locals, RepairLocals
  <1>4. d.pc # "idle" => d.in \in Collection BY DEF Locals, DeleteLocals, Idle
  <1>5. Opened' BY <1>1, <1>2, <1>4 DEF Opened, Collection
  <1>6. Typed' BY <1>3, <1>5 DEF IsMap
  <1>7. Spared BY <1>2, MainKept
  <1> QED BY <1>6, <1>7, SparedPreserves

(* A page moves a command on. *)
LEMMA PageMoves ==
    ASSUME NEW x, NEW from, NEW much
    PROVE  /\ MigrateLocals(x) => \A pc \in {"copy", "verify"} :
                 MigrateLocals([x EXCEPT !.from = from, !.copied = much, !.pc = pc])
           /\ RepairLocals(x) => \A pc \in {"page", "check"} :
                 RepairLocals([x EXCEPT !.from = from, !.changed = much, !.pc = pc])
    BY DEF MigrateLocals, RepairLocals

(* Nothing is written. *)
LEMMA UnchangedKeeps ==
    ASSUME Collections, points' = points
    PROVE  /\ Collections'
           /\ \A c \in Collection : (Exists(c)' <=> Exists(c)) /\ Ids(c)' = Ids(c)
           /\ \A u \in Ids("main") : points'["main"][u] = points["main"][u]
    BY DEF Collections, IsMap, Exists, Ids

(* All steps of a migration: they write the second collection only. *)
LEMMA MigratePreserves == IInv /\ Migrate => IInv'
  <1> SUFFICES ASSUME IInv, Migrate PROVE IInv'
    OBVIOUS
  <1> USE DEF Collection
  <1>0. Collections /\ commands \in 0 .. MaxCommands /\ Idle.pc = "idle" /\ mixed \subseteq Unit
    BY DEF IInv, Typed, Idle
  <1>1. CASE StartMigration
    <2>1. PICK x : /\ commands < MaxCommands /\ commands' = commands + 1
                   /\ run' = [run EXCEPT !["migrate"] = x]
                   /\ x = [pc |-> "validate", read |-> corpus,
                           refs |-> [u \in DOMAIN corpus |-> Quotes[u][corpus[u]]],
                           want |-> Cardinality(InSnapshot("main", "live")),
                           from |-> 0, copied |-> Nothing, alone |-> TRUE]
      BY <1>1 DEF StartMigration, Begin
    <2>2. IsMap([u \in DOMAIN corpus |-> Quotes[u][corpus[u]]], SUBSET Message)
      BY CorpusAssumption DEF IsMap, IInv, Typed
    <2>3. MigrateLocals(x) /\ x.pc = "validate" BY <2>1, <2>2 DEF MigrateLocals
    <2>4. Exists("main") /\ UNCHANGED <<corpus, points, jobs, manifest, lost, mixed, deleted>>
      BY <1>1 DEF StartMigration
    <2>5. commands' \in 0 .. MaxCommands BY <2>1, Counting
    <2>6. run' = [run EXCEPT !["migrate"] = x] BY <2>1
    <2> HIDE <2>1
    <2> QED BY <1>0, <2>3, <2>4, <2>5, <2>6, UnchangedKeeps, MigratesAside
  <1>2. CASE Validate
    <2>1. MigrateLocals(g) /\ Exists("main") BY <1>2 DEF IInv, Typed, Locals, Opened, Validate, Idle
    <2>2. MigrateLocals([g EXCEPT !.pc = "copy"]) BY <2>1 DEF MigrateLocals
    <2>3. /\ run' = [run EXCEPT !["migrate"] = [g EXCEPT !.pc = "copy"]]
          /\ points' = Ensured("ctx2") /\ UNCHANGED <<corpus, jobs, manifest, lost, mixed, deleted, commands>>
      BY <1>2 DEF Validate, Go
    <2> QED BY <1>0, <2>1, <2>2, <2>3, EnsuredKeeps, MigratesAside
  <1>3. CASE CopyPage
    <2>1. MigrateLocals(g) /\ Exists("main") /\ Exists("ctx2")
      BY <1>3 DEF IInv, Typed, Locals, Opened, CopyPage, Idle
    <2> DEFINE live == InSnapshot("main", "live")
               page == Page("main", g.from, live)
               end == Last(page, g.from)
               copied == Overlay(g.copied, [u \in page |-> points["main"][u].content])
               pc == IF \A u \in live : u.id <= end THEN "verify" ELSE "copy"
               x == [g EXCEPT !.from = end, !.copied = copied, !.pc = pc]
    <2>2. /\ page \subseteq Ids("main") /\ page \subseteq DOMAIN g.refs
          /\ points' = Upserted("ctx2", [u \in page |-> Referenced(u)])
          /\ Write("migrate", x)
      <3>1. page \subseteq Ids("main")
        BY FirstIsSubset DEF Page, InSnapshot
      <3>2. x = [g EXCEPT !.from = end,
                   !.copied = Overlay(@, [u \in page |-> points["main"][u].content]), !.pc = pc]
        OBVIOUS
      <3> QED BY <1>3, <3>1, <3>2 DEF CopyPage
    <2>3. IsMap([u \in page |-> Referenced(u)], Point)
      <3>1. page \subseteq Unit BY <1>0, <2>2, IdsAreUnits
      <3>2. ASSUME NEW u \in page PROVE Referenced(u) \in Point
        <4>1. points["main"][u] \in Point BY <1>0, <2>1, <2>2 DEF Collections, IsMap, Ids
        <4>2. g.refs[u] \in SUBSET Message BY <2>1, <2>2 DEF MigrateLocals, IsMap
        <4> QED BY <4>1, <4>2 DEF Referenced, Point
      <3> QED BY <3>1, <3>2 DEF IsMap
    <2>4. MigrateLocals(x) BY <2>1, PageMoves
    <2> HIDE DEF x, page
    <2>5. Collections' /\ points'["main"] = points["main"]
          /\ \A c \in Collection : Exists(c) => Exists(c)'
      BY <1>0, <2>1, <2>2, <2>3, UpsertedKeeps
    <2>6. Ids("main")' = Ids("main") BY <2>1, <2>5 DEF Ids, Exists
    <2>7. UNCHANGED <<corpus, jobs, manifest, lost, deleted, commands>> BY <1>3, <2>2 DEF CopyPage, Write
    <2>8. mixed' \subseteq Unit
      <3>1. mixed' = (mixed \ page) \union {u \in page : g.read[u] # points["main"][u].content}
        BY <1>3 DEF CopyPage, page
      <3>2. page \subseteq Unit BY <1>0, <2>2, IdsAreUnits
      <3> QED BY <1>0, <3>1, <3>2
    <2> QED BY <1>0, <2>1, <2>2, <2>4, <2>5, <2>6, <2>7, <2>8, MigratesAside
  <1>4. CASE Verify
    <2>1. /\ run' = [run EXCEPT !["migrate"] = Idle]
          /\ UNCHANGED <<corpus, points, jobs, manifest, lost, mixed, deleted, commands>>
      BY <1>4 DEF Verify, Go
    <2> QED BY <1>0, <2>1, UnchangedKeeps, MigratesAside
  <1> QED BY <1>1, <1>2, <1>3, <1>4 DEF Migrate

(* All steps of a repair: units keep their points. *)
LEMMA RepairPreserves == IInv /\ Repair => IInv'
  <1> SUFFICES ASSUME IInv, Repair PROVE IInv'
    OBVIOUS
  <1> USE DEF Collection
  <1>0. Collections /\ commands \in 0 .. MaxCommands /\ Idle.pc = "idle"
    BY DEF IInv, Typed, Idle
  <1>1. CASE StartRepair
    <2>1. PICK dry \in BOOLEAN :
             /\ commands < MaxCommands /\ commands' = commands + 1
             /\ run' = [run EXCEPT !["repair"] =
                   [pc |-> "page", dry |-> dry, total |-> Cardinality(Ids("ctx2")),
                    from |-> 0, changed |-> 0, alone |-> TRUE]]
      BY <1>1 DEF StartRepair, Begin
    <2>2. RepairLocals([pc |-> "page", dry |-> dry, total |-> Cardinality(Ids("ctx2")),
                        from |-> 0, changed |-> 0, alone |-> TRUE])
      BY DEF RepairLocals
    <2>3. Exists("ctx2") /\ UNCHANGED <<corpus, points, jobs, manifest, lost, mixed, deleted>>
      BY <1>1 DEF StartRepair
    <2>4. commands' \in 0 .. MaxCommands BY <2>1, Counting
    <2> QED BY <1>0, <2>1, <2>2, <2>3, <2>4, UnchangedKeeps, RepairsAside
  <1>2. CASE RelabelPage
    <2> DEFINE page == Page("ctx2", r.from, Ids("ctx2"))
               wrong == page \intersect InSnapshot("ctx2", "old")
               end == Last(page, r.from)
               new == [u \in wrong |-> [points["ctx2"][u] EXCEPT !.snapshot = "live"]]
               x == [r EXCEPT !.from = end, !.changed = @ + Cardinality(wrong),
                              !.pc = IF \A u \in Ids("ctx2") : u.id <= end
                                     THEN "check" ELSE "page"]
    <2>1. RepairLocals(r) /\ Exists("ctx2")
      BY <1>2 DEF IInv, Typed, Locals, Opened, RelabelPage, Idle
    <2>2. wrong \subseteq Ids("ctx2") BY DEF InSnapshot
    <2>3. IsMap(new, Point)
      <3>1. wrong \subseteq Unit BY <1>0, <2>2, IdsAreUnits
      <3>2. \A u \in wrong : points["ctx2"][u] \in Point
        BY <1>0, <2>1, <2>2 DEF Collections, IsMap, Ids
      <3> QED BY <3>1, <3>2 DEF IsMap, Point
    <2>4. RepairLocals(x) BY <2>1, PageMoves
    <2>5. UNCHANGED <<corpus, jobs, manifest, lost, mixed, deleted, commands>>
      BY <1>2 DEF RelabelPage, Go, Write
    <2>6. \/ run' = [run EXCEPT !["repair"] = x] /\ points' = points
          \/ Write("repair", x) /\ points' = Upserted("ctx2", new)
      BY <1>2 DEF RelabelPage, Go
    <2> HIDE DEF x, new
    <2>7. CASE run' = [run EXCEPT !["repair"] = x] /\ points' = points
      BY <1>0, <2>1, <2>4, <2>5, <2>7, UnchangedKeeps, RepairsAside
    <2>8. CASE Write("repair", x) /\ points' = Upserted("ctx2", new)
      <3>1. Collections' /\ points'["main"] = points["main"]
            /\ \A c \in Collection : Exists(c) => Exists(c)'
        BY <1>0, <2>1, <2>3, <2>8, UpsertedKeeps
      <3>2. Ids("main")' = Ids("main") BY <3>1 DEF Ids, Exists
      <3> QED BY <1>0, <2>1, <2>4, <2>5, <2>8, <3>1, <3>2, RepairsAside
    <2> QED BY <2>6, <2>7, <2>8
  <1>3. CASE CheckRepair
    <2>1. /\ run' = [run EXCEPT !["repair"] = Idle]
          /\ UNCHANGED <<corpus, points, jobs, manifest, lost, mixed, deleted, commands>>
      BY <1>3 DEF CheckRepair, Go
    <2> QED BY <1>0, <2>1, UnchangedKeeps, RepairsAside
  <1> QED BY <1>1, <1>2, <1>3 DEF Repair

-----------------------------------------------------------------------------
(* The steps of a build (indexing.py:42-127, dense.py:187-294, 825-872).     *)
LEMMA BuildMoves ==
    ASSUME IInv, NEW x, x = Idle \/ x \in BuildLocals, x.pc # "idle" => Exists("main")',
           Collections', \A c \in Collection : Exists(c) => Exists(c)',
           run' = [run EXCEPT !["build"] = x] \/ Write("build", x),
           commands' \in 0 .. MaxCommands, IsMap(jobs, Job)', lost' \subseteq Unit,
           manifest'.status \in {"none", "ready", "failed"},
           UNCHANGED <<corpus, mixed, deleted>>
    PROVE  Typed' /\ b' = x
  <1> USE DEF IInv, Typed
  <1>1. /\ run' = [j \in Command |-> run'[j]]
        /\ b' = x
        /\ \A j \in Command \ {"build"} :
              \/ run'[j] = run[j]
              \/ run'[j] = IF run[j].pc = "idle" THEN Idle ELSE [run[j] EXCEPT !.alone = FALSE]
    BY GoMoves, WriteMoves DEF b, Command
  <1>2. /\ (d' = Idle \/ d' \in DeleteLocals) /\ d'.pc = d.pc /\ d'.in = d.in
        /\ (g' = Idle \/ MigrateLocals(g)') /\ g'.pc = g.pc
        /\ (r' = Idle \/ RepairLocals(r)') /\ r'.pc = r.pc
    BY <1>1, OthersKeep DEF b, Command
  <1>3. Locals' BY <1>1, <1>2 DEF Locals
  <1>4. d.pc # "idle" => d.in \in Collection BY DEF Locals, DeleteLocals, Idle
  <1>5. Opened' BY <1>1, <1>2, <1>4 DEF Opened, Collection
  <1> QED BY <1>1, <1>3, <1>5

(* A build begins: its pending units have pending jobs. *)
LEMMA StartBuildPreserves == IInv /\ StartBuild => IInv'
  <1> SUFFICES ASSUME IInv, StartBuild PROVE IInv'
    OBVIOUS
  <1> USE DEF IInv
  <1> DEFINE x == [pc |-> "prepare", docs |-> corpus, pending |-> {}, batch |-> {},
                   actual |-> 0, alone |-> TRUE]
  <1>1. /\ commands < MaxCommands /\ commands' = commands + 1
        /\ run' = [run EXCEPT !["build"] = x]
        /\ points' = Ensured("main") /\ UNCHANGED <<corpus, jobs, manifest, lost, mixed, deleted>>
    BY DEF StartBuild, Begin
  <1>2. x \in BuildLocals BY DEF BuildLocals, Typed
  <1>3. x.pc = "prepare" /\ x.batch = {} OBVIOUS
  <1> HIDE DEF x
  <1>4. /\ Collections' /\ Exists("main")'
        /\ \A c \in Collection : Exists(c) => Exists(c)'
        /\ Ids("main")' = Ids("main")
        /\ \A u \in Ids("main") : points'["main"][u] = points["main"][u]
    BY <1>1, EnsuredKeeps DEF Typed, Collection
  <1>5. Typed' /\ b' = x
    BY <1>1, <1>2, <1>4, Counting, BuildMoves DEF Typed, IsMap
  <1>6. BuildReached' /\ Counted' BY <1>3, <1>5 DEF BuildReached, Counted
  <1>7. LedgerIsBehind' BY <1>1, <1>4 DEF LedgerIsBehind
  <1> QED BY <1>5, <1>6, <1>7

(* The next batch is taken, or none is left. *)
LEMMA PreparePreserves == IInv /\ Prepare => IInv'
  <1> SUFFICES ASSUME IInv, Prepare PROVE IInv'
    OBVIOUS
  <1> USE DEF IInv
  <1> DEFINE pending == Unindexed(b.docs)
             new == [u \in pending |-> [content |-> b.docs[u], status |-> "pending"]]
             x == [b EXCEPT !.pc = "batch", !.pending = pending]
  <1>1. /\ jobs' = Overlay(jobs, new) /\ run' = [run EXCEPT !["build"] = x]
        /\ UNCHANGED <<corpus, points, manifest, lost, mixed, deleted, commands>>
    BY DEF Prepare, Go
  <1>2. b \in BuildLocals /\ b.pc = "prepare" /\ Exists("main")
    BY DEF Prepare, Typed, Locals, Opened, Idle
  <1>3. DOMAIN b.docs \subseteq Unit /\ b.docs \in [DOMAIN b.docs -> Content]
    BY <1>2, CorpusAssumption DEF BuildLocals
  <1>4. pending \subseteq DOMAIN b.docs BY DEF Unindexed
  <1>5. IsMap(new, Job) BY <1>3, <1>4 DEF IsMap, Job
  <1>6. IsMap(jobs, Job)' /\ DOMAIN jobs' = DOMAIN jobs \union pending
    <2>1. IsMap(jobs, Job) /\ DOMAIN new = pending BY DEF Typed
    <2> HIDE DEF new
    <2>2. IsMap(Overlay(jobs, new), Job)
          /\ DOMAIN Overlay(jobs, new) = DOMAIN jobs \union DOMAIN new
      BY <1>5, <2>1, OverlayIsMap
    <2> QED BY <1>1, <2>1, <2>2 DEF IsMap
  <1>7. /\ x \in BuildLocals /\ x.pc = "batch" /\ x.pending = pending
        /\ x.batch = {} /\ x.docs = b.docs
    BY <1>2, <1>3, <1>4 DEF BuildLocals, BuildReached
  <1>8. /\ \A u \in DOMAIN jobs' : jobs'[u] = IF u \in pending THEN new[u] ELSE jobs[u]
        /\ \A u \in pending : new[u].content = b.docs[u] /\ new[u].status = "pending"
    BY <1>1 DEF Overlay
  <1>9. \A u \in DOMAIN b.docs \ pending : JobIs(u, "indexed")
    BY DEF Unindexed, JobIs
  <1> HIDE DEF x, pending, new
  <1>10. Collections' /\ (\A c \in Collection : Exists(c)' <=> Exists(c))
         /\ \A c \in Collection : Ids(c)' = Ids(c)
    BY <1>1, UnchangedKeeps DEF Typed
  <1>11. Typed' /\ b' = x
    BY <1>1, <1>2, <1>6, <1>7, <1>10, BuildMoves DEF Typed, Collection
  <1>12. BuildReached' BY <1>4, <1>6, <1>7, <1>8, <1>9, <1>11 DEF BuildReached, JobIs
  <1>13. Counted' BY <1>7, <1>11 DEF Counted
  <1>14. LedgerIsBehind'
    <2> SUFFICES ASSUME NEW u \in DOMAIN jobs', jobs'[u].status = "indexed"
                 PROVE  u \in lost \/ Holds(u, jobs'[u].content)
      BY <1>1, <1>10 DEF LedgerIsBehind, Holds, Collection
    <2>1. u \notin pending /\ u \in DOMAIN jobs /\ jobs'[u] = jobs[u] BY <1>6, <1>8
    <2> QED BY <2>1 DEF LedgerIsBehind, Holds
  <1> QED BY <1>11, <1>12, <1>13, <1>14

(* The batch is in the collection, its jobs still pending. *)
LEMMA UpsertBatchPreserves == IInv /\ UpsertBatch => IInv'
  <1> SUFFICES ASSUME IInv, UpsertBatch PROVE IInv'
    OBVIOUS
  <1> USE DEF IInv
  <1> DEFINE batch == First(b.pending, BatchSize)
             new == [u \in batch |-> NewPoint(u, b.docs[u])]
             x == [b EXCEPT !.pc = "mark", !.batch = batch, !.pending = @ \ batch]
  <1>1. /\ points' = Upserted("main", new) /\ Write("build", x) /\ lost' = lost \ batch
        /\ UNCHANGED <<corpus, jobs, manifest, mixed, deleted, commands>>
    BY DEF UpsertBatch, Write
  <1>2. b \in BuildLocals /\ b.pc = "batch" /\ Exists("main")
    BY DEF UpsertBatch, Typed, Locals, Opened, Idle
  <1>3. batch \subseteq b.pending BY FirstIsSubset
  <1>4. /\ DOMAIN b.docs \subseteq Unit /\ b.docs \in [DOMAIN b.docs -> Content]
        /\ b.pending \subseteq DOMAIN b.docs /\ b.batch = {}
    BY <1>2, CorpusAssumption DEF BuildLocals, BuildReached
  <1>5. IsMap(new, Point) BY <1>3, <1>4 DEF IsMap, NewPoint, Point
  <1>6. /\ x \in BuildLocals /\ x.pc = "mark" /\ x.docs = b.docs
        /\ x.pending = b.pending \ batch /\ x.batch = batch
    BY <1>2, <1>3, <1>4 DEF BuildLocals
  <1>7. DOMAIN new = batch /\ \A u \in batch : new[u].content = b.docs[u] BY DEF NewPoint
  <1> HIDE DEF x, new, batch
  <1>8. /\ Collections' /\ Ids("main")' = Ids("main") \union batch
        /\ \A u \in batch : points'["main"][u] = new[u]
        /\ \A u \in Ids("main") \ batch : points'["main"][u] = points["main"][u]
        /\ \A c \in Collection : Exists(c) => Exists(c)'
    BY <1>1, <1>2, <1>5, <1>7, UpsertedKeeps DEF Typed, Collection
  <1>9. Typed' /\ b' = x
    BY <1>1, <1>2, <1>6, <1>8, BuildMoves DEF Typed, Collection, IsMap
  <1>10. BuildReached'
    BY <1>1, <1>2, <1>3, <1>4, <1>6, <1>7, <1>8, <1>9 DEF BuildReached, JobIs, Holds
  <1>11. Counted' BY <1>6, <1>9 DEF Counted
  <1>12. LedgerIsBehind'
    <2>1. \A u \in batch : JobIs(u, "pending") BY <1>2, <1>3 DEF BuildReached
    <2>2. \A u \in batch : jobs[u].status = "pending" BY <2>1 DEF JobIs
    <2> QED BY <1>1, <1>8, <2>2 DEF LedgerIsBehind
  <1> QED BY <1>9, <1>10, <1>11, <1>12

(* The jobs of the batch become indexed: its points are there. *)
LEMMA MarkIndexedPreserves == IInv /\ MarkIndexed => IInv'
  <1> SUFFICES ASSUME IInv, MarkIndexed PROVE IInv'
    OBVIOUS
  <1> USE DEF IInv
  <1>1. PICK u \in b.batch :
          /\ jobs' = [jobs EXCEPT ![u].status = "indexed"]
          /\ run' = [run EXCEPT !["build"] =
                [b EXCEPT !.batch = @ \ {u}, !.pc = IF b.batch = {u} THEN "batch" ELSE "mark"]]
          /\ UNCHANGED <<corpus, points, manifest, lost, mixed, deleted, commands>>
    BY FirstIsSubset DEF MarkIndexed, Go
  <1> DEFINE x == [b EXCEPT !.batch = @ \ {u}, !.pc = IF b.batch = {u} THEN "batch" ELSE "mark"]
  <1>2. b \in BuildLocals /\ b.pc = "mark" /\ Exists("main")
    BY DEF MarkIndexed, Typed, Locals, Opened, Idle
  <1>3. JobIs(u, "pending") /\ u \in Unit /\ u \notin b.pending /\ u \in DOMAIN b.docs
    BY <1>2 DEF BuildReached, BuildLocals
  <1>4. /\ DOMAIN jobs' = DOMAIN jobs
        /\ jobs'[u].content = b.docs[u] /\ jobs'[u].status = "indexed" /\ jobs'[u] \in Job
        /\ \A v \in DOMAIN jobs \ {u} : jobs'[v] = jobs[v]
    BY <1>1, <1>3 DEF JobIs, Typed, IsMap, Job
  <1>5. IsMap(jobs, Job)'
    <2>1. jobs' = [v \in DOMAIN jobs |-> jobs'[v]] BY <1>1 DEF Typed, IsMap
    <2> QED BY <1>4, <2>1 DEF Typed, IsMap
  <1>6. /\ x \in BuildLocals /\ x.pc \in {"batch", "mark"} /\ x.docs = b.docs
        /\ x.pending = b.pending /\ x.batch = b.batch \ {u}
        /\ x.pc = "batch" => x.batch = {}
    BY <1>2 DEF BuildLocals
  <1> HIDE DEF x
  <1>7. Collections' /\ (\A c \in Collection : Exists(c)' <=> Exists(c))
        /\ \A c \in Collection : Ids(c)' = Ids(c)
    BY <1>1, UnchangedKeeps DEF Typed
  <1>8. run' = [run EXCEPT !["build"] = x] BY <1>1 DEF x
  <1>9. Typed' /\ b' = x
    BY <1>1, <1>2, <1>5, <1>6, <1>7, <1>8, BuildMoves DEF Typed, Collection
  <1>10. u \in lost \/ Holds(u, b.docs[u]) BY <1>2 DEF BuildReached
  <1>11. BuildReached'
    BY <1>1, <1>2, <1>3, <1>4, <1>6, <1>7, <1>9 DEF BuildReached, JobIs, Holds, Collection
  <1>12. Counted' BY <1>6, <1>9 DEF Counted
  <1>13. LedgerIsBehind'
    BY <1>1, <1>4, <1>7, <1>10 DEF LedgerIsBehind, Holds, Collection
  <1> QED BY <1>9, <1>11, <1>12, <1>13

(* The count of the points is that of the units read: they are the units.   *)
LEMMA CountIsExact ==
    ASSUME IInv, b \in BuildLocals, b.pc \in {"assert", "write"}, lost = {},
           Cardinality(Ids("main")) = Cardinality(DOMAIN b.docs)
    PROVE  Ids("main") = DOMAIN b.docs
  <1>1. \A u \in DOMAIN b.docs : JobIs(u, "indexed") BY DEF IInv, BuildReached
  <1>2. ASSUME NEW u \in DOMAIN b.docs PROVE u \in Ids("main")
    <2>1. u \in DOMAIN jobs /\ jobs[u].status = "indexed" BY <1>1 DEF JobIs
    <2> QED BY <2>1 DEF IInv, LedgerIsBehind
  <1>3. IsFiniteSet(Ids("main")) BY IdsAreUnits DEF IInv, Typed, Collection
  <1> QED BY <1>2, <1>3, FS_Subset

(* A step of a build that reads the collection, or ends it.                  *)
LEMMA FinishingPreserves ==
    ASSUME IInv, NEW x, x = Idle \/ x \in BuildLocals,
           x.pc \in {"assert", "write", "idle"},
           x.pc # "idle" => /\ b.pc \in {"batch", "assert"} /\ b.pending = {}
                            /\ x.docs = b.docs /\ x.batch = b.batch /\ x.pending = {},
           x.pc = "write" => /\ b.pc = "assert"
                             /\ Cardinality(Ids("main")) = Cardinality(DOMAIN b.docs),
           Go("build", x), manifest'.status \in {"none", "ready", "failed"},
           UNCHANGED <<corpus, points, jobs, lost, mixed, deleted>>
    PROVE  IInv'
  <1> USE DEF IInv
  <1>1. Collections' /\ (\A c \in Collection : Exists(c)' <=> Exists(c))
        /\ \A c \in Collection : Ids(c)' = Ids(c)
    BY UnchangedKeeps DEF Typed
  <1>2. Typed' /\ b' = x
    BY <1>1, BuildMoves DEF Typed, Go, IsMap, Opened, Collection
  <1>3. BuildReached' BY <1>1, <1>2 DEF BuildReached, JobIs
  <1>4. LedgerIsBehind' BY <1>1 DEF LedgerIsBehind, Collection
  <1>5. Counted'
    <2> SUFFICES ASSUME x.pc = "write", lost = {} PROVE Ids("main") = DOMAIN b.docs
      BY <1>1, <1>2 DEF Counted, Collection
    <2>1. b \in BuildLocals BY DEF Typed, Locals, Idle
    <2> QED BY <2>1, CountIsExact
  <1> QED BY <1>2, <1>3, <1>4, <1>5

(* The count, its check and the ready manifest. *)
LEMMA CountAndWritePreserve == IInv /\ (CountPoints \/ AssertCount \/ WriteManifest) => IInv'
  <1> SUFFICES ASSUME IInv, CountPoints \/ AssertCount \/ WriteManifest PROVE IInv'
    OBVIOUS
  <1>0. b \in BuildLocals
    BY DEF IInv, Typed, Locals, CountPoints, AssertCount, WriteManifest, Idle
  <1>1. CASE CountPoints
    <2> DEFINE n == Cardinality(Ids("main"))
               x == [b EXCEPT !.pc = "assert", !.actual = n]
    <2>1. n \in Nat BY IdsAreUnits DEF IInv, Typed, Collection
    <2>2. x \in BuildLocals /\ x.pc = "assert" /\ x.docs = b.docs /\ x.batch = b.batch
          /\ x.pending = b.pending
      BY <1>0, <2>1 DEF BuildLocals
    <2>3. b.pc = "batch" /\ b.pending = {} /\ Go("build", x)
          /\ UNCHANGED <<corpus, points, jobs, manifest, lost, mixed, deleted>>
      BY <1>1 DEF CountPoints
    <2> HIDE DEF x
    <2> QED BY <2>2, <2>3, FinishingPreserves DEF IInv, Typed
  <1>2. CASE AssertCount
    <2> DEFINE x == [b EXCEPT !.pc = "write"]
    <2>1. x \in BuildLocals /\ x.pc = "write" /\ x.docs = b.docs /\ x.batch = b.batch
          /\ x.pending = b.pending
      BY <1>0 DEF BuildLocals
    <2>2. /\ b.pc = "assert" /\ Go("build", x)
          /\ Cardinality(Ids("main")) = Cardinality(DOMAIN b.docs)
          /\ UNCHANGED <<corpus, points, jobs, manifest, lost, mixed, deleted>>
      BY <1>2 DEF AssertCount
    <2>3. b.pending = {} BY <2>2 DEF IInv, BuildReached
    <2> HIDE DEF x
    <2> QED BY <2>1, <2>2, <2>3, FinishingPreserves DEF IInv, Typed
  <1>3. CASE WriteManifest
    <2>1. Go("build", Idle) /\ manifest'.status \in {"none", "ready", "failed"}
          /\ UNCHANGED <<corpus, points, jobs, lost, mixed, deleted>>
      BY <1>3 DEF WriteManifest
    <2>2. Idle.pc = "idle" BY DEF Idle
    <2> QED BY <2>1, <2>2, FinishingPreserves
  <1> QED BY <1>1, <1>2, <1>3

(* All steps of a build together. *)
LEMMA BuildPreserves == IInv /\ Build => IInv'
    BY StartBuildPreserves, PreparePreserves, UpsertBatchPreserves, MarkIndexedPreserves,
       CountAndWritePreserve DEF Build

-----------------------------------------------------------------------------
(* The invariant is inductive. *)
LEMMA StepPreserves == IInv /\ [Next]_vars => IInv'
  <1> SUFFICES ASSUME IInv, [Next]_vars PROVE IInv'
    OBVIOUS
  <1>1. CASE ReplaceCorpus \/ Reconcile BY <1>1, CorpusPreserves
  <1>2. CASE Build BY <1>2, BuildPreserves
  <1>3. CASE Delete BY <1>3, DeletePreserves
  <1>4. CASE Migrate BY <1>4, MigratePreserves
  <1>5. CASE Repair BY <1>5, RepairPreserves
  <1>6. CASE CommandEnds
    <2>1. DOMAIN run = Command BY DEF IInv, Typed, Locals
    <2> QED BY <1>6, <2>1, EndsPreserves DEF CommandEnds
  <1>7. CASE UNCHANGED vars BY <1>7, AsidePreserves DEF vars, IInv, Typed
  <1> QED BY <1>1, <1>2, <1>3, <1>4, <1>5, <1>6, <1>7 DEF Next

(* The phase of a build, its jobs and the collection go together in every    *)
(* state (dense.py:154-294, 825-872).                                        *)
THEOREM Invariance == Spec => []IInv
  <1> QED BY Initially, StepPreserves, PTL DEF Spec

(* Every variable keeps its type.                                            *)
THEOREM TypeCorrect == Spec => []TypeOK
  <1>1. IInv => TypeOK
    <2> SUFFICES ASSUME IInv PROVE TypeOK
      OBVIOUS
    <2>1. /\ b.pc \in {"idle", "prepare", "batch", "mark", "assert", "write"}
          /\ d.pc \in {"idle", "probe", "count", "remove", "check"}
      BY DEF IInv, Typed, Locals, BuildLocals, DeleteLocals, Idle
    <2> QED BY <2>1 DEF IInv, Typed, TypeOK, Collections, IsMap, Ids, b, d
  <1> QED BY <1>1, Invariance, PTL

(* A unit the ledger calls indexed has its point, unless a deletion took it  *)
(* (dense.py:204-217, 266-294).                                              *)
THEOREM LedgerBehind == Spec => []LedgerIsBehind
  <1>1. IInv => LedgerIsBehind BY DEF IInv
  <1> QED BY <1>1, Invariance, PTL

(* The result of a command is its own (indexing.py:113-127).                 *)
LEMMA ResultIsOfItsCommand ==
    ASSUME Next, result' # result
    PROVE  /\ result'.of = "build" => WriteManifest
           /\ result'.of = "delete" => CheckRemoved
           /\ result'.of = "migrate" => Verify
           /\ result'.of = "repair" => CheckRepair
           /\ result'.of = "reconcile" => Reconcile
  <1>1. WriteManifest \/ CheckRemoved \/ Verify \/ CheckRepair \/ Reconcile
    BY DEF Next, Build, Delete, Migrate, Repair, CommandEnds, Ends, ReplaceCorpus, StartBuild,
           Prepare, UpsertBatch, MarkIndexed, CountPoints, AssertCount, StartDeletion, Probe,
           CountSelected, RemoveSelected, StartMigration, Validate, CopyPage, StartRepair, RelabelPage
  <1>2. WriteManifest => result'.of = "build" BY DEF WriteManifest
  <1>3. CheckRemoved => result'.of = "delete" BY DEF CheckRemoved
  <1>4. Verify => result'.of = "migrate" BY DEF Verify
  <1>5. CheckRepair => result'.of = "repair" BY DEF CheckRepair
  <1>6. Reconcile => result'.of = "reconcile" BY DEF Reconcile
  <1> QED BY <1>1, <1>2, <1>3, <1>4, <1>5, <1>6

(* A ready manifest stands for a complete collection (indexing.py:100-127).  *)
THEOREM ReadyComplete == Spec => ReadyIsComplete
  <1> DEFINE A == Returns("build") /\ result'.status = "ready" /\ lost = {} =>
                    /\ Ids("main") = DOMAIN result'.docs
                    /\ \A u \in Ids("main") : points["main"][u].content = result'.docs[u]
  <1>1. IInv /\ [Next]_vars => [A]_vars
    <2> SUFFICES ASSUME IInv, Next, result' # result, result'.of = "build", lost = {}
                 PROVE  /\ Ids("main") = DOMAIN result'.docs
                        /\ \A u \in Ids("main") : points["main"][u].content = result'.docs[u]
      BY DEF Returns, vars
    <2>1. WriteManifest BY ResultIsOfItsCommand
    <2>2. b.pc = "write" /\ result'.docs = b.docs BY <2>1 DEF WriteManifest
    <2>3. Ids("main") = DOMAIN b.docs BY <2>2 DEF IInv, Counted
    <2>4. \A u \in DOMAIN b.docs : JobIs(u, "indexed") BY <2>2 DEF IInv, BuildReached
    <2> QED BY <2>2, <2>3, <2>4 DEF IInv, LedgerIsBehind, JobIs
  <1> QED BY <1>1, Invariance, PTL DEF Spec, ReadyIsComplete

-----------------------------------------------------------------------------
(* What the deletions took from the main collection, whose points a build    *)
(* writes without references (indexing.py:54, dense.py:466-490).             *)
LossesNamed ==
    /\ \A u \in lost : \E t \in deleted : Names(t, u)
    /\ \A u \in Ids("main") : points["main"][u].refs \in {NoKey, {}}

(* A step that adds no point to the main collection and loses none.          *)
LEMMA LossesKept ==
    ASSUME LossesNamed, lost' = lost, deleted' = deleted, Ids("main")' \subseteq Ids("main"),
           \A u \in Ids("main")' : points'["main"][u] = points["main"][u]
    PROVE  LossesNamed'
    BY DEF LossesNamed, Names

(* The losses are named after every step. *)
LEMMA LossesPreserved == IInv /\ LossesNamed /\ [Next]_vars => LossesNamed'
  <1> SUFFICES ASSUME IInv, LossesNamed, [Next]_vars PROVE LossesNamed'
    OBVIOUS
  <1> USE DEF Collection
  <1>0. Collections BY DEF IInv, Typed
  <1>1. CASE UpsertBatch
    <2> DEFINE batch == First(b.pending, BatchSize)
               new == [u \in batch |-> NewPoint(u, b.docs[u])]
    <2>1. Exists("main") /\ points' = Upserted("main", new) /\ deleted' = deleted
          /\ lost' = lost \ batch
      BY <1>1 DEF UpsertBatch, IInv, Typed, Opened
    <2>2. points'["main"] = Overlay(points["main"], new)
      BY <1>0, <2>1 DEF Upserted, Collections
    <2>a. DOMAIN new = batch /\ \A u \in batch : new[u].refs = {} BY DEF NewPoint
    <2> HIDE DEF new, batch
    <2>3. \A u \in DOMAIN points'["main"] : points'["main"][u].refs \in {NoKey, {}}
      BY <2>1, <2>2, <2>a DEF Overlay, LossesNamed, Ids
    <2>4. \A u \in lost' : \E t \in deleted' : Names(t, u)
      BY <2>1 DEF LossesNamed
    <2> QED BY <2>3, <2>4 DEF LossesNamed, Ids, Names
  <1>2. CASE RemoveSelected /\ d.in = "main"
    <2> DEFINE gone == Selected(d.phase, d.in, d.recs)
    <2>1. /\ points' = [points EXCEPT !["main"] = [u \in Ids("main") \ gone |-> @[u]]]
          /\ lost' = lost \union gone /\ deleted' = deleted \union d.recs
      BY <1>2 DEF RemoveSelected
    <2>2. points'["main"] = [u \in Ids("main") \ gone |-> points["main"][u]]
      BY <1>0, <2>1 DEF Collections
    <2>3. Quoting("main", d.recs) = {} BY DEF Quoting, LossesNamed, InSnapshot
    <2>4. gone \subseteq Direct("main", d.recs) BY <1>2, <2>3 DEF Selected
    <2>5. \A u \in gone : \E t \in d.recs : Names(t, u) BY <2>4 DEF Direct
    <2> HIDE DEF gone
    <2>6. \A u \in lost' : \E t \in deleted' : Names(t, u)
      BY <2>1, <2>5 DEF LossesNamed
    <2>7. \A u \in DOMAIN points'["main"] : points'["main"][u].refs \in {NoKey, {}}
      BY <2>2 DEF LossesNamed
    <2> QED BY <2>6, <2>7 DEF LossesNamed, Ids, Names
  <1>3. ASSUME UNCHANGED <<lost, deleted>>,
               \/ points' = points
               \/ \E c \in Collection : points' = Ensured(c)
               \/ points'["main"] = points["main"]
        PROVE  LossesNamed'
    <2>1. CASE \E c \in Collection : points' = Ensured(c)
      <3>1. Ids("main")' = Ids("main") /\ \A u \in Ids("main") : points'["main"][u] = points["main"][u]
        BY <1>0, <2>1, EnsuredKeeps
      <3> QED BY <1>3, <3>1, LossesKept
    <2>2. CASE points'["main"] = points["main"]
      BY <1>3, <2>2, LossesKept DEF Ids, Exists
    <2> QED BY <1>3, <2>1, <2>2
  <1>4. CASE ReplaceCorpus \/ Reconcile \/ UNCHANGED vars
    BY <1>3, <1>4 DEF ReplaceCorpus, Reconcile, vars
  <1>5. CASE Build /\ ~UpsertBatch
    BY <1>3, <1>5 DEF Build, StartBuild, Prepare, MarkIndexed, CountPoints, AssertCount, WriteManifest
  <1>6. CASE Delete /\ ~(RemoveSelected /\ d.in = "main")
    <2>1. CASE RemoveSelected
      BY <1>0, <1>3, <1>6, <2>1 DEF RemoveSelected, Collections
    <2> QED BY <1>3, <1>6, <2>1 DEF Delete, StartDeletion, Probe, CountSelected, CheckRemoved
  <1>7. CASE Migrate
    <2>1. CASE CopyPage
      <3>1. points'["main"] = points["main"] /\ UNCHANGED <<lost, deleted>>
        BY <1>0, <2>1 DEF CopyPage, Upserted, Collections
      <3> QED BY <1>3, <3>1
    <2> QED BY <1>3, <1>7, <2>1 DEF Migrate, StartMigration, Validate, Verify
  <1>8. CASE Repair
    <2>1. CASE RelabelPage
      <3>1. points'["main"] = points["main"] /\ UNCHANGED <<lost, deleted>>
        BY <1>0, <2>1 DEF RelabelPage, Upserted, Collections
      <3> QED BY <1>3, <3>1
    <2> QED BY <1>3, <1>8, <2>1 DEF Repair, StartRepair, CheckRepair
  <1>9. CASE CommandEnds
    BY <1>3, <1>9 DEF CommandEnds, Ends
  <1> QED BY <1>1, <1>2, <1>4, <1>5, <1>6, <1>7, <1>8, <1>9 DEF Next

(* What reconciliation calls indexed is in the collection, when the ledger   *)
(* it is given holds the records of all deletions (reconciliation.py:92-241, *)
(* invalidation.py:142-158, dense.py:548-586).                               *)
THEOREM ReconciledIndexed == Spec => ReconciledIsIndexed
  <1> DEFINE A == Returns("reconcile") /\ result'.status = "ready" /\ Covers(result'.ledger, deleted) =>
                    \A u \in result'.active :
                        u \in Ids("main") /\ points["main"][u].content = corpus[u]
  <1>1. IInv /\ LossesNamed /\ [Next]_vars => [A]_vars
    <2> SUFFICES ASSUME IInv, LossesNamed, Next, result' # result, result'.of = "reconcile",
                        result'.status = "ready", Covers(result'.ledger, deleted),
                        NEW u \in result'.active
                 PROVE  u \in Ids("main") /\ points["main"][u].content = corpus[u]
      BY DEF Returns, vars
    <2>1. Reconcile BY ResultIsOfItsCommand
    <2>2. PICK previous, active, ledger :
             /\ active = DOMAIN corpus \ Blocked(ledger)
             /\ \A t \in ledger : t.unit = AnyUnit
             /\ result' = [of |-> "reconcile", active |-> active, ledger |-> ledger,
                           status |-> IF Reconciled(previous, active)
                                      THEN "ready" ELSE "needs_reconciliation"]
      BY <2>1 DEF Reconcile
    <2>3. Reconciled(previous, active) /\ u \in active /\ Covers(ledger, deleted) BY <2>2
    <2>4. Current(u) BY <2>3 DEF Reconciled
    <2>5. ASSUME u \in lost PROVE FALSE
      <3>1. PICK s \in deleted : Names(s, u) BY <2>5 DEF LossesNamed
      <3>2. PICK t \in ledger : t.message = s.message /\ t.revision \in {AnyRevision, s.revision}
        BY <2>3, <3>1 DEF Covers
      <3>3. Names(t, u) BY <2>2, <3>1, <3>2 DEF Names
      <3> QED BY <2>2, <2>3, <3>2, <3>3 DEF Blocked
    <2> QED BY <2>4, <2>5 DEF Current, IInv, LedgerIsBehind
  <1>2. Init => LossesNamed
    <2> SUFFICES ASSUME Init PROVE LossesNamed
      OBVIOUS
    <2>1. points["main"] = Absent \/ points["main"] = Labelled("live", LAMBDA u : NoKey)
      BY DEF Init
    <2> QED BY <2>1 DEF Init, LossesNamed, Ids, Exists, Labelled
  <1>3. Spec => []LossesNamed
    BY <1>2, LossesPreserved, Invariance, PTL DEF Spec
  <1> QED BY <1>1, <1>3, Invariance, PTL DEF Spec, ReconciledIsIndexed

-----------------------------------------------------------------------------
(* A deletion that runs alone, and the references of the migrated collection. *)

(* The points of the second collection carry the messages they quote: those  *)
(* a migration adds (dense_migration.py:116-138) and those that were there,  *)
(* but for the ones it joined with another content.                          *)
TrueReferences ==
    \A u \in Ids("ctx2") \ mixed :
        points["ctx2"][u].refs = Quotes[u][points["ctx2"][u].content]

Quoted ==
    /\ TrueReferences
    /\ g.pc # "idle" => /\ DOMAIN g.read = DOMAIN g.refs
                        /\ \A u \in DOMAIN g.refs : g.refs[u] = Quotes[u][g.read[u]]

(* The points removed so far, in their two halves. *)
DeletionReached ==
    d.pc # "idle" /\ d.alone =>
      LET gone == Cardinality(d.seen \ Ids(d.in))
          selected == Selected(d.phase, d.in, d.recs) IN
      /\ Ids(d.in) \subseteq d.seen
      /\ d.pc \in {"probe", "count", "remove"} => gone = d.context
      /\ d.pc = "remove" => d.before = Cardinality(selected)
      /\ d.pc = "check" => gone = d.context + d.before /\ selected = {}
      /\ d.phase = "context" => d.context = 0
      /\ d.phase = "direct" => Quoting(d.in, d.recs) \subseteq Direct(d.in, d.recs)

(* What a deletion selects depends on the points of its collection only.     *)
LEMMA SelectionKept ==
    ASSUME NEW c, NEW recs, Ids(c)' = Ids(c), \A u \in Ids(c) : points'[c][u] = points[c][u]
    PROVE  /\ InSnapshot(c, "live")' = InSnapshot(c, "live")
           /\ Quoting(c, recs)' = Quoting(c, recs)
           /\ Direct(c, recs)' = Direct(c, recs)
    BY DEF InSnapshot, Quoting, Direct

(* A step that spares the deletion and its points. *)
LEMMA DeletionSpared ==
    ASSUME DeletionReached, d' = d,
           d.pc # "idle" => Ids(d.in)' = Ids(d.in)
                            /\ \A u \in Ids(d.in) : points'[d.in][u] = points[d.in][u]
    PROVE  DeletionReached'
  <1> SUFFICES ASSUME d.pc # "idle", d.alone
               PROVE  DeletionReached'
    BY DEF DeletionReached
  <1> DEFINE c == d.in
             recs == d.recs
  <1>1. Ids(c)' = Ids(c) OBVIOUS
  <1>2. Quoting(c, recs)' = Quoting(c, recs) /\ Direct(c, recs)' = Direct(c, recs)
    BY SelectionKept
  <1>3. Selected(d.phase, c, recs)' = Selected(d.phase, c, recs) BY <1>2 DEF Selected
  <1> QED BY <1>1, <1>2, <1>3 DEF DeletionReached

(* The steps of the deletion itself (dense.py:559-586, 687-770).             *)
LEMMA StartDeletionReaches == IInv /\ StartDeletion => DeletionReached'
  <1> SUFFICES ASSUME IInv, StartDeletion PROVE DeletionReached'
    OBVIOUS
  <1>1. PICK c \in Collection, recs \in SUBSET Record :
          /\ run' = [run EXCEPT !["delete"] =
                [pc |-> "probe", in |-> c, recs |-> recs, phase |-> "context",
                 before |-> 0, context |-> 0, seen |-> Ids(c), alone |-> TRUE]]
          /\ points' = Ensured(c)
    BY DEF StartDeletion, Begin
  <1>2. d' = [pc |-> "probe", in |-> c, recs |-> recs, phase |-> "context",
              before |-> 0, context |-> 0, seen |-> Ids(c), alone |-> TRUE]
    BY <1>1, GoMoves DEF d, Command, IInv, Typed
  <1>3. Ids(c)' = Ids(c) BY <1>1, EnsuredKeeps DEF IInv, Typed
  <1>4. Cardinality(Ids(c) \ Ids(c)) = 0
    <2>1. Ids(c) \ Ids(c) = {} OBVIOUS
    <2> QED BY <2>1, FS_EmptySet
  <1>5. /\ d'.pc = "probe" /\ d'.in = c /\ d'.seen = Ids(c) /\ d'.context = 0
        /\ d'.phase = "context"
    BY <1>2
  <1> QED BY <1>3, <1>4, <1>5 DEF DeletionReached, Ids, Exists

(* One request of the deletion that reads: x is what it makes of its locals. *)
LEMMA ReadingReaches ==
    ASSUME IInv, DeletionReached, NEW x, d' = x, UNCHANGED points, d.pc # "idle", d.alone,
           x.in = d.in, x.recs = d.recs, x.seen = d.seen,
           LET gone == Cardinality(d.seen \ Ids(d.in))
               selected == Selected(x.phase, d.in, d.recs) IN
           /\ x.pc \in {"probe", "count", "remove"} => gone = x.context
           /\ x.pc = "remove" => x.before = Cardinality(selected)
           /\ x.pc # "check"
           /\ x.phase = "context" => x.context = 0
           /\ x.phase = "direct" => Quoting(d.in, d.recs) \subseteq Direct(d.in, d.recs)
    PROVE  DeletionReached'
    BY DEF DeletionReached, Ids, Exists, Selected, Quoting, Direct, InSnapshot

(* The probe and the two counts. *)
LEMMA ReadsReach == IInv /\ DeletionReached /\ (Probe \/ CountSelected \/ CheckRemoved) => DeletionReached'
  <1> SUFFICES ASSUME IInv, DeletionReached, Probe \/ CountSelected \/ CheckRemoved
               PROVE  DeletionReached'
    OBVIOUS
  <1>1. d \in DeleteLocals
    BY DEF IInv, Typed, Locals, Probe, CountSelected, CheckRemoved, Idle
  <1>2. UNCHANGED points BY DEF Probe, CountSelected, CheckRemoved
  <1> DEFINE n == Cardinality(Selected(d.phase, d.in, d.recs))
             probed == [d EXCEPT !.pc = "count"]
             counted == [d EXCEPT !.pc = "remove", !.before = n]
             turned == [d EXCEPT !.pc = "count", !.phase = "direct", !.context = d.before - n]
  <1>3. /\ Probe => d' = probed /\ d.pc = "probe"
        /\ CountSelected => d' = counted /\ d.pc = "count"
        /\ CheckRemoved => (d' = Idle \/ (d' = turned /\ d.phase = "context")) /\ d.pc = "check"
    BY GoMoves DEF Probe, CountSelected, CheckRemoved, Go, d, Command, IInv, Typed
  <1>4. d'.pc # "idle" /\ d'.alone => d.alone
    <2>1. probed.alone = d.alone /\ counted.alone = d.alone /\ turned.alone = d.alone
      BY <1>1 DEF DeleteLocals
    <2> HIDE DEF probed, counted, turned
    <2> QED BY <1>3, <2>1 DEF Idle
  <1>5. SUFFICES ASSUME d'.pc # "idle", d.alone PROVE DeletionReached'
    BY <1>4 DEF DeletionReached
  <1> HIDE DEF n
  <1>6. CASE Probe
    <2>1. /\ probed.pc = "count" /\ probed.in = d.in /\ probed.recs = d.recs /\ probed.seen = d.seen
          /\ probed.phase = d.phase /\ probed.context = d.context
      BY <1>1 DEF DeleteLocals
    <2> HIDE DEF probed
    <2> QED BY <1>2, <1>3, <1>5, <1>6, <2>1, ReadingReaches DEF DeletionReached
  <1>7. CASE CountSelected
    <2>1. /\ counted.pc = "remove" /\ counted.in = d.in /\ counted.recs = d.recs
          /\ counted.seen = d.seen /\ counted.phase = d.phase /\ counted.context = d.context
          /\ counted.before = n
      BY <1>1 DEF DeleteLocals
    <2> HIDE DEF counted
    <2> QED BY <1>2, <1>3, <1>5, <1>7, <2>1, ReadingReaches DEF DeletionReached, n
  <1>8. CASE CheckRemoved
    <2>1. d' = turned /\ d.phase = "context" /\ d.pc = "check"
      BY <1>3, <1>5, <1>8 DEF Idle
    <2>2. /\ turned.pc = "count" /\ turned.in = d.in /\ turned.recs = d.recs
          /\ turned.seen = d.seen /\ turned.phase = "direct" /\ turned.context = d.before - n
      BY <1>1 DEF DeleteLocals
    <2>3. n = 0 /\ Cardinality(d.seen \ Ids(d.in)) = d.before
          /\ Quoting(d.in, d.recs) \subseteq Direct(d.in, d.recs)
      <3>1. Selected(d.phase, d.in, d.recs) = {} /\ d.context = 0
            /\ Cardinality(d.seen \ Ids(d.in)) = d.context + d.before
        BY <1>5, <2>1 DEF DeletionReached
      <3>2. n = 0 BY <3>1, FS_EmptySet DEF n
      <3>3. Quoting(d.in, d.recs) \ Direct(d.in, d.recs) = {} BY <2>1, <3>1 DEF Selected
      <3>4. d.context + d.before = d.before BY <1>1, <3>1 DEF DeleteLocals
      <3> QED BY <3>1, <3>2, <3>3, <3>4
    <2>4. d.before - n = d.before BY <1>1, <2>3 DEF DeleteLocals
    <2> HIDE DEF turned
    <2> QED BY <1>2, <1>5, <2>1, <2>2, <2>3, <2>4, ReadingReaches
  <1> QED BY <1>6, <1>7, <1>8

(* The removal. *)
LEMMA RemoveSelectedReaches == IInv /\ DeletionReached /\ RemoveSelected => DeletionReached'
  <1> SUFFICES ASSUME IInv, DeletionReached, RemoveSelected PROVE DeletionReached'
    OBVIOUS
  <1> DEFINE c == d.in
             recs == d.recs
             gone == Selected(d.phase, c, recs)
             x == [d EXCEPT !.pc = "check"]
  <1>1. d \in DeleteLocals /\ Exists(c) /\ d.pc = "remove"
    BY DEF IInv, Typed, Locals, RemoveSelected, Idle, Opened
  <1>2. c \in Collection /\ gone \subseteq Ids(c) /\ Ids(c) \subseteq Unit
    BY <1>1, SelectedAreUnits, IdsAreUnits DEF DeleteLocals, IInv, Typed
  <1>3. d' = x /\ points' = [points EXCEPT ![c] = [u \in Ids(c) \ gone |-> @[u]]]
    BY WriteMoves DEF RemoveSelected, d, Command, IInv, Typed
  <1>4. /\ x.pc = "check" /\ x.in = c /\ x.recs = recs /\ x.seen = d.seen /\ x.phase = d.phase
        /\ x.context = d.context /\ x.before = d.before /\ x.alone = d.alone
    BY <1>1 DEF DeleteLocals
  <1>5. SUFFICES ASSUME d.alone PROVE DeletionReached'
    BY <1>3, <1>4 DEF DeletionReached
  <1>6. /\ points'[c] = [u \in Ids(c) \ gone |-> points[c][u]]
        /\ points'[c] # Absent
    <2>1. points'[c] = [u \in Ids(c) \ gone |-> points[c][u]]
      BY <1>2, <1>3 DEF IInv, Typed, Collections
    <2>2. IsMap([u \in Ids(c) \ gone |-> points[c][u]], Point)
      BY <1>1, <1>2 DEF IInv, Typed, Collections, IsMap, Ids
    <2> QED BY <2>1, <2>2, MapIsPresent
  <1> HIDE DEF x, gone
  <1>7. DOMAIN points'[c] = Ids(c) \ gone /\ \A u \in Ids(c) \ gone : points'[c][u] = points[c][u]
    BY <1>6
  <1>8. Ids(d.in)' = Ids(c) \ gone /\ d'.in = c
    BY <1>3, <1>4, <1>6, <1>7 DEF Ids, Exists
  <1>9. /\ Quoting(d.in, d.recs)' = Quoting(c, recs) \ gone
        /\ Direct(d.in, d.recs)' = Direct(c, recs) \ gone
    <2>1. d'.in = c /\ d'.recs = recs BY <1>3, <1>4
    <2>2. InSnapshot(d.in, "live")' = InSnapshot(c, "live") \ gone
      BY <1>7, <1>8 DEF InSnapshot
    <2>3. \A u \in InSnapshot(c, "live") \ gone : points'[c][u] = points[c][u]
      BY <1>7 DEF InSnapshot
    <2>4. Direct(d.in, d.recs)' = Direct(c, recs) \ gone
      BY <2>1, <2>2 DEF Direct, Names
    <2>5. Quoting(d.in, d.recs)' = Quoting(c, recs) \ gone
      BY <2>1, <2>2, <2>3 DEF Quoting
    <2> QED BY <2>4, <2>5
  <1>10. Selected(d.phase, d.in, d.recs)' = {}
    BY <1>3, <1>4, <1>9 DEF Selected, gone
  <1>11. Cardinality(d.seen \ (Ids(c) \ gone)) = d.context + d.before
    <2>1. /\ Ids(c) \subseteq d.seen /\ Cardinality(d.seen \ Ids(c)) = d.context
          /\ d.before = Cardinality(gone)
      BY <1>1, <1>5 DEF DeletionReached, gone
    <2>2. d.seen \subseteq Unit BY <1>1 DEF DeleteLocals
    <2>3. IsFiniteSet(d.seen \ Ids(c)) /\ IsFiniteSet(gone)
      BY <1>2, <2>2, UnitAssumption, FS_Subset
    <2>4. d.seen \ (Ids(c) \ gone) = (d.seen \ Ids(c)) \union gone
          /\ (d.seen \ Ids(c)) \intersect gone = {}
      BY <1>2, <2>1
    <2>5. Cardinality((d.seen \ Ids(c)) \union gone)
            = Cardinality(d.seen \ Ids(c)) + Cardinality(gone) - 0
      BY <2>3, <2>4, FS_Union, FS_EmptySet
    <2>6. d.context \in Int /\ d.before \in Nat BY <1>1 DEF DeleteLocals
    <2> HIDE DEF c
    <2> QED BY <2>1, <2>4, <2>5, <2>6
  <1> QED BY <1>1, <1>3, <1>4, <1>5, <1>8, <1>9, <1>10, <1>11 DEF DeletionReached

(* Steps of the other commands: they write, and the deletion is not alone    *)
(* any more, or they leave its points as they are.                           *)
LEMMA WriteEndsAlone ==
    ASSUME IInv, NEW k \in Command \ {"delete"}, NEW x, Write(k, x)
    PROVE  DeletionReached'
  <1>1. d' = IF d.pc = "idle" THEN Idle ELSE [d EXCEPT !.alone = FALSE]
    BY WriteMoves DEF d, Command, IInv, Typed
  <1>2. d.pc = "idle" \/ d \in DeleteLocals BY DEF IInv, Typed, Locals, Idle
  <1>3. ~(d'.pc # "idle" /\ d'.alone)
    <2>1. CASE d.pc = "idle" BY <1>1, <2>1 DEF Idle
    <2>2. CASE d.pc # "idle" BY <1>1, <1>2, <2>2 DEF DeleteLocals
    <2> QED BY <2>1, <2>2
  <1> QED BY <1>3 DEF DeletionReached

(* The other commands spare the deletion. *)
LEMMA OthersSpare ==
    ASSUME IInv, DeletionReached, NEW k \in Command \ {"delete"}, NEW x,
           run' = run \/ run' = [run EXCEPT ![k] = x],
           points' = points \/ \E c \in Collection : points' = Ensured(c)
    PROVE  DeletionReached'
  <1>1. d' = d BY GoMoves DEF d, Command, IInv, Typed
  <1>2. d.pc # "idle" => d.in \in Collection
    BY DEF IInv, Typed, Locals, DeleteLocals, Idle
  <1>3. \A c \in Collection : /\ Ids(c)' = Ids(c)
                              /\ \A u \in Ids(c) : points'[c][u] = points[c][u]
    BY EnsuredKeeps DEF IInv, Typed, Ids, Exists
  <1>4. d.pc # "idle" => /\ Ids(d.in)' = Ids(d.in)
                         /\ \A u \in Ids(d.in) : points'[d.in][u] = points[d.in][u]
    BY <1>1, <1>2, <1>3 DEF Ids, Exists
  <1> QED BY <1>1, <1>4, DeletionSpared

(* What a deletion reached is inductive. *)
LEMMA DeletionPreserved == IInv /\ DeletionReached /\ [Next]_vars => DeletionReached'
  <1> SUFFICES ASSUME IInv, DeletionReached, [Next]_vars PROVE DeletionReached'
    OBVIOUS
  <1> USE DEF Command
  <1>1. CASE ReplaceCorpus \/ Reconcile \/ UNCHANGED vars
    BY <1>1, OthersSpare DEF ReplaceCorpus, Reconcile, vars
  <1>2. CASE Build
    <2>1. CASE UpsertBatch BY <2>1, WriteEndsAlone DEF UpsertBatch
    <2>2. CASE StartBuild
      <3>1. points' = Ensured("main") BY <2>2 DEF StartBuild
      <3>2. \E x : run' = [run EXCEPT !["build"] = x] BY <2>2 DEF StartBuild, Begin
      <3> QED BY <3>1, <3>2, OthersSpare DEF Collection
    <2>3. CASE Prepare \/ MarkIndexed \/ CountPoints \/ AssertCount \/ WriteManifest
      <3>1. points' = points
        BY <2>3 DEF Prepare, MarkIndexed, CountPoints, AssertCount, WriteManifest
      <3>2. \E x : run' = [run EXCEPT !["build"] = x]
        BY <2>3 DEF Prepare, MarkIndexed, CountPoints, AssertCount, WriteManifest, Go
      <3> QED BY <3>1, <3>2, OthersSpare
    <2> QED BY <1>2, <2>1, <2>2, <2>3 DEF Build
  <1>3. CASE Delete
    BY <1>3, StartDeletionReaches, ReadsReach, RemoveSelectedReaches DEF Delete
  <1>4. CASE Migrate
    <2>1. CASE CopyPage BY <2>1, WriteEndsAlone DEF CopyPage
    <2>2. CASE Validate
      <3>1. points' = Ensured("ctx2") BY <2>2 DEF Validate
      <3>2. \E x : run' = [run EXCEPT !["migrate"] = x] BY <2>2 DEF Validate, Go
      <3> QED BY <3>1, <3>2, OthersSpare DEF Collection
    <2>3. CASE StartMigration \/ Verify
      <3>1. points' = points BY <2>3 DEF StartMigration, Verify
      <3>2. \E x : run' = [run EXCEPT !["migrate"] = x]
        BY <2>3 DEF StartMigration, Verify, Begin, Go
      <3> QED BY <3>1, <3>2, OthersSpare
    <2> QED BY <1>4, <2>1, <2>2, <2>3 DEF Migrate
  <1>5. CASE Repair
    <2>1. \/ \E x : Write("repair", x)
          \/ points' = points /\ \E x : run' = [run EXCEPT !["repair"] = x]
      BY <1>5 DEF Repair, StartRepair, RelabelPage, CheckRepair, Begin, Go
    <2> QED BY <2>1, WriteEndsAlone, OthersSpare
  <1>6. CASE CommandEnds
    <2>1. DOMAIN run = Command BY DEF IInv, Typed, Locals
    <2>2. PICK k \in Command : Ends(k) BY <1>6, <2>1 DEF CommandEnds
    <2>3. CASE k = "delete"
      <3>1. d' = Idle BY <2>2, <2>3, GoMoves DEF Ends, Go, d, IInv, Typed
      <3> QED BY <3>1 DEF DeletionReached, Idle
    <2>4. CASE k # "delete"
      BY <2>2, <2>4, OthersSpare DEF Ends, Go
    <2> QED BY <2>3, <2>4
  <1> QED BY <1>1, <1>2, <1>3, <1>4, <1>5, <1>6 DEF Next

(* A deletion that claims its projection applied has applied it, and counted *)
(* what it removed (dense.py:733-770).                                       *)
THEOREM DeletionExact == Spec => DeletionIsExact
  <1> DEFINE A == Returns("delete") /\ result'.alone =>
                    /\ Quoting(result'.in, result'.recs) \union Direct(result'.in, result'.recs) = {}
                    /\ result'.context + result'.deleted
                          = Cardinality(result'.seen \ Ids(result'.in))
  <1>1. IInv /\ DeletionReached /\ [Next]_vars => [A]_vars
    <2> SUFFICES ASSUME IInv, DeletionReached, Next, result' # result, result'.of = "delete",
                        result'.alone
                 PROVE  /\ Quoting(result'.in, result'.recs) \union Direct(result'.in, result'.recs) = {}
                        /\ result'.context + result'.deleted
                              = Cardinality(result'.seen \ Ids(result'.in))
      BY DEF Returns, vars
    <2> DEFINE after == Cardinality(Selected(d.phase, d.in, d.recs))
    <2>1. CheckRemoved BY ResultIsOfItsCommand
    <2>2. /\ d.pc = "check" /\ d.phase # "context"
          /\ result' = [of |-> "delete", in |-> d.in, recs |-> d.recs, context |-> d.context,
                        deleted |-> d.before - after, seen |-> d.seen, alone |-> d.alone]
      BY <2>1 DEF CheckRemoved
    <2> HIDE DEF after
    <2>3. /\ result'.in = d.in /\ result'.recs = d.recs /\ result'.context = d.context
          /\ result'.deleted = d.before - after /\ result'.seen = d.seen /\ d.alone
      BY <2>2
    <2>4. d \in DeleteLocals BY <2>2 DEF IInv, Typed, Locals, Idle
    <2>5. d.phase = "direct" /\ d.context \in Int /\ d.before \in Nat
      BY <2>2, <2>4 DEF DeleteLocals
    <2>6. /\ Cardinality(d.seen \ Ids(d.in)) = d.context + d.before
          /\ Direct(d.in, d.recs) = {} /\ Quoting(d.in, d.recs) \subseteq Direct(d.in, d.recs)
          /\ after = 0
      BY <2>2, <2>3, <2>5, FS_EmptySet DEF DeletionReached, Selected, after
    <2> QED BY <2>3, <2>5, <2>6
  <1>2. Init => DeletionReached BY DEF Init, DeletionReached, d, Idle
  <1>3. Spec => []DeletionReached
    BY <1>2, DeletionPreserved, Invariance, PTL DEF Spec
  <1> QED BY <1>1, <1>3, Invariance, PTL DEF Spec, DeletionIsExact

-----------------------------------------------------------------------------
(* The references of the second collection stay true. *)
LEMMA QuotedAside ==
    ASSUME IInv, Quoted, NEW k \in Command, NEW x,
           run' = run \/ run' = [run EXCEPT ![k] = x] \/ Write(k, x),
           k = "migrate" => x.pc = "idle" \/ (g.pc # "idle" /\ x.refs = g.refs /\ x.read = g.read),
           TrueReferences'
    PROVE  Quoted'
  <1>1. g'.pc # "idle" => g.pc # "idle" /\ g'.refs = g.refs /\ g'.read = g.read
    <2>1. CASE run' = run BY <2>1 DEF g
    <2>2. CASE k = "migrate" /\ run' # run
      BY <2>2, GoMoves, WriteMoves DEF g, Command, IInv, Typed
    <2>3. CASE k # "migrate" /\ run' # run
      BY <2>3, GoMoves, WriteMoves, OthersKeep DEF g, Command, IInv, Typed
    <2> QED BY <2>1, <2>2, <2>3
  <1> QED BY <1>1 DEF Quoted

(* That the references are true is inductive. *)
LEMMA QuotedPreserved == IInv /\ Quoted /\ [Next]_vars => Quoted'
  <1> SUFFICES ASSUME IInv, Quoted, [Next]_vars PROVE Quoted'
    OBVIOUS
  <1> USE DEF Command, Collection
  <1>0. Collections BY DEF IInv, Typed
  <1>a. ASSUME mixed' = mixed, Ids("ctx2")' \subseteq Ids("ctx2"),
               \A u \in Ids("ctx2")' : points'["ctx2"][u] = points["ctx2"][u]
        PROVE  TrueReferences'
    BY <1>a DEF Quoted, TrueReferences
  <1>1. ASSUME mixed' = mixed, points' = points \/ \E c \in Collection : points' = Ensured(c)
        PROVE  TrueReferences'
    BY <1>0, <1>1, <1>a, EnsuredKeeps DEF Ids, Exists
  <1>2. CASE ReplaceCorpus \/ Reconcile \/ UNCHANGED vars
    BY <1>1, <1>2, QuotedAside DEF ReplaceCorpus, Reconcile, vars
  <1>3. CASE Build
    <2>1. \E x : run' = [run EXCEPT !["build"] = x] \/ Write("build", x)
      BY <1>3 DEF Build, StartBuild, Prepare, UpsertBatch, MarkIndexed, CountPoints, AssertCount,
                  WriteManifest, Begin, Go
    <2>2. TrueReferences'
      <3>1. CASE UpsertBatch
        <4>1. points'["ctx2"] = points["ctx2"]
          BY <1>0, <3>1 DEF UpsertBatch, Upserted, Collections
        <4>2. mixed' = mixed BY <3>1 DEF UpsertBatch
        <4> QED BY <1>a, <4>1, <4>2 DEF Ids, Exists
      <3>2. CASE ~UpsertBatch
        BY <1>1, <1>3, <3>2 DEF Build, StartBuild, Prepare, MarkIndexed, CountPoints, AssertCount,
                                WriteManifest
      <3> QED BY <3>1, <3>2
    <2> QED BY <2>1, <2>2, QuotedAside
  <1>4. CASE Delete
    <2>1. \E x : run' = [run EXCEPT !["delete"] = x] \/ Write("delete", x)
      BY <1>4 DEF Delete, StartDeletion, Probe, CountSelected, RemoveSelected, CheckRemoved, Begin, Go
    <2>2. TrueReferences'
      <3>1. CASE RemoveSelected
        <4>1. d.in \in Collection BY <3>1 DEF RemoveSelected, IInv, Typed, Locals, DeleteLocals, Idle
        <4>a. mixed' = mixed BY <3>1 DEF RemoveSelected
        <4>2. CASE d.in = "ctx2"
          <5>1. /\ Exists("ctx2")
                /\ points'["ctx2"] = [u \in Ids("ctx2") \ Selected(d.phase, d.in, d.recs) |->
                                         points["ctx2"][u]]
            BY <1>0, <3>1, <4>2 DEF RemoveSelected, Collections, IInv, Typed, Opened
          <5> QED BY <1>a, <4>a, <5>1 DEF Ids, Exists
        <4>3. CASE d.in # "ctx2"
          <5>1. points'["ctx2"] = points["ctx2"]
            BY <1>0, <3>1, <4>3 DEF RemoveSelected, Collections
          <5> QED BY <1>a, <4>a, <5>1 DEF Ids, Exists
        <4> QED BY <4>2, <4>3
      <3>2. CASE ~RemoveSelected
        BY <1>1, <1>4, <3>2 DEF Delete, StartDeletion, Probe, CountSelected, CheckRemoved
      <3> QED BY <3>1, <3>2
    <2> QED BY <2>1, <2>2, QuotedAside
  <1>5. CASE StartMigration
    <2> DEFINE x == [pc |-> "validate", read |-> corpus,
                     refs |-> [u \in DOMAIN corpus |-> Quotes[u][corpus[u]]],
                     want |-> Cardinality(InSnapshot("main", "live")),
                     from |-> 0, copied |-> Nothing, alone |-> TRUE]
    <2>1. /\ run' = [run EXCEPT !["migrate"] = x]
          /\ x.refs = [u \in DOMAIN corpus |-> Quotes[u][corpus[u]]] /\ x.read = corpus
      BY <1>5 DEF StartMigration, Begin
    <2> HIDE DEF x
    <2>2. g' = x BY <2>1, GoMoves DEF g, IInv, Typed
    <2>3. points' = points /\ mixed' = mixed BY <1>5 DEF StartMigration
    <2> QED BY <1>1, <2>1, <2>2, <2>3 DEF Quoted
  <1>6. CASE Validate \/ Verify
    <2>1. MigrateLocals(g) /\ g.pc # "idle"
      BY <1>6 DEF Validate, Verify, IInv, Typed, Locals, MigrateLocals, Idle
    <2>2. \/ run' = [run EXCEPT !["migrate"] = [g EXCEPT !.pc = "copy"]]
          \/ run' = [run EXCEPT !["migrate"] = Idle]
      BY <1>6 DEF Validate, Verify, Go
    <2>3. /\ [g EXCEPT !.pc = "copy"].refs = g.refs /\ [g EXCEPT !.pc = "copy"].read = g.read
          /\ Idle.pc = "idle"
      BY <2>1 DEF MigrateLocals, Idle
    <2>4. TrueReferences'
      BY <1>1, <1>6 DEF Validate, Verify
    <2> QED BY <2>1, <2>2, <2>3, <2>4, QuotedAside
  <1>7. CASE CopyPage
    <2> DEFINE live == InSnapshot("main", "live")
               page == Page("main", g.from, live)
               end == Last(page, g.from)
               copied == Overlay(g.copied, [u \in page |-> points["main"][u].content])
               pc == IF \A u \in live : u.id <= end THEN "verify" ELSE "copy"
               x == [g EXCEPT !.from = end, !.copied = copied, !.pc = pc]
               new == [u \in page |-> Referenced(u)]
    <2>1. MigrateLocals(g) /\ Exists("main") /\ Exists("ctx2") /\ g.pc # "idle"
      BY <1>7 DEF CopyPage, IInv, Typed, Locals, MigrateLocals, Opened, Idle
    <2>2. /\ page \subseteq DOMAIN g.refs
          /\ points' = Upserted("ctx2", new)
          /\ Write("migrate", x)
      <3>1. x = [g EXCEPT !.from = end,
                   !.copied = Overlay(@, [u \in page |-> points["main"][u].content]), !.pc = pc]
        OBVIOUS
      <3> QED BY <1>7, <3>1 DEF CopyPage
    <2>3. x.refs = g.refs /\ x.read = g.read BY <2>1 DEF MigrateLocals
    <2>4. page \subseteq Ids("main") BY FirstIsSubset DEF Page, InSnapshot
    <2>5. mixed' = (mixed \ page) \union {u \in page : g.read[u] # points["main"][u].content}
      BY <1>7 DEF CopyPage
    <2> HIDE DEF x, page
    <2>6. \A u \in page : points["main"][u] \in Point
      BY <1>0, <2>1, <2>4 DEF Collections, IsMap, Ids
    <2>7. \A u \in page : /\ new[u].refs = Quotes[u][g.read[u]]
                          /\ new[u].content = points["main"][u].content
      BY <2>1, <2>2, <2>6 DEF Quoted, Referenced, Point
    <2>8. points'["ctx2"] = Overlay(points["ctx2"], new)
      BY <1>0, <2>2 DEF Upserted, Collections
    <2>9. \A u \in DOMAIN points'["ctx2"] \ mixed' :
             points'["ctx2"][u].refs = Quotes[u][points'["ctx2"][u].content]
      <3> SUFFICES ASSUME NEW u \in DOMAIN points'["ctx2"] \ mixed'
                   PROVE  points'["ctx2"][u].refs = Quotes[u][points'["ctx2"][u].content]
        OBVIOUS
      <3>1. CASE u \in page
        <4>1. points'["ctx2"][u] = new[u] BY <2>8, <3>1 DEF Overlay
        <4>2. g.read[u] = points["main"][u].content BY <2>5, <3>1
        <4> QED BY <2>7, <3>1, <4>1, <4>2
      <3>2. CASE u \notin page
        <4>1. u \in DOMAIN points["ctx2"] /\ points'["ctx2"][u] = points["ctx2"][u]
          BY <2>8, <3>2 DEF Overlay
        <4>2. u \notin mixed BY <2>5, <3>2
        <4> QED BY <2>1, <4>1, <4>2 DEF Quoted, TrueReferences, Ids
      <3> QED BY <3>1, <3>2
    <2>10. TrueReferences' BY <2>1, <2>9 DEF TrueReferences, Ids, Exists
    <2> QED BY <2>1, <2>2, <2>3, <2>10, QuotedAside
  <1>8. CASE Repair
    <2>1. \E x : run' = [run EXCEPT !["repair"] = x] \/ Write("repair", x)
      BY <1>8 DEF Repair, StartRepair, RelabelPage, CheckRepair, Begin, Go
    <2>2. TrueReferences'
      <3>a. mixed' = mixed BY <1>8 DEF Repair, StartRepair, RelabelPage, CheckRepair
      <3>1. CASE points' = points BY <1>1, <3>1, <3>a
      <3>2. CASE RelabelPage /\ points' # points
        <4>1. PICK wrong : /\ wrong \subseteq Ids("ctx2")
                           /\ points' = Upserted("ctx2", [u \in wrong |->
                                           [points["ctx2"][u] EXCEPT !.snapshot = "live"]])
          BY <3>2 DEF RelabelPage, InSnapshot
        <4>2. Exists("ctx2") BY <3>2 DEF RelabelPage, IInv, Typed, Opened
        <4>3. \A u \in Ids("ctx2") : points["ctx2"][u] \in Point
          BY <1>0, <4>2 DEF Collections, IsMap, Ids
        <4>4. \A u \in wrong : LET p == points["ctx2"][u]
                                  q == [p EXCEPT !.snapshot = "live"] IN
                              q.refs = p.refs /\ q.content = p.content
          BY <4>1, <4>3 DEF Point
        <4>5. points'["ctx2"] = Overlay(points["ctx2"], [u \in wrong |->
                                     [points["ctx2"][u] EXCEPT !.snapshot = "live"]])
          BY <1>0, <4>1 DEF Upserted, Collections
        <4>6. \A u \in DOMAIN points'["ctx2"] :
                 /\ u \in DOMAIN points["ctx2"]
                 /\ points'["ctx2"][u].refs = points["ctx2"][u].refs
                 /\ points'["ctx2"][u].content = points["ctx2"][u].content
          BY <4>1, <4>2, <4>4, <4>5 DEF Overlay, Ids
        <4> QED BY <3>a, <4>2, <4>6 DEF TrueReferences, Quoted, Ids, Exists
      <3> QED BY <1>8, <3>1, <3>2 DEF Repair, StartRepair, CheckRepair
    <2> QED BY <2>1, <2>2, QuotedAside
  <1>9. CASE CommandEnds
    <2>1. DOMAIN run = Command BY DEF IInv, Typed, Locals
    <2>2. PICK k \in Command : /\ run' = [run EXCEPT ![k] = Idle]
                               /\ points' = points /\ mixed' = mixed
      BY <1>9, <2>1 DEF CommandEnds, Ends, Go
    <2>3. Idle.pc = "idle" BY DEF Idle
    <2> QED BY <1>1, <2>2, <2>3, QuotedAside
  <1> QED BY <1>2, <1>3, <1>4, <1>5, <1>6, <1>7, <1>8, <1>9 DEF Next, Migrate

(* After a deletion from the migrated collection no point of the snapshot    *)
(* that was joined with the content it embeds quotes a deleted message       *)
(* (dense.py:630-685, dense_migration.py:37-138).                            *)
THEOREM MigratedCovered == Spec => MigratedIsCovered
  <1> DEFINE A == Returns("delete") /\ result'.alone /\ result'.in = "ctx2" =>
                    StillQuoting("ctx2", result'.recs) \subseteq mixed
             D == Returns("delete") /\ result'.alone =>
                    /\ Quoting(result'.in, result'.recs) \union Direct(result'.in, result'.recs) = {}
                    /\ result'.context + result'.deleted
                          = Cardinality(result'.seen \ Ids(result'.in))
  <1>1. IInv /\ Quoted /\ [D]_vars => [A]_vars
    <2> SUFFICES ASSUME IInv, Quoted, [D]_vars, Returns("delete"), result'.alone,
                        result'.in = "ctx2", NEW u \in StillQuoting("ctx2", result'.recs),
                        u \notin mixed
                 PROVE  FALSE
      OBVIOUS
    <2>1. Quoting("ctx2", result'.recs) = {} BY DEF Returns, vars
    <2> DEFINE content == points["ctx2"][u].content
    <2>2. /\ u \in InSnapshot("ctx2", "live")
          /\ \E t \in result'.recs : t.message \in Quotes[u][content]
      BY DEF StillQuoting
    <2>3. u \in Ids("ctx2") /\ u \in Unit
      BY <2>2, IdsAreUnits DEF InSnapshot, IInv, Typed, Collection
    <2>4. content \in Content
      BY <2>3 DEF IInv, Typed, Collections, Collection, IsMap, Ids, Point
    <2>5. points["ctx2"][u].refs = Quotes[u][content] BY <2>3 DEF Quoted, TrueReferences
    <2>6. Quotes[u][content] # NoKey
      BY <2>3, <2>4, CorpusAssumption, AbsentAssumption
    <2> QED BY <2>1, <2>2, <2>5, <2>6 DEF Quoting
  <1>2. Init => Quoted
    <2> SUFFICES ASSUME Init PROVE Quoted
      OBVIOUS
    <2>1. points["ctx2"] = Absent \/ points["ctx2"] = Labelled("old", LAMBDA u : Quotes[u][corpus[u]])
      BY DEF Init
    <2>2. g.pc = "idle" BY DEF Init, g, Idle
    <2> QED BY <2>1, <2>2 DEF Quoted, TrueReferences, Ids, Exists, Labelled
  <1>3. Spec => []Quoted
    BY <1>2, QuotedPreserved, Invariance, PTL DEF Spec
  <1>4. Spec => [][D]_vars BY DeletionExact DEF DeletionIsExact
  <1> QED BY <1>1, <1>3, <1>4, Invariance, PTL DEF MigratedIsCovered
=============================================================================
