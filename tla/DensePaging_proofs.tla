-------------------------- MODULE DensePaging_proofs --------------------------
(***************************************************************************)
(* The two commands that scroll through a collection page by page, for any *)
(* units and batch size: a repair that ran alone left no mislabelled point *)
(* and a migration that ran alone left an exact copy, whatever the target  *)
(* held before.                                                            *)
(***************************************************************************)
EXTENDS DenseMaintenance_proofs, WellFoundedInduction

(* The units of S a scroll has passed when its offset is `from`. *)
Passed(S, from) == {u \in S : u.id <= from}

(* What a repair that writes and runs alone has passed is labelled, and     *)
(* nothing else.                                                            *)
RepairReached ==
    r.pc # "idle" /\ r.alone /\ ~r.dry =>
        /\ r.from \in Nat
        /\ InSnapshot("ctx2", "live") = Passed(Ids("ctx2"), r.from)
        /\ r.pc = "check" => Passed(Ids("ctx2"), r.from) = Ids("ctx2")

(* What a migration that runs alone has passed is in the target with the    *)
(* payload it was given, and its vectors are remembered.                    *)
MigrationReached ==
    g.pc # "idle" /\ g.alone =>
        LET live == InSnapshot("main", "live") IN
        /\ g.from \in Nat
        /\ DOMAIN g.copied = Passed(live, g.from)
        /\ Passed(live, g.from) \subseteq Ids("ctx2")
        /\ \A u \in Passed(live, g.from) : points["ctx2"][u] = Referenced(u)
        /\ g.pc = "verify" => Passed(live, g.from) = live

-----------------------------------------------------------------------------
(* A finite set of units that is not empty has a last one. *)
LEMMA LastExists ==
    ASSUME NEW P \in SUBSET Unit, P # {}
    PROVE  \E u \in P : \A v \in P : v.id <= u.id
  <1> DEFINE After(u) == {v \in P : u.id < v.id}
             M == {Cardinality(After(u)) : u \in P}
  <1>1. IsFiniteSet(P) BY UnitAssumption, FS_Subset
  <1>2. \A u \in P : IsFiniteSet(After(u)) /\ Cardinality(After(u)) \in Nat
    BY <1>1, FS_Subset, FS_CardinalityType
  <1>3. M \in SUBSET Nat /\ M # {} BY <1>2
  <1>4. PICK m \in M : \A n \in M : <<n, m>> \notin OpToRel(<, Nat)
    <2> HIDE DEF M
    <2> QED BY <1>3, WFMin, NatLessThanWellFounded, Zenon
  <1>5. \A n \in M : ~(n < m)
    <2> HIDE DEF M
    <2> QED BY <1>3, <1>4, Zenon DEF OpToRel
  <1>6. PICK u \in P : m = Cardinality(After(u)) OBVIOUS
  <1>7. ASSUME NEW v \in P, ~(v.id <= u.id) PROVE FALSE
    <2>1. u.id \in Nat /\ v.id \in Nat /\ \A w \in P : w.id \in Nat BY UnitAssumption
    <2>2. After(v) \subseteq After(u) /\ v \in After(u) /\ v \notin After(v)
      BY <1>7, <2>1
    <2>3. /\ Cardinality(After(v)) <= Cardinality(After(u))
          /\ Cardinality(After(v)) # Cardinality(After(u))
      BY <1>2, <2>2, FS_Subset
    <2>4. Cardinality(After(v)) \in M OBVIOUS
    <2>5. Cardinality(After(v)) \in Nat /\ Cardinality(After(u)) \in Nat BY <1>2
    <2>6. ~(Cardinality(After(v)) < m) BY <1>5, <2>4
    <2> HIDE DEF After, M
    <2> QED BY <1>6, <2>3, <2>5, <2>6
  <1> QED BY <1>7

(* A page is all there is of a set from one offset to the next               *)
(* (dense_migration.py:56-87). *)
LEMMA PageIsNext ==
    ASSUME NEW c, NEW S \in SUBSET Unit, NEW from \in Nat,
           NEW page, page = Page(c, from, S), NEW end, end = Last(page, from)
    PROVE  /\ end \in Nat /\ page \subseteq S
           /\ Passed(S, end) = Passed(S, from) \union page
           /\ Passed(S, from) \intersect page = {}
  <1> DEFINE T == {u \in S : u.id > from}
             Before(u) == {v \in T : v.id < u.id}
  <1>1. page = {u \in T : Cardinality(Before(u)) < BatchSize} BY DEF Page, First
  <1>2. \A u \in S : u.id \in Nat BY UnitAssumption
  <1>3. page \subseteq S /\ page \subseteq Unit /\ Passed(S, from) \intersect page = {}
    BY <1>1, <1>2 DEF Passed
  <1>4. CASE page = {} BY <1>4 DEF Last, Passed
  <1>5. CASE page # {}
    <2>1. PICK w \in page : \A v \in page : v.id <= w.id BY <1>3, <1>5, LastExists
    <2>2. end \in {u.id : u \in page} /\ \A u \in page : u.id <= end
      <3>1. \E i \in {u.id : u \in page} : \A u \in page : u.id <= i BY <2>1
      <3> QED BY <1>5, <3>1 DEF Last
    <2>3. PICK z \in page : end = z.id BY <2>2
    <2>4. from < end /\ end \in Nat BY <1>1, <1>2, <1>3, <2>3
    <2>5. ASSUME NEW u \in S, from < u.id, u.id <= end PROVE u \in page
      <3>1. Before(u) \subseteq Before(z) BY <1>2, <1>3, <2>3, <2>5
      <3>2. IsFiniteSet(Before(z)) BY UnitAssumption, FS_Subset
      <3>3. /\ Cardinality(Before(u)) \in Nat /\ Cardinality(Before(z)) \in Nat
            /\ Cardinality(Before(u)) <= Cardinality(Before(z))
        BY <3>1, <3>2, FS_Subset, FS_CardinalityType
      <3> QED BY <1>1, <2>5, <3>3, BoundAssumption
    <2> QED BY <1>2, <1>3, <2>2, <2>4, <2>5 DEF Passed
  <1> QED BY <1>3, <1>4, <1>5

-----------------------------------------------------------------------------
(* A step of command k that writes points, or leaves those there are. *)
Elsewhere(k) ==
    \E x : \/ Write(k, x)
          \/ /\ run' = run \/ run' = [run EXCEPT ![k] = x]
             /\ points' = points \/ \E c \in Collection : points' = Ensured(c)

(* Every step is a step of some command. *)
LEMMA SomeoneMoves ==
    ASSUME IInv, [Next]_vars
    PROVE  Migrate \/ Repair \/ (\E k \in Command : Ends(k)) \/ Elsewhere("build") \/ Elsewhere("delete")
  <1>1. CASE ReplaceCorpus \/ Reconcile \/ UNCHANGED vars
    BY <1>1 DEF Elsewhere, ReplaceCorpus, Reconcile, vars
  <1>2. CASE Build
    <2>1. CASE UpsertBatch BY <2>1 DEF Elsewhere, UpsertBatch
    <2>2. CASE StartBuild BY <2>2 DEF Elsewhere, StartBuild, Begin, Collection
    <2>3. CASE Prepare \/ MarkIndexed \/ CountPoints \/ AssertCount \/ WriteManifest
      BY <2>3 DEF Elsewhere, Prepare, MarkIndexed, CountPoints, AssertCount, WriteManifest, Go
    <2> QED BY <1>2, <2>1, <2>2, <2>3 DEF Build
  <1>3. CASE Delete
    <2>1. CASE RemoveSelected BY <2>1 DEF Elsewhere, RemoveSelected
    <2>2. CASE StartDeletion BY <2>2 DEF Elsewhere, StartDeletion, Begin
    <2>3. CASE Probe \/ CountSelected \/ CheckRemoved
      BY <2>3 DEF Elsewhere, Probe, CountSelected, CheckRemoved, Go
    <2> QED BY <1>3, <2>1, <2>2, <2>3 DEF Delete
  <1>4. CASE CommandEnds BY <1>4 DEF CommandEnds, IInv, Typed, Locals
  <1> QED BY <1>1, <1>2, <1>3, <1>4 DEF Next

(* What the other commands see of a migration, of a repair, and of an end. *)
LEMMA MovesElsewhere ==
    /\ Migrate => Elsewhere("migrate")
    /\ Repair => Elsewhere("repair")
    /\ \A k \in Command : Ends(k) => Elsewhere(k)
  <1>1. ASSUME Migrate PROVE Elsewhere("migrate")
    <2>1. CASE CopyPage BY <2>1 DEF Elsewhere, CopyPage
    <2>2. CASE StartMigration \/ Validate \/ Verify
      BY <2>2 DEF Elsewhere, StartMigration, Validate, Verify, Begin, Go, Collection
    <2> QED BY <1>1, <2>1, <2>2 DEF Migrate
  <1>2. ASSUME Repair PROVE Elsewhere("repair")
    <2>1. CASE RelabelPage BY <2>1 DEF Elsewhere, RelabelPage, Go
    <2>2. CASE StartRepair \/ CheckRepair
      BY <2>2 DEF Elsewhere, StartRepair, CheckRepair, Begin, Go
    <2> QED BY <1>2, <2>1, <2>2 DEF Repair
  <1>3. ASSUME NEW k \in Command, Ends(k) PROVE Elsewhere(k)
    BY <1>3 DEF Elsewhere, Ends, Go
  <1> QED BY <1>1, <1>2, <1>3

(* A collection that exists is left as it is, unless it is written. *)
LEMMA EnsuredIsNoChange ==
    ASSUME Collections, NEW c \in Collection, Exists(c),
           points' = points \/ \E k \in Collection : points' = Ensured(k)
    PROVE  points'[c] = points[c]
    BY DEF Collections, Ensured, Exists

(* A repair that is still alone when another command moved has its points.   *)
LEMMA RepairSpared ==
    ASSUME IInv, RepairReached, NEW k \in Command \ {"repair"}, Elsewhere(k)
    PROVE  RepairReached'
  <1> USE DEF IInv, Typed
  <1>1. PICK x : \/ Write(k, x)
                 \/ /\ run' = run \/ run' = [run EXCEPT ![k] = x]
                    /\ points' = points \/ \E c \in Collection : points' = Ensured(c)
    BY DEF Elsewhere
  <1>2. r.pc = "idle" \/ RepairLocals(r) BY DEF Locals, Idle
  <1>3. CASE Write(k, x)
    <2>1. r' = IF r.pc = "idle" THEN Idle ELSE [r EXCEPT !.alone = FALSE]
      BY <1>3, WriteMoves DEF r, Command
    <2>2. CASE r.pc = "idle" BY <2>1, <2>2 DEF RepairReached, Idle
    <2>3. CASE RepairLocals(r) /\ r.pc # "idle" BY <2>1, <2>3 DEF RepairReached, RepairLocals
    <2> QED BY <1>2, <2>2, <2>3
  <1>4. CASE ~Write(k, x)
    <2>1. r' = r BY <1>1, <1>4, GoMoves DEF r, Command
    <2>2. r.pc # "idle" => points'["ctx2"] = points["ctx2"]
      BY <1>1, <1>4, EnsuredIsNoChange DEF Opened, Collection
    <2> QED BY <2>1, <2>2 DEF RepairReached, Passed, InSnapshot, Ids, Exists
  <1> QED BY <1>3, <1>4

(* So has a migration. *)
LEMMA MigrationSpared ==
    ASSUME IInv, MigrationReached, NEW k \in Command \ {"migrate"}, Elsewhere(k)
    PROVE  MigrationReached'
  <1> USE DEF IInv, Typed
  <1>1. PICK x : \/ Write(k, x)
                 \/ /\ run' = run \/ run' = [run EXCEPT ![k] = x]
                    /\ points' = points \/ \E c \in Collection : points' = Ensured(c)
    BY DEF Elsewhere
  <1>2. g.pc = "idle" \/ MigrateLocals(g) BY DEF Locals, Idle
  <1>3. CASE Write(k, x)
    <2>1. g' = IF g.pc = "idle" THEN Idle ELSE [g EXCEPT !.alone = FALSE]
      BY <1>3, WriteMoves DEF g, Command
    <2>2. CASE g.pc = "idle" BY <2>1, <2>2 DEF MigrationReached, Idle
    <2>3. CASE MigrateLocals(g) /\ g.pc # "idle" BY <2>1, <2>3 DEF MigrationReached, MigrateLocals
    <2> QED BY <1>2, <2>2, <2>3
  <1>4. CASE ~Write(k, x)
    <2>1. g' = g BY <1>1, <1>4, GoMoves DEF g, Command
    <2> SUFFICES ASSUME g.pc # "idle", g.alone PROVE MigrationReached'
      BY <2>1 DEF MigrationReached
    <2>2. points'["main"] = points["main"]
      BY <1>1, <1>4, EnsuredIsNoChange DEF Opened, Collection
    <2>3. Ids("main")' = Ids("main") /\ InSnapshot("main", "live")' = InSnapshot("main", "live")
      BY <2>2 DEF InSnapshot, Ids, Exists
    <2>4. Ids("ctx2")' = Ids("ctx2") /\ \A u \in Ids("ctx2") : points'["ctx2"][u] = points["ctx2"][u]
      <3>1. CASE points' = points BY <3>1 DEF Ids, Exists
      <3>2. CASE points' # points BY <1>1, <1>4, <3>2, EnsuredKeeps DEF Collection
      <3> QED BY <3>1, <3>2
    <2>5. Passed(InSnapshot("main", "live"), g.from)' = Passed(InSnapshot("main", "live"), g.from)
      BY <2>1, <2>3 DEF Passed
    <2>6. \A u : Referenced(u)' = Referenced(u) BY <2>1, <2>2 DEF Referenced
    <2> QED BY <2>1, <2>3, <2>4, <2>5, <2>6 DEF MigrationReached
  <1> QED BY <1>3, <1>4

-----------------------------------------------------------------------------
(* The steps of the repair itself.                                           *)

(* It begins at a collection without a labelled point (dense_repair.py:73-108). *)
LEMMA StartRepairReaches == IInv /\ StartRepair => RepairReached'
  <1> SUFFICES ASSUME IInv, StartRepair PROVE RepairReached'
    OBVIOUS
  <1>1. PICK x : run' = [run EXCEPT !["repair"] = x] /\ x.pc = "page" /\ x.from = 0
    <2>1. PICK dry \in BOOLEAN :
            run' = [run EXCEPT !["repair"] =
                      [pc |-> "page", dry |-> dry, total |-> Cardinality(Ids("ctx2")),
                       from |-> 0, changed |-> 0, alone |-> TRUE]]
      BY DEF StartRepair, Begin
    <2> DEFINE x == [pc |-> "page", dry |-> dry, total |-> Cardinality(Ids("ctx2")),
                     from |-> 0, changed |-> 0, alone |-> TRUE]
    <2>2. x.pc = "page" /\ x.from = 0 OBVIOUS
    <2>3. run' = [run EXCEPT !["repair"] = x] BY <2>1
    <2> HIDE DEF x
    <2> QED BY <2>2, <2>3
  <1>2. r'.pc = "page" /\ r'.from = 0
    BY <1>1, GoMoves DEF r, Command, IInv, Typed
  <1>3. UNCHANGED points /\ InSnapshot("ctx2", "live") = {}
    BY DEF StartRepair, Preflight
  <1>4. Passed(Ids("ctx2"), 0) = {}
    BY IdsAreUnits, UnitAssumption DEF Passed, Collection, IInv, Typed
  <1> QED BY <1>2, <1>3, <1>4 DEF RepairReached, InSnapshot, Ids, Exists, Passed

(* A page: what was not labelled in it is (dense_repair.py:109-134). *)
LEMMA RelabelPageReaches == IInv /\ RepairReached /\ RelabelPage => RepairReached'
  <1> SUFFICES ASSUME IInv, RepairReached, RelabelPage PROVE RepairReached'
    OBVIOUS
  <1> DEFINE S == Ids("ctx2")
             page == Page("ctx2", r.from, S)
             wrong == page \intersect InSnapshot("ctx2", "old")
             end == Last(page, r.from)
             new == [u \in wrong |-> [points["ctx2"][u] EXCEPT !.snapshot = "live"]]
             pc == IF \A u \in S : u.id <= end THEN "check" ELSE "page"
             x == [r EXCEPT !.from = end, !.changed = @ + Cardinality(wrong), !.pc = pc]
  <1>1. RepairLocals(r) /\ Exists("ctx2") /\ Collections /\ r.pc # "idle"
    BY DEF IInv, Typed, Locals, Opened, RelabelPage, Idle
  <1>2. \/ run' = [run EXCEPT !["repair"] = x] /\ points' = points /\ (r.dry \/ wrong = {})
        \/ Write("repair", x) /\ points' = Upserted("ctx2", new)
    BY DEF RelabelPage, Go
  <1>3. /\ x.from = end /\ x.pc = pc /\ x.alone = r.alone /\ x.dry = r.dry
    BY <1>1 DEF RepairLocals
  <1> HIDE DEF x
  <1>4. r' = x BY <1>2, GoMoves, WriteMoves DEF r, Command, IInv, Typed
  <1>5. SUFFICES ASSUME r.alone, ~r.dry PROVE RepairReached'
    BY <1>3, <1>4 DEF RepairReached
  <1>6. r.from \in Nat /\ InSnapshot("ctx2", "live") = Passed(S, r.from)
    BY <1>1, <1>5 DEF RepairReached
  <1>7. S \in SUBSET Unit BY <1>1, IdsAreUnits DEF Collection
  <1>8. /\ end \in Nat /\ page \subseteq S
        /\ Passed(S, end) = Passed(S, r.from) \union page
        /\ Passed(S, r.from) \intersect page = {}
    <2> DEFINE f == r.from
    <2> HIDE DEF f, S
    <2> QED BY <1>6, <1>7, PageIsNext DEF f
  <1>9. \A u \in S : points["ctx2"][u] \in Point
    BY <1>1 DEF Collections, IsMap, Ids, Collection
  <1>10. wrong = page
    BY <1>6, <1>8, <1>9 DEF InSnapshot, Point
  <1>11. Ids("ctx2")' = S /\ InSnapshot("ctx2", "live")' = Passed(S, end)
    <2>1. CASE points' = points /\ wrong = {}
      BY <1>6, <1>8, <1>10, <2>1 DEF InSnapshot, Ids, Exists
    <2>2. CASE points' = Upserted("ctx2", new)
      <3>1. IsMap(new, Point) BY <1>7, <1>8, <1>9, <1>10 DEF IsMap, Point
      <3>2. DOMAIN new = page /\ \A u \in page : new[u].snapshot = "live"
        BY <1>8, <1>9, <1>10 DEF Point
      <3> HIDE DEF new, page
      <3>3. /\ Ids("ctx2")' = S \union page
            /\ \A u \in page : points'["ctx2"][u] = new[u]
            /\ \A u \in S \ page : points'["ctx2"][u] = points["ctx2"][u]
        BY <1>1, <2>2, <3>1, <3>2, UpsertedKeeps DEF Collection
      <3>4. InSnapshot("ctx2", "live")' = {u \in S : points'["ctx2"][u].snapshot = "live"}
        BY <1>8, <3>3 DEF InSnapshot
      <3>5. InSnapshot("ctx2", "live") = {u \in S : points["ctx2"][u].snapshot = "live"}
        BY DEF InSnapshot
      <3>6. \A u \in S : points'["ctx2"][u].snapshot = "live"
                           <=> u \in page \/ points["ctx2"][u].snapshot = "live"
        <4> HIDE DEF S
        <4> QED BY <3>2, <3>3
      <3>7. InSnapshot("ctx2", "live")' = InSnapshot("ctx2", "live") \union page
        <4> HIDE DEF S
        <4> QED BY <1>8, <3>4, <3>5, <3>6
      <3>8. S \union page = S BY <1>8
      <3> HIDE DEF S, end
      <3> QED BY <1>6, <1>8, <3>3, <3>7, <3>8
    <2> QED BY <1>2, <1>5, <2>1, <2>2
  <1>12. pc = "check" => Passed(S, end) = S BY DEF Passed
  <1> HIDE DEF S, page, end, pc
  <1>13. Passed(Ids("ctx2"), r.from)' = Passed(S, end)
    BY <1>3, <1>4, <1>11 DEF Passed
  <1> QED BY <1>3, <1>4, <1>8, <1>11, <1>12, <1>13 DEF RepairReached

(* What a repair reached is inductive. *)
LEMMA RepairPreserved == IInv /\ RepairReached /\ [Next]_vars => RepairReached'
  <1> SUFFICES ASSUME IInv, RepairReached, [Next]_vars PROVE RepairReached'
    OBVIOUS
  <1> USE DEF Command
  <1>1. CASE \E k \in Command \ {"repair"} : Elsewhere(k) BY <1>1, RepairSpared
  <1>2. CASE StartRepair BY <1>2, StartRepairReaches
  <1>3. CASE RelabelPage BY <1>3, RelabelPageReaches
  <1>4. CASE CheckRepair \/ Ends("repair")
    <2>1. r' = Idle BY <1>4, GoMoves DEF CheckRepair, Ends, Go, r, IInv, Typed
    <2> QED BY <2>1 DEF RepairReached, Idle
  <1> QED BY <1>1, <1>2, <1>3, <1>4, SomeoneMoves, MovesElsewhere DEF Repair

(* A repair that reports success, alone, leaves no point of another snapshot *)
(* and counts every point of the collection (dense_repair.py:109-175).       *)
THEOREM RepairTotal == Spec => RepairIsTotal
  <1> DEFINE A == Returns("repair") /\ ~result'.dry /\ result'.alone =>
                    /\ InSnapshot("ctx2", "old") = {}
                    /\ result'.changed = Cardinality(Ids("ctx2"))
  <1>1. IInv /\ RepairReached /\ [Next]_vars => [A]_vars
    <2> SUFFICES ASSUME IInv, RepairReached, Next, result' # result, result'.of = "repair",
                        ~result'.dry, result'.alone
                 PROVE  /\ InSnapshot("ctx2", "old") = {}
                        /\ result'.changed = Cardinality(Ids("ctx2"))
      BY DEF Returns, vars
    <2>1. CheckRepair BY ResultIsOfItsCommand
    <2>2. /\ r.pc = "check" /\ ~r.dry /\ r.alone /\ result'.changed = r.changed
          /\ Cardinality(InSnapshot("ctx2", "live")) = r.changed
      BY <2>1 DEF CheckRepair
    <2>3. InSnapshot("ctx2", "live") = Ids("ctx2") BY <2>2 DEF RepairReached
    <2>4. InSnapshot("ctx2", "old") = {} BY <2>3 DEF InSnapshot
    <2> QED BY <2>2, <2>3, <2>4
  <1>2. Init => RepairReached BY DEF Init, RepairReached, r, Idle
  <1>3. Spec => []RepairReached
    BY <1>2, RepairPreserved, Invariance, PTL DEF Spec
  <1> QED BY <1>1, <1>3, Invariance, PTL DEF Spec, RepairIsTotal

-----------------------------------------------------------------------------
(* The steps of the migration itself.                                        *)

(* It begins with nothing passed, whatever the target holds                  *)
(* (dense_migration.py:194-262). *)
LEMMA BeginningReaches ==
    ASSUME IInv, MigrationReached, StartMigration \/ Validate
    PROVE  MigrationReached'
  <1>1. CASE StartMigration
    <2> DEFINE x == [pc |-> "validate", read |-> corpus,
                     refs |-> [u \in DOMAIN corpus |-> Quotes[u][corpus[u]]],
                     want |-> Cardinality(InSnapshot("main", "live")),
                     from |-> 0, copied |-> Nothing, alone |-> TRUE]
    <2>1. run' = [run EXCEPT !["migrate"] = x] /\ UNCHANGED points
      BY <1>1 DEF StartMigration, Begin
    <2>2. x.pc = "validate" /\ x.from = 0 /\ x.copied = Nothing OBVIOUS
    <2> HIDE DEF x
    <2>3. g' = x BY <2>1, GoMoves DEF g, Command, IInv, Typed
    <2>4. Passed(InSnapshot("main", "live"), 0)' = {}
      BY <2>1, IdsAreUnits, UnitAssumption DEF Passed, InSnapshot, Ids, Exists, Collection, IInv, Typed
    <2> QED BY <2>2, <2>3, <2>4 DEF MigrationReached, Nothing, Passed
  <1>2. CASE Validate
    <2> DEFINE x == [g EXCEPT !.pc = "copy"]
    <2>1. MigrateLocals(g) /\ Exists("main") /\ Collections /\ g.pc = "validate"
      BY <1>2 DEF IInv, Typed, Locals, Opened, Validate, Idle
    <2>2. run' = [run EXCEPT !["migrate"] = x] /\ points' = Ensured("ctx2")
      BY <1>2 DEF Validate, Go
    <2>3. /\ x.pc = "copy" /\ x.from = g.from /\ x.copied = g.copied /\ x.alone = g.alone
          /\ x.refs = g.refs
      BY <2>1 DEF MigrateLocals
    <2> HIDE DEF x
    <2>4. g' = x BY <2>2, GoMoves DEF g, Command, IInv, Typed
    <2>5. SUFFICES ASSUME g.alone PROVE MigrationReached'
      BY <2>3, <2>4 DEF MigrationReached
    <2>6. points'["main"] = points["main"] BY <2>1, <2>2, EnsuredIsNoChange DEF Collection
    <2>7. InSnapshot("main", "live")' = InSnapshot("main", "live")
      BY <2>6 DEF InSnapshot, Ids, Exists
    <2>8. Ids("ctx2")' = Ids("ctx2") /\ \A u \in Ids("ctx2") : points'["ctx2"][u] = points["ctx2"][u]
      BY <2>1, <2>2, EnsuredKeeps DEF Collection
    <2>9. Passed(InSnapshot("main", "live"), g.from)' = Passed(InSnapshot("main", "live"), g.from)
      BY <2>3, <2>4, <2>7 DEF Passed
    <2>10. \A u : Referenced(u)' = Referenced(u) BY <2>3, <2>4, <2>6 DEF Referenced
    <2> QED BY <2>1, <2>3, <2>4, <2>5, <2>7, <2>8, <2>9, <2>10 DEF MigrationReached
  <1> QED BY <1>1, <1>2

(* A page is copied with its references (dense_migration.py:264-295). *)
LEMMA CopyPageReaches == IInv /\ MigrationReached /\ CopyPage => MigrationReached'
  <1> SUFFICES ASSUME IInv, MigrationReached, CopyPage PROVE MigrationReached'
    OBVIOUS
  <1> DEFINE live == InSnapshot("main", "live")
             page == Page("main", g.from, live)
             end == Last(page, g.from)
             vectors == [u \in page |-> points["main"][u].content]
             copied == Overlay(g.copied, vectors)
             pc == IF \A u \in live : u.id <= end THEN "verify" ELSE "copy"
             new == [u \in page |-> Referenced(u)]
             x == [g EXCEPT !.from = end, !.copied = copied, !.pc = pc]
  <1>1. /\ MigrateLocals(g) /\ Exists("main") /\ Exists("ctx2") /\ Collections
        /\ g.pc = "copy"
    BY DEF IInv, Typed, Locals, Opened, CopyPage, Idle
  <1>2. /\ page \subseteq DOMAIN g.refs
        /\ points' = Upserted("ctx2", new)
        /\ Write("migrate", x)
    <2>1. x = [g EXCEPT !.from = end,
                 !.copied = Overlay(@, [u \in page |-> points["main"][u].content]), !.pc = pc]
      OBVIOUS
    <2> QED BY <2>1 DEF CopyPage
  <1>3. /\ x.from = end /\ x.pc = pc /\ x.alone = g.alone /\ x.refs = g.refs /\ x.copied = copied
    BY <1>1 DEF MigrateLocals
  <1> HIDE DEF x
  <1>4. g' = x BY <1>2, WriteMoves DEF g, Command, IInv, Typed
  <1>5. SUFFICES ASSUME g.alone PROVE MigrationReached'
    BY <1>3, <1>4 DEF MigrationReached
  <1>6. /\ g.from \in Nat /\ DOMAIN g.copied = Passed(live, g.from)
        /\ Passed(live, g.from) \subseteq Ids("ctx2")
        /\ \A u \in Passed(live, g.from) : points["ctx2"][u] = Referenced(u)
    BY <1>1, <1>5 DEF MigrationReached
  <1>7. live \in SUBSET Unit /\ live \subseteq Ids("main")
    BY <1>1, IdsAreUnits DEF Collection, InSnapshot
  <1>8. /\ end \in Nat /\ page \subseteq live
        /\ Passed(live, end) = Passed(live, g.from) \union page
    <2> DEFINE f == g.from
               S == live
    <2>1. f \in Nat /\ S \in SUBSET Unit BY <1>6, <1>7
    <2> HIDE DEF f, S
    <2>2. \A p, e : p = Page("main", f, S) /\ e = Last(p, f) =>
             e \in Nat /\ p \subseteq S /\ Passed(S, e) = Passed(S, f) \union p
      BY <2>1, PageIsNext
    <2> QED BY <2>2 DEF f, S
  <1>9. IsMap(new, Point)
    <2>1. ASSUME NEW u \in page PROVE u \in Unit /\ Referenced(u) \in Point
      <3>1. points["main"][u] \in Point /\ u \in Unit
        BY <1>1, <1>7, <1>8 DEF Collections, IsMap, Ids, Collection
      <3>2. g.refs[u] \in SUBSET Message BY <1>1, <1>2 DEF MigrateLocals, IsMap
      <3> QED BY <3>1, <3>2 DEF Referenced, Point
    <2> HIDE DEF page
    <2> QED BY <2>1 DEF IsMap
  <1>10. DOMAIN new = page /\ \A u \in page : new[u] = Referenced(u) OBVIOUS
  <1>11. DOMAIN copied = Passed(live, end) BY <1>6, <1>8 DEF Overlay
  <1>12. pc = "verify" => Passed(live, end) = live BY DEF Passed
  <1> HIDE DEF new, page, copied, pc, end
  <1>13. /\ Ids("ctx2")' = Ids("ctx2") \union page
         /\ \A u \in page : points'["ctx2"][u] = new[u]
         /\ \A u \in Ids("ctx2") \ page : points'["ctx2"][u] = points["ctx2"][u]
         /\ points'["main"] = points["main"]
    BY <1>1, <1>2, <1>9, <1>10, UpsertedKeeps DEF Collection
  <1>14. InSnapshot("main", "live")' = live BY <1>13 DEF InSnapshot, Ids, Exists
  <1> HIDE DEF live
  <1>15. \A u : Referenced(u)' = Referenced(u) BY <1>3, <1>4, <1>13 DEF Referenced
  <1>16. Passed(InSnapshot("main", "live"), g.from)' = Passed(live, end)
    BY <1>3, <1>4, <1>14 DEF Passed
  <1>17. /\ Passed(live, end) \subseteq Ids("ctx2")'
         /\ \A u \in Passed(live, end) : points'["ctx2"][u] = Referenced(u)
    BY <1>6, <1>8, <1>10, <1>13
  <1> QED BY <1>3, <1>4, <1>8, <1>11, <1>12, <1>14, <1>15, <1>16, <1>17 DEF MigrationReached

(* What a migration reached is inductive. *)
LEMMA MigrationPreserved == IInv /\ MigrationReached /\ [Next]_vars => MigrationReached'
  <1> SUFFICES ASSUME IInv, MigrationReached, [Next]_vars PROVE MigrationReached'
    OBVIOUS
  <1> USE DEF Command
  <1>1. CASE \E k \in Command \ {"migrate"} : Elsewhere(k) BY <1>1, MigrationSpared
  <1>2. CASE StartMigration \/ Validate BY <1>2, BeginningReaches
  <1>3. CASE CopyPage BY <1>3, CopyPageReaches
  <1>4. CASE Verify \/ Ends("migrate")
    <2>1. g' = Idle BY <1>4, GoMoves DEF Verify, Ends, Go, g, IInv, Typed
    <2> QED BY <2>1 DEF MigrationReached, Idle
  <1> QED BY <1>1, <1>2, <1>3, <1>4, SomeoneMoves, MovesElsewhere DEF Migrate

(* A migration that reports success, alone, leaves in the target the points  *)
(* of the source with the corpus' references, and no other: also when it was *)
(* forced over the rest of an earlier one (dense_migration.py:264-323).      *)
THEOREM MigrationExact == Spec => MigrationIsExact
  <1> DEFINE A == Returns("migrate") /\ result'.alone =>
                    points["ctx2"] = [u \in InSnapshot("main", "live") |->
                        [points["main"][u] EXCEPT !.refs = result'.refs[u]]]
  <1>1. IInv /\ MigrationReached /\ [Next]_vars => [A]_vars
    <2> SUFFICES ASSUME IInv, MigrationReached, Next, result' # result, result'.of = "migrate",
                        result'.alone
                 PROVE  points["ctx2"] = [u \in InSnapshot("main", "live") |->
                            [points["main"][u] EXCEPT !.refs = result'.refs[u]]]
      BY DEF Returns, vars
    <2> DEFINE live == InSnapshot("main", "live")
    <2>1. Verify BY ResultIsOfItsCommand
    <2>2. /\ g.pc = "verify" /\ g.alone /\ result'.refs = g.refs
          /\ Cardinality(DOMAIN g.copied) = Cardinality(Ids("ctx2"))
      BY <2>1 DEF Verify
    <2>3. /\ DOMAIN g.copied = live /\ live \subseteq Ids("ctx2")
          /\ \A u \in live : points["ctx2"][u] = Referenced(u)
      BY <2>2 DEF MigrationReached
    <2>4. Exists("ctx2") /\ IsFiniteSet(Ids("ctx2"))
      BY <2>2, IdsAreUnits DEF IInv, Typed, Opened, Collection
    <2>5. Ids("ctx2") = live BY <2>2, <2>3, <2>4, FS_Subset
    <2>6. points["ctx2"] = [u \in live |-> points["ctx2"][u]]
      BY <2>4, <2>5 DEF Ids, IInv, Typed, Collections, IsMap, Collection
    <2> HIDE DEF live
    <2>7. points["ctx2"] = [u \in live |-> Referenced(u)] BY <2>3, <2>6
    <2> QED BY <2>2, <2>7 DEF Referenced, live
  <1>2. Init => MigrationReached BY DEF Init, MigrationReached, g, Idle
  <1>3. Spec => []MigrationReached
    BY <1>2, MigrationPreserved, Invariance, PTL DEF Spec
  <1> QED BY <1>1, <1>3, Invariance, PTL DEF Spec, MigrationIsExact
=============================================================================
