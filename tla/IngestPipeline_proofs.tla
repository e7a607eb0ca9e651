------------------------- MODULE IngestPipeline_proofs -------------------------
(***************************************************************************)
(* What the ingest commands promise of the files they publish, for any     *)
(* archives, ranks, tombstones and limits, whatever fails or is run again: *)
(* a selection is the lowest-ranked one, a resumed hydration leaves what   *)
(* an uninterrupted one would, and the corpus hides no gap in a context    *)
(* and holds nothing that was deleted.                                     *)
(***************************************************************************)
EXTENDS IngestPipeline, FiniteSetTheorems, WellFoundedInduction, TLAPS

(* What a retainer of capacity n may hold: one message of a name.            *)
Retains(K, n) ==
    /\ K \subseteq Message /\ IsFiniteSet(K) /\ Cardinality(K) <= n
    /\ \A k, l \in K : k.name = l.name => k = l

(* What it holds after it was offered the messages of the places P in their *)
(* order: of each name the message met first, of the lowest-ranked names,   *)
(* and of all names unless it is full.                                      *)
IsLowest(K, P, rank, n) ==
    /\ K \subseteq FirstMet(P)
    /\ \/ Names(K) = NamesAt(P)
       \/ /\ Cardinality(K) = n
          /\ \A k \in K, a \in NamesAt(P) \ Names(K) : rank[k.name] < rank[a]

-----------------------------------------------------------------------------
(* The types of the state.                                                  *)

(* The files of the ingest directory.                                       *)
File == {"selection", "selectionManifest", "checkpoint", "context", "controls",
         "hydrationManifest", "staged", "corpus", "corpusManifest"}

(* A set of messages that was retained. *)
Rows(S) == S \subseteq Message /\ IsFiniteSet(S)

(* The locals of a command. *)
DiscoveryLocals ==
    /\ DOMAIN proc = {"cmd", "pc", "run", "at", "line", "kept", "scanned", "complete", "status"}
    /\ proc.pc \in {"scan", "manifest"}
    /\ proc.run.limit \in Nat /\ proc.scanned \in Nat
    /\ proc.at \in DiscoverySources \union {Len(Archive) + 1} /\ proc.line \in Nat \ {0}
    /\ Retains(proc.kept, Target)
    /\ proc.complete \in BOOLEAN /\ proc.status \in [Sources -> Status]

(* The inputs of a hydration.                                               *)
HydrationRunTyped(run) ==
    Rows(run.selection) /\ run.limit \in Nat

HydrationLocals ==
    /\ DOMAIN proc = {"cmd", "pc", "run", "complete", "status", "progress"}
    /\ proc.pc \in {"scan", "publish", "controls", "manifest", "registry", "checkpoint"}
    /\ HydrationRunTyped(proc.run)
    /\ proc.complete \in BOOLEAN /\ proc.status \in [Sources -> Status]

CorpusLocals ==
    /\ DOMAIN proc = {"cmd", "pc", "run", "found"}
    /\ proc.pc \in {"stage", "replace", "manifest"}
    /\ proc.run.selection \subseteq Message
    /\ proc.run.context # None => proc.run.context \subseteq Message

LocalsTyped ==
    \/ proc = Idle
    \/ proc.cmd = "discover" /\ DiscoveryLocals
    \/ proc.cmd = "hydrate" /\ HydrationLocals
    \/ proc.cmd = "corpus" /\ CorpusLocals

FilesTyped ==
    /\ DOMAIN disk = File
    /\ disk.selection # None => Rows(disk.selection)
    /\ disk.context # None => disk.context \subseteq Message

RestTyped ==
    /\ registry \in [Sources -> Status]
    /\ ledger \subseteq Tombstone
    /\ faults \in 0 .. MaxFaults

(* The types of the state, all of it.                                       *)
Typed == LocalsTyped /\ FilesTyped /\ RestTyped

-----------------------------------------------------------------------------
(* Discovery.                                                               *)

(* The messages a run may select, and those of them already read. *)
Wanted(run) ==
    {p \in Undeleted(MessagesOf(DiscoverySources), run) : At(p).name \in Topic}

(* Those of the places P that come before a line of a source.               *)
Read(P, at, line) == {p \in P : Earlier(p, <<at, line>>)}

(* What a discovery holds while no source was cut short, and its file at    *)
(* the end.                                                                 *)
DiscoveryReached ==
    proc.cmd = "discover" =>
        /\ proc.complete => IsLowest(proc.kept, Read(Wanted(proc.run), proc.at, proc.line), Rank, Target)
        /\ proc.pc = "manifest" => proc.at = Len(Archive) + 1 /\ disk.selection = proc.kept

(* A selection that is called complete is the lowest-ranked one of its run. *)
SelectionHeld ==
    disk.selectionManifest # None /\ disk.selectionManifest.complete =>
        /\ Retains(disk.selectionManifest.rows, Target)
        /\ IsLowest(disk.selectionManifest.rows, Wanted(disk.selectionManifest.run), Rank, Target)

-----------------------------------------------------------------------------
(* Hydration.                                                               *)

(* What a run offers as context and as a control, and what it finds deleted. *)
Other(run) ==
    {p \in Undeleted(MessagesOf(Sources), run) : At(p).name \notin Names(Selected(run))}
Offered(run) == {p \in Other(run) : At(p).thread \in Threads(run)}
NotOffered(run) == {p \in Other(run) : At(p).thread \notin Threads(run)}
Gone(run) == MessagesOf(Sources) \ Undeleted(MessagesOf(Sources), run)

(* The places before the one where a progress stands. *)
Seen(P, p) == {q \in P : q[1] < p.at \/ (q[1] = p.at /\ q[2] <= p.line)}

(* The records among the first l lines of source i. *)
UpTo(i, l) == {q \in RecordsOf({i}) : q[2] <= l}

(* What any progress keeps, wherever it was resumed. *)
ProgressTyped(p) ==
    /\ p \in Progress
    /\ Len(p.reports) = p.at - 1
    /\ p.line <= (IF p.at \in Sources THEN Len(Lines(p.at)) ELSE 0)
    /\ Retains(p.context, MaxContext) /\ Retains(p.controls, ControlTarget)

(* No source was skipped.                                                   *)
NoneSkipped(p) == \A i \in DOMAIN p.reports : p.reports[i].status = "read"

(* A progress that skipped no source is that of one uninterrupted pass to   *)
(* where it stands.  (A source that was read in part and is skipped when    *)
(* the run is resumed leaves what it contributed.)                          *)
ProgressExact(run, p) ==
    /\ IsLowest(p.context, Seen(Offered(run), p), Rank, MaxContext)
    /\ IsLowest(p.controls, Seen(NotOffered(run), p), ControlRank, ControlTarget)
    /\ p.contextCandidates = Cardinality(Seen(Offered(run), p))
    /\ p.tombstoned = Cardinality(run.selection \ Selected(run)) + Cardinality(Seen(Gone(run), p))
    /\ p.scanned = Cardinality(Seen(RecordsOf(Sources), p))
    /\ p.at \in Sources =>
          p.count.processed = Cardinality(UpTo(p.at, p.line))
    /\ \A i \in DOMAIN p.reports : p.reports[i].count.processed = Cardinality(RecordsOf({i}))

(* What is known of a progress, whoever resumed it.                         *)
ProgressHeld(run, p) == ProgressTyped(p) /\ (NoneSkipped(p) => ProgressExact(run, p))

(* A pass is over: there is nothing to read, or all of it was passed. *)
Over(run, p) == Selected(run) = {} \/ p.at = Len(Archive) + 1

(* A checkpoint is the progress of the run it names.                        *)
CheckpointHeld ==
    disk.checkpoint # None => ProgressHeld(disk.checkpoint.run, disk.checkpoint.progress)

(* The context shard holds the selection and what was kept of its threads.  *)
ContextIs(run, p) == disk.context = Selected(run) \union p.context

(* What a hydration holds, and what its files hold, at each of its steps.   *)
HydrationReached ==
    proc.cmd = "hydrate" =>
        /\ ProgressHeld(proc.run, proc.progress)
        /\ proc.pc # "scan" /\ proc.complete => Over(proc.run, proc.progress)
        /\ proc.pc = "controls" => proc.complete
        /\ proc.pc \in {"controls", "manifest"} /\ proc.complete => ContextIs(proc.run, proc.progress)
        /\ proc.pc = "manifest" /\ proc.complete => disk.controls = proc.progress.controls
        /\ proc.pc \in {"scan", "publish", "controls", "manifest"} =>
              disk.hydrationManifest = None \/ ~disk.hydrationManifest.complete

(* A manifest that is called complete describes the files beside it.        *)
HydrationHeld ==
    LET manifest == disk.hydrationManifest IN
    manifest # None /\ manifest.complete =>
        /\ ProgressHeld(manifest.run, manifest.progress)
        /\ Over(manifest.run, manifest.progress)
        /\ ContextIs(manifest.run, manifest.progress)
        /\ disk.controls = manifest.progress.controls

-----------------------------------------------------------------------------
(* The corpus.                                                              *)

(* A unit that says its context is complete quotes the ancestors of all it  *)
(* quotes.                                                                  *)
Honest(u) ==
    ContextComplete(u) =>
        /\ u.focus.name = u.focus.thread \/ u.focus.thread \in Names(u.quotes)
        /\ \A m \in {u.focus} \union u.quotes :
            m.name = m.thread \/ m.parent \in Names(u.quotes) \union {None}

(* Every unit of the corpus, staged or published, is honest.                *)
CorpusHeld ==
    /\ disk.staged # None => \A u \in disk.staged : Honest(u)
    /\ disk.corpus # None => \A u \in disk.corpus : Honest(u)

(* What a build has staged: what it found, then the units of its inputs.    *)
CorpusReached ==
    proc.cmd = "corpus" =>
        /\ proc.pc = "stage" => disk.staged = proc.found
        /\ proc.pc = "replace" /\ proc.found = None => disk.staged = UnitsOf(proc.run)

-----------------------------------------------------------------------------
(* Finite sets and places.                                                  *)

(* A finite set has a greatest element under any measure. *)
LEMMA GreatestExists ==
    ASSUME NEW S, IsFiniteSet(S), S # {}, NEW f \in [S -> Nat]
    PROVE  \E x \in S : \A y \in S : f[y] <= f[x]
  <1> DEFINE Above(x) == {y \in S : f[x] < f[y]}
             M == {Cardinality(Above(x)) : x \in S}
  <1>1. \A x \in S : IsFiniteSet(Above(x)) /\ Cardinality(Above(x)) \in Nat
    BY FS_Subset, FS_CardinalityType
  <1>2. M \in SUBSET Nat /\ M # {} BY <1>1
  <1>3. PICK m \in M : \A n \in M : <<n, m>> \notin OpToRel(<, Nat)
    <2> HIDE DEF M
    <2> QED BY <1>2, WFMin, NatLessThanWellFounded, Zenon
  <1>4. \A n \in M : ~(n < m)
    <2> HIDE DEF M
    <2> QED BY <1>2, <1>3, Zenon DEF OpToRel
  <1>5. PICK x \in S : m = Cardinality(Above(x)) OBVIOUS
  <1>6. ASSUME NEW y \in S, ~(f[y] <= f[x]) PROVE FALSE
    <2>1. Above(y) \subseteq Above(x) /\ y \in Above(x) /\ y \notin Above(y) BY <1>6
    <2>2. /\ Cardinality(Above(y)) <= Cardinality(Above(x))
          /\ Cardinality(Above(y)) # Cardinality(Above(x))
      BY <1>1, <2>1, FS_Subset
    <2>3. Cardinality(Above(y)) \in Nat /\ Cardinality(Above(x)) \in Nat BY <1>1
    <2>4. ~(Cardinality(Above(y)) < m) BY <1>4
    <2> HIDE DEF Above, M
    <2> QED BY <1>5, <2>2, <2>3, <2>4
  <1> QED BY <1>6

(* The image of a finite set under a function is finite. *)
LEMMA ImageIsFinite ==
    ASSUME NEW S, IsFiniteSet(S), NEW f, DOMAIN f = S
    PROVE  /\ IsFiniteSet({f[x] : x \in S})
           /\ Cardinality({f[x] : x \in S}) <= Cardinality(S)
           /\ (\A x, y \in S : f[x] = f[y] => x = y) => Cardinality({f[x] : x \in S}) = Cardinality(S)
  <1> DEFINE T == {f[x] : x \in S}
             h == [x \in S |-> f[x]]
  <1>1. h \in Surjection(S, T) BY DEF Surjection
  <1>2. IsFiniteSet(T) /\ Cardinality(T) <= Cardinality(S) BY <1>1, FS_Surjection
  <1>3. ASSUME \A x, y \in S : f[x] = f[y] => x = y PROVE Cardinality(T) = Cardinality(S)
    <2>1. h \in Injection(S, T)
      <3>1. h \in [S -> T] OBVIOUS
      <3>2. \A x, y \in S : h[x] = h[y] => x = y BY <1>3
      <3> HIDE DEF h, T
      <3> QED BY <3>1, <3>2 DEF Injection, IsInjective
    <2> HIDE DEF h, T
    <2>2. h \in Bijection(S, T) BY <1>1, <2>1 DEF Bijection
    <2> QED BY <2>2, FS_Bijection DEF ExistsBijection
  <1> QED BY <1>2, <1>3

(* The archives: their sources, and what a line of one is. *)
LEMMA Archives ==
    /\ Len(Archive) \in Nat /\ Sources = 1 .. Len(Archive)
    /\ DiscoverySources \subseteq Sources
    /\ \A i \in Sources :
        /\ Lines(i) \in Seq(Message \union {Malformed, Quarantined})
        /\ Len(Lines(i)) \in Nat /\ DOMAIN Lines(i) = 1 .. Len(Lines(i))
        /\ \A j \in DOMAIN Lines(i) : Lines(i)[j] \in Message \union {Malformed, Quarantined}
  <1>1. Len(Archive) \in Nat /\ Sources = 1 .. Len(Archive) BY ArchiveAssumption DEF Sources
  <1>2. ASSUME NEW i \in Sources
        PROVE  Lines(i) \in Seq(Message \union {Malformed, Quarantined})
    <2> DEFINE T == [role : {"discovery", "context_only"},
                     lines : Seq(Message \union {Malformed, Quarantined})]
    <2>1. Archive \in Seq(T) BY ArchiveAssumption
    <2>2. i \in 1 .. Len(Archive) BY <1>2 DEF Sources
    <2>3. Archive[i] \in T
      <3> HIDE DEF T
      <3> QED BY <2>1, <2>2
    <2> QED BY <2>3 DEF Lines
  <1>3. ASSUME NEW i \in Sources
        PROVE  /\ Len(Lines(i)) \in Nat /\ DOMAIN Lines(i) = 1 .. Len(Lines(i))
               /\ \A j \in DOMAIN Lines(i) : Lines(i)[j] \in Message \union {Malformed, Quarantined}
    <2> DEFINE lines == Lines(i)
    <2>1. lines \in Seq(Message \union {Malformed, Quarantined}) BY <1>2
    <2> HIDE DEF lines
    <2>2. /\ Len(lines) \in Nat /\ DOMAIN lines = 1 .. Len(lines)
          /\ \A j \in DOMAIN lines : lines[j] \in Message \union {Malformed, Quarantined}
      BY <2>1
    <2> QED BY <2>2 DEF lines
  <1> QED BY <1>1, <1>2, <1>3 DEF DiscoverySources

(* A place is a pair of numbers. *)
LEMMA PlaceIs ==
    ASSUME NEW p \in Places(Sources)
    PROVE  /\ p = <<p[1], p[2]>> /\ p[1] \in Sources /\ p[1] \in Nat \ {0} /\ p[1] <= Len(Archive)
           /\ p[2] \in DOMAIN Lines(p[1]) /\ p[2] \in Nat \ {0} /\ p[2] <= Len(Lines(p[1]))
           /\ At(p) \in Message \union {Malformed, Quarantined}
  <1>1. PICK i \in Sources : p \in {i} \X DOMAIN Lines(i) BY DEF Places
  <1>2. p = <<i, p[2]>> /\ p[1] = i /\ p[2] \in DOMAIN Lines(i) BY <1>1
  <1> QED BY <1>2, Archives DEF At

(* Any line of a source is a place, and two places of one line are the same. *)
LEMMA IsPlace ==
    /\ \A i \in Sources : \A j \in DOMAIN Lines(i) : <<i, j>> \in Places(Sources)
    /\ \A p, q \in Places(Sources) : p[1] = q[1] /\ p[2] = q[2] => p = q
    BY PlaceIs DEF Places

(* Places are ordered. *)
LEMMA PlacesOrdered ==
    ASSUME NEW p \in Places(Sources), NEW q \in Places(Sources)
    PROVE  (p = q \/ Earlier(p, q) \/ Earlier(q, p)) /\ ~(Earlier(p, q) /\ Earlier(q, p))
           /\ ~Earlier(p, p)
  <1> DEFINE a == p[1]
             b == p[2]
             c == q[1]
             e == q[2]
  <1>1. a \in Nat /\ b \in Nat /\ c \in Nat /\ e \in Nat BY PlaceIs
  <1>2. a = c /\ b = e => p = q BY IsPlace
  <1>3. /\ Earlier(p, q) <=> (a < c \/ (a = c /\ b < e))
        /\ Earlier(q, p) <=> (c < a \/ (c = a /\ e < b))
        /\ Earlier(p, p) <=> (a < a \/ (a = a /\ b < b))
    BY DEF Earlier
  <1> HIDE DEF a, b, c, e
  <1> QED BY <1>1, <1>2, <1>3

(* There are finitely many. *)
LEMMA PlacesFinite ==
    ASSUME NEW P \in SUBSET Places(Sources)
    PROVE  IsFiniteSet(P) /\ Cardinality(P) \in Nat
  <1> DEFINE Row(i) == {i} \X DOMAIN Lines(i)
             rows == [i \in Sources |-> Row(i)]
             R == {rows[i] : i \in Sources}
  <1>1. IsFiniteSet(Sources) BY Archives, FS_Interval
  <1>2. IsFiniteSet(R)
    <2>1. DOMAIN rows = Sources OBVIOUS
    <2> HIDE DEF rows
    <2> QED BY <1>1, <2>1, ImageIsFinite
  <1>3. ASSUME NEW T \in R PROVE IsFiniteSet(T)
    <2>1. PICK i \in Sources : T = Row(i) BY <1>3
    <2>2. IsFiniteSet(DOMAIN Lines(i)) BY Archives, FS_Interval
    <2> QED BY <2>1, <2>2, FS_Product, FS_Singleton
  <1>4. Places(Sources) = UNION R BY DEF Places
  <1> HIDE DEF R
  <1>5. IsFiniteSet(Places(Sources)) BY <1>2, <1>3, <1>4, FS_UNION
  <1> QED BY <1>5, FS_Subset, FS_CardinalityType

(* The sets of places a run distinguishes are places of messages or lines. *)
LEMMA PlacesOf ==
    ASSUME NEW run, NEW S \in SUBSET Sources
    PROVE  /\ RecordsOf(S) \subseteq Places(Sources) /\ MessagesOf(S) \subseteq Places(Sources)
           /\ \A p \in MessagesOf(S) : At(p) \in Message
           /\ Undeleted(MessagesOf(S), run) \subseteq MessagesOf(S)
           /\ Wanted(run) \subseteq MessagesOf(Sources) /\ Other(run) \subseteq MessagesOf(Sources)
           /\ Offered(run) \subseteq MessagesOf(Sources) /\ NotOffered(run) \subseteq MessagesOf(Sources)
           /\ Gone(run) \subseteq MessagesOf(Sources)
  <1>1. Places(S) \subseteq Places(Sources) /\ Places(DiscoverySources) \subseteq Places(Sources)
    BY Archives DEF Places
  <1> QED BY <1>1 DEF RecordsOf, MessagesOf, Undeleted, Wanted, Other, Offered, NotOffered, Gone

-----------------------------------------------------------------------------
(* Retention.                                                               *)

(* A rank is a measure of names, and no two names share it. *)
Ranking(rank) == rank \in [Name -> Nat] /\ \A a, b \in Name : rank[a] = rank[b] => a = b

(* The places of messages. *)
OfMessages(P) == P \subseteq Places(Sources) /\ \A p \in P : At(p) \in Message

(* What an offer does: a name that is kept stays, room is used, and a full  *)
(* retainer gives up its worst for a better one.                            *)
LEMMA OfferIs ==
    ASSUME NEW n \in Nat \ {0}, NEW K, Retains(K, n), NEW rank, Ranking(rank), NEW m \in Message
    PROVE  \/ m.name \in Names(K) /\ Offer(K, m, rank, n) = K
           \/ m.name \notin Names(K) /\ Cardinality(K) < n /\ Offer(K, m, rank, n) = K \union {m}
           \/ /\ m.name \notin Names(K) /\ Cardinality(K) = n
              /\ \E w \in K :
                  /\ \A k \in K : rank[k.name] <= rank[w.name]
                  /\ Offer(K, m, rank, n) =
                        IF rank[m.name] < rank[w.name] THEN (K \ {w}) \union {m} ELSE K
  <1>1. K \subseteq Message /\ IsFiniteSet(K) /\ Cardinality(K) <= n /\ Cardinality(K) \in Nat
    BY FS_CardinalityType DEF Retains
  <1>2. CASE m.name \in Names(K) BY <1>2 DEF Offer
  <1>3. CASE m.name \notin Names(K) /\ Cardinality(K) < n BY <1>3 DEF Offer
  <1>4. CASE m.name \notin Names(K) /\ ~(Cardinality(K) < n)
    <2> DEFINE f == [k \in K |-> rank[k.name]]
               Worst(w) == \A k \in K : rank[k.name] <= rank[w.name]
    <2>1. Cardinality(K) = n BY <1>1, <1>4
    <2>2. K # {} BY <2>1, FS_EmptySet
    <2>3. f \in [K -> Nat] BY <1>1 DEF Ranking, Name
    <2>4. \E w \in K : \A k \in K : f[k] <= f[w]
      <3> HIDE DEF f
      <3> QED BY <1>1, <2>2, <2>3, GreatestExists
    <2>5. \E w \in K : Worst(w) BY <2>4
    <2> DEFINE w == CHOOSE w \in K : Worst(w)
    <2>6. w \in K /\ Worst(w) BY <2>5
    <2>7. Offer(K, m, rank, n) = IF rank[m.name] < rank[w.name] THEN (K \ {w}) \union {m} ELSE K
      BY <1>4 DEF Offer
    <2> HIDE DEF w
    <2> QED BY <1>4, <2>1, <2>6, <2>7
  <1> QED BY <1>2, <1>3, <1>4

(* A retainer stays one. *)
LEMMA OfferRetains ==
    ASSUME NEW n \in Nat \ {0}, NEW K, Retains(K, n), NEW rank, Ranking(rank), NEW m \in Message
    PROVE  Retains(Offer(K, m, rank, n), n)
  <1> DEFINE O == Offer(K, m, rank, n)
  <1>1. K \subseteq Message /\ IsFiniteSet(K) /\ Cardinality(K) <= n /\ Cardinality(K) \in Nat
    BY FS_CardinalityType DEF Retains
  <1>2. O = K \/ (m.name \notin Names(K) /\ Cardinality(K) < n /\ O = K \union {m})
              \/ (m.name \notin Names(K) /\ \E w \in K : O = (K \ {w}) \union {m})
    BY OfferIs
  <1> SUFFICES Retains(O, n) OBVIOUS
  <1> HIDE DEF O
  <1>3. CASE O = K BY <1>3
  <1>4. CASE m.name \notin Names(K) /\ Cardinality(K) < n /\ O = K \union {m}
    <2>1. m \notin K BY <1>4 DEF Names
    <2>0. IsFiniteSet(O) /\ Cardinality(O) = Cardinality(K) + 1 BY <1>1, <1>4, <2>1, FS_AddElement
    <2>3. IsFiniteSet(O) /\ Cardinality(O) <= n BY <1>1, <1>4, <2>0
    <2>2. \A k, l \in O : k.name = l.name => k = l BY <1>4 DEF Names, Retains
    <2> QED BY <1>1, <1>4, <2>2, <2>3 DEF Retains
  <1>5. CASE m.name \notin Names(K) /\ \E w \in K : O = (K \ {w}) \union {m}
    <2>1. PICK w \in K : O = (K \ {w}) \union {m} BY <1>5
    <2> DEFINE L == K \ {w}
    <2>2. IsFiniteSet(L) /\ Cardinality(L) = Cardinality(K) - 1 BY <1>1, FS_RemoveElement
    <2>3. m \notin L BY <1>5 DEF Names
    <2>4. IsFiniteSet(O) /\ Cardinality(O) = Cardinality(L) + 1
      <3> HIDE DEF L
      <3> QED BY <2>1, <2>2, <2>3, FS_AddElement DEF L
    <2>5. \A k, l \in O : k.name = l.name => k = l BY <1>5, <2>1 DEF Names, Retains
    <2>6. O \subseteq Message BY <1>1, <2>1
    <2>7. Cardinality(O) <= n BY <1>1, <2>2, <2>4
    <2> QED BY <2>4, <2>5, <2>6, <2>7 DEF Retains
  <1> QED BY <1>2, <1>3, <1>4, <1>5

(* The message of a later place is met first when its name is new. *)
LEMMA FirstMetGrows ==
    ASSUME NEW P, NEW q, OfMessages(P \union {q}), \A p \in P : Earlier(p, q)
    PROVE  /\ FirstMet(P) \subseteq FirstMet(P \union {q})
           /\ At(q).name \notin NamesAt(P) => At(q) \in FirstMet(P \union {q})
           /\ NamesAt(P \union {q}) = NamesAt(P) \union {At(q).name}
           /\ Names(FirstMet(P)) \subseteq NamesAt(P)
  <1>1. \A p \in P : ~Earlier(q, p) BY PlacesOrdered DEF OfMessages
  <1>2. ~Earlier(q, q) BY PlacesOrdered DEF OfMessages
  <1>3. FirstMet(P) \subseteq FirstMet(P \union {q}) BY <1>1 DEF FirstMet
  <1>4. At(q).name \notin NamesAt(P) => At(q) \in FirstMet(P \union {q})
    BY <1>2 DEF FirstMet, NamesAt
  <1>5. NamesAt(P \union {q}) = NamesAt(P) \union {At(q).name} BY DEF NamesAt
  <1>6. Names(FirstMet(P)) \subseteq NamesAt(P) BY DEF Names, NamesAt, FirstMet
  <1> QED BY <1>3, <1>4, <1>5, <1>6

(* An offer of a later message keeps the lowest-ranked ones. *)
LEMMA OfferLowest ==
    ASSUME NEW n \in Nat \ {0}, NEW K, Retains(K, n), NEW rank, Ranking(rank),
           NEW P, NEW q, OfMessages(P \union {q}), \A p \in P : Earlier(p, q),
           IsLowest(K, P, rank, n)
    PROVE  IsLowest(Offer(K, At(q), rank, n), P \union {q}, rank, n)
  <1> DEFINE m == At(q)
             Q == P \union {q}
             O == Offer(K, m, rank, n)
             before == NamesAt(P)
  <1>1. /\ K \subseteq Message /\ IsFiniteSet(K) /\ Cardinality(K) \in Nat
        /\ \A k, l \in K : k.name = l.name => k = l
    BY FS_CardinalityType DEF Retains
  <1>2. m \in Message BY DEF OfMessages
  <1>3. Names(K) \subseteq Name /\ m.name \in Name /\ \A k \in K : k.name \in Name /\ k.name \in Names(K)
    BY <1>1, <1>2 DEF Names, Name
  <1>4. before \subseteq Name BY DEF OfMessages, NamesAt, Name
  <1>5. /\ FirstMet(P) \subseteq FirstMet(Q)
        /\ m.name \notin before => m \in FirstMet(Q)
        /\ NamesAt(Q) = before \union {m.name}
        /\ Names(FirstMet(P)) \subseteq before
    BY FirstMetGrows
  <1>6. K \subseteq FirstMet(P) BY DEF IsLowest
  <1>7. Names(K) \subseteq before BY <1>5, <1>6 DEF Names
  <1>8. \/ Names(K) = before
        \/ Cardinality(K) = n /\ \A k \in K, a \in before \ Names(K) : rank[k.name] < rank[a]
    BY DEF IsLowest
  <1>9. \A a \in Name : rank[a] \in Nat BY DEF Ranking
  <1>10. \A a, b \in Name : rank[a] = rank[b] => a = b BY DEF Ranking
  <1> DEFINE First == FirstMet(P)
             FirstQ == FirstMet(Q)
             NamesQ == NamesAt(Q)
  <1>11. SUFFICES /\ O \subseteq FirstQ
                  /\ \/ Names(O) = NamesQ
                     \/ /\ Cardinality(O) = n
                        /\ \A k \in O, a \in NamesQ \ Names(O) : rank[k.name] < rank[a]
    BY DEF IsLowest
  <1>12. \/ m.name \in Names(K) /\ O = K
         \/ m.name \notin Names(K) /\ Cardinality(K) < n /\ O = K \union {m}
         \/ /\ m.name \notin Names(K) /\ Cardinality(K) = n
            /\ \E w \in K :
                /\ \A k \in K : rank[k.name] <= rank[w.name]
                /\ O = IF rank[m.name] < rank[w.name] THEN (K \ {w}) \union {m} ELSE K
    BY <1>2, OfferIs
  <1> HIDE DEF m, O, before, First, FirstQ, NamesQ
  <1>13. /\ First \subseteq FirstQ /\ K \subseteq First
         /\ m.name \notin before => m \in FirstQ
         /\ NamesQ = before \union {m.name}
    BY <1>5, <1>6 DEF First, FirstQ, NamesQ
  <1>14. CASE m.name \in Names(K) /\ O = K
    <2>1. NamesQ = before BY <1>7, <1>13, <1>14
    <2> QED BY <1>8, <1>13, <1>14, <2>1
  <1>15. CASE m.name \notin Names(K) /\ Cardinality(K) < n /\ O = K \union {m}
    <2>1. Names(K) = before BY <1>1, <1>8, <1>15
    <2>2. Names(O) = Names(K) \union {m.name} BY <1>15 DEF Names
    <2> QED BY <1>13, <1>15, <2>1, <2>2
  <1>16. CASE /\ m.name \notin Names(K) /\ Cardinality(K) = n
              /\ \E w \in K :
                  /\ \A k \in K : rank[k.name] <= rank[w.name]
                  /\ O = IF rank[m.name] < rank[w.name] THEN (K \ {w}) \union {m} ELSE K
    <2>1. PICK w \in K :
            /\ \A k \in K : rank[k.name] <= rank[w.name]
            /\ O = IF rank[m.name] < rank[w.name] THEN (K \ {w}) \union {m} ELSE K
      BY <1>16
    <2>2. CASE rank[m.name] < rank[w.name]
      <3>1. O = (K \ {w}) \union {m} BY <2>1, <2>2
      <3>2. m.name \notin before
        <4> SUFFICES ASSUME m.name \in before PROVE FALSE OBVIOUS
        <4>1. rank[w.name] < rank[m.name] BY <1>8, <1>16
        <4> QED BY <1>3, <1>9, <2>2, <4>1
      <3>3. m \notin K BY <1>3, <1>16
      <3> DEFINE L == K \ {w}
      <3>4. IsFiniteSet(L) /\ Cardinality(L) = n - 1 BY <1>1, <1>16, FS_RemoveElement
      <3>5. Cardinality(O) = n
        <4>1. O = L \union {m} /\ m \notin L BY <3>1, <3>3
        <4> HIDE DEF L
        <4>2. Cardinality(O) = Cardinality(L) + 1 BY <3>4, <4>1, FS_AddElement
        <4> QED BY <3>4, <4>2
      <3>6. Names(O) = (Names(K) \ {w.name}) \union {m.name}
        BY <1>1, <3>1 DEF Names
      <3>7. ASSUME NEW k \in O, NEW a \in NamesQ \ Names(O) PROVE rank[k.name] < rank[a]
        <4>1. a = w.name \/ a \in before \ Names(K) BY <1>13, <3>6, <3>7
        <4>2. CASE k = m
          <5>1. a = w.name \/ rank[w.name] < rank[a] BY <1>8, <4>1
          <5>2. a \in Name BY <1>3, <1>4, <4>1
          <5> QED BY <1>3, <1>9, <2>2, <4>2, <5>1, <5>2
        <4>3. CASE k \in K /\ k # w
          <5>1. rank[k.name] <= rank[w.name] BY <2>1, <4>3
          <5>2. k.name # w.name BY <1>1, <4>3
          <5>3. rank[k.name] # rank[w.name] BY <1>3, <1>10, <4>3, <5>2
          <5>4. a = w.name \/ rank[k.name] < rank[a] BY <1>8, <4>1, <4>3
          <5>5. rank[k.name] \in Nat /\ rank[w.name] \in Nat BY <1>3, <1>9, <4>3
          <5> QED BY <5>1, <5>3, <5>4, <5>5
        <4> QED BY <3>1, <4>2, <4>3
      <3> QED BY <1>13, <3>1, <3>2, <3>5, <3>7
    <2>3. CASE ~(rank[m.name] < rank[w.name])
      <3>1. O = K BY <2>1, <2>3
      <3>2. CASE m.name \in before
        <4>1. NamesQ = before BY <1>13, <3>2
        <4> QED BY <1>8, <1>13, <3>1, <4>1
      <3>3. CASE m.name \notin before
        <4>1. ASSUME NEW k \in K, NEW a \in NamesQ \ Names(K) PROVE rank[k.name] < rank[a]
          <5>1. CASE a = m.name
            <6>1. rank[k.name] <= rank[w.name] BY <2>1
            <6>2. rank[k.name] # rank[m.name] BY <1>3, <1>10, <1>16
            <6>3. rank[k.name] \in Nat /\ rank[w.name] \in Nat /\ rank[m.name] \in Nat BY <1>3, <1>9
            <6> QED BY <2>3, <5>1, <6>1, <6>2, <6>3
          <5>2. CASE a \in before \ Names(K) BY <1>8, <5>2
          <5> QED BY <1>13, <5>1, <5>2
        <4> QED BY <1>13, <1>16, <3>1, <4>1
      <3> QED BY <3>2, <3>3
    <2> QED BY <2>2, <2>3
  <1> QED BY <1>12, <1>14, <1>15, <1>16

(* What is met first under a name is one message. *)
LEMMA FirstIsOne ==
    ASSUME NEW P, OfMessages(P)
    PROVE  /\ \A k, l \in FirstMet(P) : k.name = l.name => k = l
           /\ \A m \in FirstMet(P) : m \in Message /\ m.name \in NamesAt(P)
  <1>1. ASSUME NEW k \in FirstMet(P), NEW l \in FirstMet(P), k.name = l.name PROVE k = l
    <2>1. PICK p \in P : k = At(p) /\ \A o \in P : At(o).name = At(p).name => ~Earlier(o, p)
      BY DEF FirstMet
    <2>2. PICK q \in P : l = At(q) /\ \A o \in P : At(o).name = At(q).name => ~Earlier(o, q)
      BY DEF FirstMet
    <2>3. ~Earlier(p, q) /\ ~Earlier(q, p) BY <1>1, <2>1, <2>2
    <2>4. p = q BY <2>3, PlacesOrdered DEF OfMessages
    <2> QED BY <2>1, <2>2, <2>4
  <1>2. \A m \in FirstMet(P) : m \in Message /\ m.name \in NamesAt(P)
    BY DEF FirstMet, NamesAt, OfMessages
  <1> QED BY <1>1, <1>2

(* The lowest-ranked messages are determined by the places. *)
LEMMA LowestIsUnique ==
    ASSUME NEW n \in Nat, NEW K, Retains(K, n), NEW rank, Ranking(rank),
           NEW P, OfMessages(P), IsLowest(K, P, rank, n)
    PROVE  K = Lowest(P, rank, n)
  <1> DEFINE before == NamesAt(P)
             Below(m) == {c \in before : rank[c] < rank[m.name]}
             name == [k \in K |-> k.name]
             at == [p \in P |-> At(p).name]
  <1>1. /\ K \subseteq Message /\ IsFiniteSet(K) /\ Cardinality(K) \in Nat /\ Cardinality(K) <= n
        /\ \A k, l \in K : k.name = l.name => k = l
    BY FS_CardinalityType DEF Retains
  <1>2. IsFiniteSet(Names(K)) /\ Cardinality(Names(K)) = Cardinality(K)
    <2>1. DOMAIN name = K /\ \A x, y \in K : name[x] = name[y] => x = y BY <1>1
    <2>2. Names(K) = {name[x] : x \in K} BY DEF Names
    <2> DEFINE T == {name[x] : x \in K}
    <2>3. IsFiniteSet(T) /\ Cardinality(T) = Cardinality(K)
      <3> HIDE DEF name
      <3>1. (\A x, y \in K : name[x] = name[y] => x = y) => Cardinality(T) = Cardinality(K)
        BY <1>1, <2>1, ImageIsFinite
      <3>2. IsFiniteSet(T) BY <1>1, <2>1, ImageIsFinite
      <3> QED BY <2>1, <3>1, <3>2
    <2> QED BY <2>2, <2>3
  <1>3. IsFiniteSet(before)
    <2>1. DOMAIN at = P OBVIOUS
    <2>2. before = {at[x] : x \in P} BY DEF NamesAt
    <2>3. IsFiniteSet(P) BY PlacesFinite DEF OfMessages
    <2> HIDE DEF at, before
    <2> QED BY <2>1, <2>2, <2>3, ImageIsFinite
  <1>4. before \subseteq Name BY DEF OfMessages, NamesAt, Name
  <1>5. \A m : IsFiniteSet(Below(m)) /\ Cardinality(Below(m)) \in Nat
    <2> TAKE m
    <2>1. Below(m) \subseteq before OBVIOUS
    <2> HIDE DEF Below, before
    <2> QED BY <1>3, <2>1, FS_Subset, FS_CardinalityType
  <1>6. K \subseteq FirstMet(P) BY DEF IsLowest
  <1>7. \/ Names(K) = before
        \/ Cardinality(K) = n /\ \A k \in K, a \in before \ Names(K) : rank[k.name] < rank[a]
    BY DEF IsLowest
  <1>8. \A a \in Name : rank[a] \in Nat BY DEF Ranking
  <1>9. ASSUME NEW k \in K PROVE Cardinality(Below(k)) < n
    <2> DEFINE others == Names(K) \ {k.name}
    <2>1. k.name \in Names(K) /\ k.name \in Name BY <1>1 DEF Names, Name
    <2>2. Below(k) \subseteq others
      <3> SUFFICES ASSUME NEW c \in Below(k) PROVE c \in others OBVIOUS
      <3>1. c \in before /\ rank[c] < rank[k.name] /\ c \in Name BY <1>4
      <3>2. c # k.name BY <1>8, <2>1, <3>1
      <3>3. c \in Names(K) BY <1>7, <1>8, <2>1, <3>1
      <3> QED BY <3>2, <3>3
    <2>3. IsFiniteSet(others) /\ Cardinality(others) = Cardinality(K) - 1
      <3> QED BY <1>2, <2>1, FS_RemoveElement
    <2>4. Cardinality(Below(k)) <= Cardinality(others)
      <3> HIDE DEF Below, others
      <3> QED BY <2>2, <2>3, FS_Subset
    <2> HIDE DEF Below, others
    <2> QED BY <1>1, <1>5, <2>3, <2>4
  <1>10. ASSUME NEW m \in FirstMet(P), Cardinality(Below(m)) < n PROVE m \in K
    <2>1. m.name \in before /\ m.name \in Name BY <1>4, FirstIsOne
    <2>2. CASE m.name \in Names(K)
      <3>1. PICK k \in K : k.name = m.name BY <2>2 DEF Names
      <3> QED BY <1>6, <3>1, FirstIsOne
    <2>3. CASE m.name \notin Names(K)
      <3>1. Cardinality(K) = n /\ \A k \in K : rank[k.name] < rank[m.name] BY <1>7, <2>1, <2>3
      <3>2. Names(K) \subseteq before BY <1>6, FirstIsOne DEF Names
      <3>3. Names(K) \subseteq Below(m) BY <3>1, <3>2 DEF Names
      <3>4. Cardinality(Names(K)) <= Cardinality(Below(m))
        <4> HIDE DEF Below
        <4> QED BY <1>5, <3>3, FS_Subset
      <3> HIDE DEF Below
      <3> QED BY <1>2, <1>5, <1>10, <3>1, <3>4
    <2> QED BY <2>2, <2>3
  <1>11. Lowest(P, rank, n) = {m \in FirstMet(P) : Cardinality(Below(m)) < n} BY DEF Lowest
  <1> HIDE DEF Below
  <1> QED BY <1>6, <1>9, <1>10, <1>11

(* Nothing is retained of nothing, and nothing without capacity. *)
LEMMA LowestOfNothing ==
    /\ \A n \in Nat : Retains({}, n)
    /\ \A rank, n : IsLowest({}, {}, rank, n)
    /\ \A P, rank : IsLowest({}, P, rank, 0)
  BY FS_EmptySet DEF Retains, IsLowest, Names, NamesAt

(* Offering the kept messages again, in any order, keeps the same ones. *)
LEMMA RestoredSame ==
    ASSUME NEW n \in Nat, NEW K, Retains(K, n), NEW rank
    PROVE  Restored(K, rank, n) = K
  <1> DEFINE some(s) == CHOOSE x \in s : TRUE
             body(f) == [s \in SUBSET K |->
                           IF s = {} THEN {} ELSE Offer(f[s \ {some(s)}], some(s), rank, n)]
             g == CHOOSE f : f = body(f)
             id == [s \in SUBSET K |-> s]
  <1>1. Restored(K, rank, n) = g[K] BY DEF Restored, FoldSet, MapThenFoldSet
  <1>2. ASSUME NEW s \in SUBSET K, s # {}
        PROVE  some(s) \in s /\ Offer(s \ {some(s)}, some(s), rank, n) = s
    <2>1. some(s) \in s BY <1>2
    <2> HIDE DEF some
    <2>2. some(s).name \notin Names(s \ {some(s)}) BY <2>1 DEF Names, Retains
    <2>3. IsFiniteSet(s) /\ Cardinality(s) <= Cardinality(K) /\ Cardinality(K) <= n
      BY FS_Subset DEF Retains
    <2>4. IsFiniteSet(K) /\ Cardinality(s) \in Nat /\ Cardinality(K) \in Nat
      BY <2>3, FS_CardinalityType DEF Retains
    <2>5. Cardinality(s \ {some(s)}) = Cardinality(s) - 1 BY <2>1, <2>3, FS_RemoveElement
    <2>6. Cardinality(s \ {some(s)}) < n BY <2>3, <2>4, <2>5
    <2>7. Offer(s \ {some(s)}, some(s), rank, n) = (s \ {some(s)}) \union {some(s)}
      BY <2>2, <2>6 DEF Offer
    <2> QED BY <2>1, <2>7
  <1>3. id = body(id) BY <1>2
  <1>4. g = body(g) BY <1>3
  <1> DEFINE Wrong == {s \in SUBSET K : g[s] # s}
             Sizes == {Cardinality(s) : s \in Wrong}
  <1>5. \A s \in Wrong : IsFiniteSet(s) /\ Cardinality(s) \in Nat
    BY FS_Subset, FS_CardinalityType DEF Retains
  <1>6. ASSUME Wrong # {} PROVE FALSE
    <2>1. Sizes \in SUBSET Nat /\ Sizes # {} BY <1>5, <1>6
    <2>2. PICK m \in Sizes : \A k \in Sizes : <<k, m>> \notin OpToRel(<, Nat)
      <3> HIDE DEF Sizes
      <3> QED BY <2>1, WFMin, NatLessThanWellFounded, Zenon
    <2>3. \A k \in Sizes : ~(k < m)
      <3> HIDE DEF Sizes
      <3> QED BY <2>1, <2>2, Zenon DEF OpToRel
    <2>4. PICK s \in Wrong : m = Cardinality(s) OBVIOUS
    <2>5. g[s] = body(g)[s] BY <1>4, Zenon
    <2>6. s # {}
      <3> SUFFICES ASSUME s = {} PROVE FALSE OBVIOUS
      <3>1. body(g)[s] = {} OBVIOUS
      <3> QED BY <2>4, <2>5, <3>1
    <2> DEFINE r == s \ {some(s)}
    <2>7. some(s) \in s BY <1>2, <2>6
    <2>8. IsFiniteSet(r) /\ Cardinality(r) = Cardinality(s) - 1 /\ r \in SUBSET K
      <3> HIDE DEF some
      <3> QED BY <1>5, <2>7, FS_RemoveElement
    <2>9. r \notin Wrong
      <3> DEFINE c == Cardinality(s)
      <3>0. c \in Nat /\ m = c /\ Cardinality(r) = c - 1 BY <1>5, <2>4, <2>8
      <3> HIDE DEF c, r, Sizes
      <3>1. Cardinality(r) < m BY <3>0
      <3> QED BY <2>3, <3>1 DEF Sizes
    <2>10. g[r] = r BY <2>8, <2>9
    <2>11. body(g)[s] = Offer(g[r], some(s), rank, n) BY <2>6
    <2>12. g[s] = s
      <3>1. Offer(r, some(s), rank, n) = s BY <1>2, <2>6
      <3> HIDE DEF g, r, some, body
      <3> QED BY <2>5, <2>10, <2>11, <3>1
    <2> QED BY <2>4, <2>12
  <1>7. g[K] = K BY <1>6
  <1> QED BY <1>1, <1>7

-----------------------------------------------------------------------------
(* How far a pass has come.                                                 *)

(* The next source is a later one, and none lies between. *)
LEMMA NextIs ==
    ASSUME NEW i \in Nat, i <= Len(Archive)
    PROVE  /\ NextSource(i) \in DiscoverySources \union {Len(Archive) + 1}
           /\ NextSource(i) \in Nat /\ i < NextSource(i)
           /\ \A j \in DiscoverySources : j <= i \/ NextSource(i) <= j
  <1> DEFINE S == {j \in DiscoverySources : j > i} \union {Len(Archive) + 1}
  <1>1. Len(Archive) \in Nat /\ \A j \in DiscoverySources : j \in Nat /\ j <= Len(Archive)
    BY Archives
  <1>2. S \in SUBSET Nat /\ S # {} BY <1>1
  <1>3. \A j \in S : i < j BY <1>1
  <1>4. PICK m \in S : \A k \in S : <<k, m>> \notin OpToRel(<, Nat)
    <2> HIDE DEF S
    <2> QED BY <1>2, WFMin, NatLessThanWellFounded, Zenon
  <1>5. \A k \in S : ~(k < m)
    <2> HIDE DEF S
    <2> QED BY <1>2, <1>4, Zenon DEF OpToRel
  <1> DEFINE least == CHOOSE x \in S : \A y \in S : x <= y
  <1>6. NextSource(i) = least BY DEF NextSource, Min
  <1>7. least \in S /\ \A y \in S : least <= y
    <2> HIDE DEF S
    <2>1. m \in S /\ \A y \in S : m <= y BY <1>2, <1>5
    <2> QED BY <2>1
  <1> HIDE DEF least
  <1>8. least \in Nat /\ i < least BY <1>2, <1>3, <1>7
  <1>9. \A j \in DiscoverySources : j <= i \/ least <= j BY <1>1, <1>7
  <1> QED BY <1>6, <1>7, <1>8, <1>9

(* Reading one line adds its place. *)
LEMMA ReadLine ==
    ASSUME NEW P \in SUBSET Places(Sources), NEW at \in Sources,
           NEW line \in Nat \ {0}, line <= Len(Lines(at))
    PROVE  /\ <<at, line>> \in Places(Sources)
           /\ Read(P, at, line + 1) = Read(P, at, line) \union (P \intersect {<<at, line>>})
           /\ \A p \in Read(P, at, line) : Earlier(p, <<at, line>>)
  <1> DEFINE q == <<at, line>>
  <1>1. q \in Places(Sources) /\ q[1] = at /\ q[2] = line BY Archives, IsPlace
  <1>2. ASSUME NEW p \in P
        PROVE  Earlier(p, <<at, line + 1>>) <=> Earlier(p, q) \/ p = q
    <2> DEFINE a == p[1]
               b == p[2]
    <2>1. a \in Nat /\ b \in Nat /\ at \in Nat BY PlaceIs, Archives
    <2>2. p = q <=> a = at /\ b = line BY <1>1, IsPlace
    <2>3. /\ Earlier(p, <<at, line + 1>>) <=> a < at \/ (a = at /\ b < line + 1)
          /\ Earlier(p, q) <=> a < at \/ (a = at /\ b < line)
      BY DEF Earlier
    <2> HIDE DEF a, b, q
    <2> QED BY <2>1, <2>2, <2>3
  <1>3. \A p \in Read(P, at, line) : Earlier(p, q) BY DEF Read
  <1>4. Read(P, at, line + 1) = Read(P, at, line) \union (P \intersect {q})
    <2> HIDE DEF q
    <2>1. Read(P, at, line) = {p \in P : Earlier(p, q)} BY DEF Read, q
    <2> QED BY <1>2, <2>1 DEF Read
  <1> QED BY <1>1, <1>3, <1>4

(* Going on to the next source, what was read is the same; it is nothing at *)
(* first, and all at the end.                                               *)
LEMMA ReadSource ==
    ASSUME NEW P \in SUBSET MessagesOf(DiscoverySources)
    PROVE  /\ Read(P, NextSource(0), 1) = {}
           /\ \A line : Read(P, Len(Archive) + 1, line) = P
           /\ \A at \in DiscoverySources, line \in Nat :
                 line > Len(Lines(at)) => Read(P, NextSource(at), 1) = Read(P, at, line)
  <1>1. P \subseteq Places(Sources) /\ \A p \in P : p[1] \in DiscoverySources
    BY Archives DEF MessagesOf, Places
  <1>2. \A p \in P : /\ p[1] \in Nat \ {0} /\ p[1] <= Len(Archive)
                     /\ p[2] \in Nat \ {0} /\ p[2] <= Len(Lines(p[1]))
    BY <1>1, PlaceIs
  <1>3. Len(Archive) \in Nat /\ DiscoverySources \subseteq Sources BY Archives
  <1>4. \A at, line : Read(P, at, line) =
            {p \in P : p[1] < at \/ (p[1] = at /\ p[2] < line)}
    BY DEF Read, Earlier
  <1>5. Read(P, NextSource(0), 1) = {}
    <2>1. \A p \in P : NextSource(0) <= p[1] /\ NextSource(0) \in Nat BY <1>1, <1>2, <1>3, NextIs
    <2> QED BY <1>2, <1>4, <2>1
  <1>6. ASSUME NEW line PROVE Read(P, Len(Archive) + 1, line) = P
    <2>1. \A p \in P : p[1] < Len(Archive) + 1 BY <1>2, <1>3
    <2>2. Read(P, Len(Archive) + 1, line) =
            {p \in P : p[1] < Len(Archive) + 1 \/ (p[1] = Len(Archive) + 1 /\ p[2] < line)}
      BY <1>4
    <2> QED BY <2>1, <2>2
  <1>7. ASSUME NEW at \in DiscoverySources, NEW line \in Nat, line > Len(Lines(at))
        PROVE  Read(P, NextSource(at), 1) = Read(P, at, line)
    <2> DEFINE nx == NextSource(at)
    <2>1. at \in Nat /\ at <= Len(Archive) /\ Len(Lines(at)) \in Nat BY <1>3, Archives
    <2>2. nx \in Nat /\ at < nx /\ \A j \in DiscoverySources : j <= at \/ nx <= j BY <2>1, NextIs
    <2> HIDE DEF nx
    <2>3. ASSUME NEW p \in P
          PROVE  (p[1] < nx \/ (p[1] = nx /\ p[2] < 1)) <=> (p[1] < at \/ (p[1] = at /\ p[2] < line))
      <3> DEFINE a == p[1]
                 b == p[2]
      <3>1. a \in Nat /\ b \in Nat /\ b # 0 /\ (a = at => b <= Len(Lines(at))) BY <1>2
      <3>2. a <= at \/ nx <= a BY <1>1, <2>2
      <3> HIDE DEF a, b
      <3> QED BY <1>7, <2>1, <2>2, <3>1, <3>2 DEF a, b
    <2>4. /\ Read(P, nx, 1) = {p \in P : p[1] < nx \/ (p[1] = nx /\ p[2] < 1)}
          /\ Read(P, at, line) = {p \in P : p[1] < at \/ (p[1] = at /\ p[2] < line)}
      BY <1>4
    <2>5. Read(P, nx, 1) = Read(P, at, line) BY <2>3, <2>4
    <2> QED BY <2>5 DEF nx
  <1> QED BY <1>5, <1>6, <1>7

(* A hydration that stands one line further has seen one place more. *)
LEMMA SeenLine ==
    ASSUME NEW P \in SUBSET Places(Sources), NEW p, NEW next,
           p.at \in Sources, p.line \in Nat, p.line < Len(Lines(p.at)),
           next.at = p.at, next.line = p.line + 1
    PROVE  /\ Seen(P, next) = Seen(P, p) \union (P \intersect {<<p.at, p.line + 1>>})
           /\ \A q \in Seen(P, p) : q \in P /\ Earlier(q, <<p.at, p.line + 1>>)
           /\ <<p.at, p.line + 1>> \notin Seen(P, p)
           /\ <<p.at, p.line + 1>> \in Places(Sources)
  <1> DEFINE i == p.at
             l == p.line
             o == <<i, l + 1>>
  <1>1. i \in Nat /\ i \in Sources /\ l \in Nat /\ l < Len(Lines(i)) /\ Len(Lines(i)) \in Nat
    BY Archives
  <1>2. next.at = i /\ next.line = l + 1 OBVIOUS
  <1>3. /\ Seen(P, p) = {q \in P : q[1] < i \/ (q[1] = i /\ q[2] <= l)}
        /\ Seen(P, next) = {q \in P : q[1] < i \/ (q[1] = i /\ q[2] <= l + 1)}
    BY <1>2 DEF Seen
  <1> HIDE DEF i, l
  <1>4. o \in Places(Sources) /\ o[1] = i /\ o[2] = l + 1 BY <1>1, Archives, IsPlace
  <1>5. ASSUME NEW q \in P
        PROVE  /\ (q[1] < i \/ (q[1] = i /\ q[2] <= l + 1)) <=>
                     (q[1] < i \/ (q[1] = i /\ q[2] <= l)) \/ q = o
               /\ (q[1] < i \/ (q[1] = i /\ q[2] <= l)) => Earlier(q, o)
               /\ q = o => ~(q[1] < i \/ (q[1] = i /\ q[2] <= l))
    <2> DEFINE a == q[1]
               b == q[2]
    <2>1. a \in Nat /\ b \in Nat BY PlaceIs
    <2>2. q = o <=> a = i /\ b = l + 1 BY <1>4, IsPlace
    <2>3. Earlier(q, o) <=> a < i \/ (a = i /\ b < l + 1) BY DEF Earlier
    <2> HIDE DEF a, b, o
    <2> QED BY <1>1, <2>1, <2>2, <2>3 DEF a, b
  <1> HIDE DEF o
  <1>6. /\ Seen(P, next) = Seen(P, p) \union (P \intersect {o})
        /\ \A q \in Seen(P, p) : q \in P /\ Earlier(q, o)
        /\ o \notin Seen(P, p)
    BY <1>3, <1>5
  <1> QED BY <1>4, <1>6 DEF o, i, l

(* At the end of a source it has seen what it has at the beginning of the   *)
(* next one; nothing at first, and all at the end.                          *)
LEMMA SeenSource ==
    ASSUME NEW P \in SUBSET Places(Sources), NEW p
    PROVE  /\ p.at = 1 /\ p.line = 0 => Seen(P, p) = {}
           /\ p.at = Len(Archive) + 1 => Seen(P, p) = P
           /\ \A next : /\ p.at \in Sources /\ p.line = Len(Lines(p.at))
                        /\ next.at = p.at + 1 /\ next.line = 0
                        => Seen(P, next) = Seen(P, p)
  <1>1. \A q \in P : /\ q[1] \in Nat \ {0} /\ q[1] <= Len(Archive)
                     /\ q[2] \in Nat \ {0} /\ q[2] <= Len(Lines(q[1]))
    BY PlaceIs
  <1>2. Len(Archive) \in Nat BY Archives
  <1>3. p.at = 1 /\ p.line = 0 => Seen(P, p) = {} BY <1>1 DEF Seen
  <1>4. p.at = Len(Archive) + 1 => Seen(P, p) = P BY <1>1, <1>2 DEF Seen
  <1>5. ASSUME NEW next, p.at \in Sources, p.line = Len(Lines(p.at)),
               next.at = p.at + 1, next.line = 0
        PROVE  Seen(P, next) = Seen(P, p)
    <2> DEFINE i == p.at
    <2>1. i \in Nat /\ Len(Lines(i)) \in Nat BY <1>5, Archives
    <2>2. /\ Seen(P, p) = {q \in P : q[1] < i \/ (q[1] = i /\ q[2] <= Len(Lines(i)))}
          /\ Seen(P, next) = {q \in P : q[1] < i + 1 \/ (q[1] = i + 1 /\ q[2] <= 0)}
      BY <1>5 DEF Seen
    <2> HIDE DEF i
    <2>3. ASSUME NEW q \in P
          PROVE  (q[1] < i \/ (q[1] = i /\ q[2] <= Len(Lines(i)))) <=>
                 (q[1] < i + 1 \/ (q[1] = i + 1 /\ q[2] <= 0))
      <3> DEFINE a == q[1]
                 b == q[2]
      <3>1. a \in Nat /\ b \in Nat /\ b # 0 /\ (a = i => b <= Len(Lines(i))) BY <1>1
      <3> HIDE DEF a, b
      <3> QED BY <2>1, <3>1 DEF a, b
    <2> QED BY <2>2, <2>3
  <1> QED BY <1>3, <1>4, <1>5

-----------------------------------------------------------------------------
(* A step of a hydration.                                                   *)

(* The counters of a source.                                                *)
Field == {"processed", "matched", "rejected", "tombstoned"}

(* Whether a record is offered at all. *)
IsOther(m, run) ==
    m # Malformed /\ ~Deleted(m, run.ledger) /\ m.name \notin Names(Selected(run))

(* The reports on the sources that were passed.                             *)
Reports == Seq([status : {"read", "skipped"}, count : [Field -> Nat]])

(* A record of the fields of a progress.                                    *)
Whole(p) ==
    p = [at |-> p.at, line |-> p.line, count |-> p.count, reports |-> p.reports,
         context |-> p.context, contextCandidates |-> p.contextCandidates,
         controls |-> p.controls, controlCandidates |-> p.controlCandidates,
         fromContextOnly |-> p.fromContextOnly, scanned |-> p.scanned,
         tombstoned |-> p.tombstoned]

(* The fields have their types.                                             *)
WellTyped(p) ==
    /\ p.at \in 1 .. Len(Archive) + 1 /\ p.line \in Nat /\ p.count \in [Field -> Nat]
    /\ p.reports \in Reports
    /\ p.context \subseteq Message /\ p.contextCandidates \in Nat
    /\ p.controls \subseteq Message /\ p.controlCandidates \in Nat
    /\ p.fromContextOnly \in Nat /\ p.scanned \in Nat /\ p.tombstoned \in Nat

(* A progress is a record of these fields. *)
LEMMA ProgressFields ==
    ASSUME NEW p
    PROVE  p \in Progress <=> Whole(p) /\ WellTyped(p)
  <1>1. DOMAIN NoCount = Field BY DEF NoCount, Field
  <1>2. Progress =
          [at : 1 .. Len(Archive) + 1, line : Nat, count : [Field -> Nat],
           reports : Reports,
           context : SUBSET Message, contextCandidates : Nat,
           controls : SUBSET Message, controlCandidates : Nat,
           fromContextOnly : Nat, scanned : Nat, tombstoned : Nat]
    BY <1>1 DEF Progress, Reports
  <1> QED BY <1>2 DEF Whole, WellTyped

(* Counting a record moves on by a line. *)
LEMMA CountedIs ==
    ASSUME NEW p \in Progress, NEW field \in Field \ {"processed"}
    PROVE  /\ Counted(p, field) \in Progress
           /\ Counted(p, field) =
                [at |-> p.at, line |-> p.line + 1, count |-> Counted(p, field).count,
                 reports |-> p.reports, context |-> p.context,
                 contextCandidates |-> p.contextCandidates, controls |-> p.controls,
                 controlCandidates |-> p.controlCandidates,
                 fromContextOnly |-> p.fromContextOnly, scanned |-> p.scanned + 1,
                 tombstoned |-> p.tombstoned]
           /\ Counted(p, field).count.processed = p.count.processed + 1
  <1> DEFINE c == [p.count EXCEPT !.processed = @ + 1, ![field] = @ + 1]
  <1>1. p.count \in [Field -> Nat] BY DEF Progress, NoCount, Field
  <1>2. c \in [Field -> Nat] /\ c.processed = p.count.processed + 1 BY <1>1 DEF Field
  <1>3. Counted(p, field) = [p EXCEPT !.line = @ + 1, !.scanned = @ + 1, !.count = c]
    BY <1>1 DEF Counted, Progress, Field
  <1> HIDE DEF c
  <1>4. DOMAIN NoCount = Field BY DEF NoCount, Field
  <1>6. Counted(p, field) =
            [at |-> p.at, line |-> p.line + 1, count |-> c,
             reports |-> p.reports, context |-> p.context,
             contextCandidates |-> p.contextCandidates, controls |-> p.controls,
             controlCandidates |-> p.controlCandidates,
             fromContextOnly |-> p.fromContextOnly, scanned |-> p.scanned + 1,
             tombstoned |-> p.tombstoned]
    BY <1>3 DEF Progress
  <1>5. Counted(p, field) \in Progress
    <2> DEFINE d == Counted(p, field)
    <2>1. /\ d.at = p.at /\ d.line = p.line + 1 /\ d.count = c
          /\ d.reports = p.reports /\ d.context = p.context
          /\ d.contextCandidates = p.contextCandidates /\ d.controls = p.controls
          /\ d.controlCandidates = p.controlCandidates
          /\ d.fromContextOnly = p.fromContextOnly /\ d.scanned = p.scanned + 1
          /\ d.tombstoned = p.tombstoned
      BY <1>6
    <2>2. Whole(d) BY <1>6, <2>1 DEF Whole
    <2> HIDE DEF d
    <2>3. WellTyped(p) BY ProgressFields
    <2>4. d.count \in [Field -> Nat] BY <1>2, <2>1
    <2>5. WellTyped(d) BY <2>1, <2>3, <2>4 DEF WellTyped
    <2> QED BY <2>2, <2>5, ProgressFields DEF d
  <1> QED BY <1>2, <1>5, <1>6

(* What a record does to a progress. *)
LEMMA ClassifiedIs ==
    ASSUME NEW p \in Progress, NEW m \in Message \union {Malformed},
           Retains(p.context, MaxContext), Retains(p.controls, ControlTarget)
    PROVE  LET next == Classified(m, p)
               run == proc.run
               offered == IsOther(m, run) /\ m.thread \in Threads(run)
               control == IsOther(m, run) /\ m.thread \notin Threads(run) /\ ControlTarget # 0
           IN  /\ next \in Progress
               /\ next.at = p.at /\ next.line = p.line + 1 /\ next.reports = p.reports
               /\ next.scanned = p.scanned + 1
               /\ next.count.processed = p.count.processed + 1
               /\ next.context = IF offered THEN Offer(p.context, m, Rank, MaxContext) ELSE p.context
               /\ next.contextCandidates = IF offered THEN p.contextCandidates + 1 ELSE p.contextCandidates
               /\ next.controls =
                    IF control THEN Offer(p.controls, m, ControlRank, ControlTarget) ELSE p.controls
               /\ next.tombstoned =
                    IF m # Malformed /\ Deleted(m, run.ledger) THEN p.tombstoned + 1 ELSE p.tombstoned
  <1> DEFINE next == Classified(m, p)
             run == proc.run
             gone == Deleted(m, run.ledger)
             mine == m.name \in Names(Selected(run))
             near == m.thread \in Threads(run)
             K == Offer(p.context, m, Rank, MaxContext)
             C == Offer(p.controls, m, ControlRank, ControlTarget)
             only == Archive[p.at].role = "context_only"
  <1>1. next = CASE m = Malformed -> Counted(p, "rejected")
                 [] m # Malformed /\ gone -> [Counted(p, "tombstoned") EXCEPT !.tombstoned = @ + 1]
                 [] m # Malformed /\ ~gone /\ mine -> Counted(p, "matched")
                 [] OTHER ->
                      IF near
                      THEN [Counted(p, "matched") EXCEPT
                              !.context = Offer(@, m, Rank, MaxContext),
                              !.contextCandidates = @ + 1,
                              !.fromContextOnly = IF only THEN @ + 1 ELSE @]
                      ELSE IF ControlTarget = 0 THEN Counted(p, "rejected")
                      ELSE [Counted(p, "rejected") EXCEPT
                              !.controls = Offer(@, m, ControlRank, ControlTarget),
                              !.controlCandidates = @ + 1]
    BY DEF Classified
  <1>2. m # Malformed => K \subseteq Message
    BY OfferRetains, RankAssumption, HydrationAssumption DEF Ranking, Retains
  <1>3. m # Malformed /\ ControlTarget # 0 => C \subseteq Message
    BY OfferRetains, RankAssumption, HydrationAssumption DEF Ranking, Retains
  <1>4. IsOther(m, run) <=> m # Malformed /\ ~gone /\ ~mine BY DEF IsOther
  <1> SUFFICES
        LET offered == IsOther(m, run) /\ near
            control == IsOther(m, run) /\ ~near /\ ControlTarget # 0
        IN  /\ next \in Progress
            /\ next.at = p.at /\ next.line = p.line + 1 /\ next.reports = p.reports
            /\ next.scanned = p.scanned + 1
            /\ next.count.processed = p.count.processed + 1
            /\ next.context = IF offered THEN K ELSE p.context
            /\ next.contextCandidates = IF offered THEN p.contextCandidates + 1 ELSE p.contextCandidates
            /\ next.controls = IF control THEN C ELSE p.controls
            /\ next.tombstoned = IF m # Malformed /\ gone THEN p.tombstoned + 1 ELSE p.tombstoned
    OBVIOUS
  <1>5. CASE m = Malformed
    <2>1. next = Counted(p, "rejected") BY <1>1, <1>5
    <2> HIDE DEF next, gone, mine, near
    <2> QED BY <1>4, <1>5, <2>1, CountedIs DEF Field
  <1>6. CASE m # Malformed /\ gone
    <2> DEFINE c == Counted(p, "tombstoned")
    <2>1. next = [c EXCEPT !.tombstoned = @ + 1] BY <1>1, <1>6
    <2>2. /\ c \in Progress /\ c.count.processed = p.count.processed + 1
          /\ c = [at |-> p.at, line |-> p.line + 1, count |-> c.count,
                  reports |-> p.reports, context |-> p.context,
                  contextCandidates |-> p.contextCandidates, controls |-> p.controls,
                  controlCandidates |-> p.controlCandidates,
                  fromContextOnly |-> p.fromContextOnly, scanned |-> p.scanned + 1,
                  tombstoned |-> p.tombstoned]
      BY CountedIs DEF Field
    <2> HIDE DEF next, gone, mine, near, c
    <2>3. next \in Progress
      <3>1. Whole(next) BY <2>1, <2>2 DEF Whole
      <3>2. /\ next.at = c.at
            /\ next.line = c.line
            /\ next.count = c.count
            /\ next.reports = c.reports
            /\ next.context = c.context
            /\ next.contextCandidates = c.contextCandidates
            /\ next.controls = c.controls
            /\ next.controlCandidates = c.controlCandidates
            /\ next.fromContextOnly = c.fromContextOnly
            /\ next.scanned = c.scanned
            /\ next.tombstoned = c.tombstoned + 1
        BY <2>1, <2>2
      <3>3. WellTyped(c) BY <2>2, ProgressFields
      <3>4. WellTyped(next) BY <3>2, <3>3 DEF WellTyped
      <3> QED BY <3>1, <3>4, ProgressFields
    <2> QED BY <1>4, <1>6, <2>1, <2>2, <2>3
  <1>7. CASE m # Malformed /\ ~gone /\ mine
    <2>1. next = Counted(p, "matched") BY <1>1, <1>7
    <2> HIDE DEF next, gone, mine, near
    <2> QED BY <1>4, <1>7, <2>1, CountedIs DEF Field
  <1>8. CASE m # Malformed /\ ~gone /\ ~mine /\ near
    <2> DEFINE c == Counted(p, "matched")
    <2>1. next = [c EXCEPT !.context = Offer(@, m, Rank, MaxContext),
                           !.contextCandidates = @ + 1,
                           !.fromContextOnly = IF only THEN @ + 1 ELSE @]
      BY <1>1, <1>8
    <2>2. /\ c \in Progress /\ c.count.processed = p.count.processed + 1
          /\ c = [at |-> p.at, line |-> p.line + 1, count |-> c.count,
                  reports |-> p.reports, context |-> p.context,
                  contextCandidates |-> p.contextCandidates, controls |-> p.controls,
                  controlCandidates |-> p.controlCandidates,
                  fromContextOnly |-> p.fromContextOnly, scanned |-> p.scanned + 1,
                  tombstoned |-> p.tombstoned]
      BY CountedIs DEF Field
    <2>3. next = [c EXCEPT !.context = K, !.contextCandidates = @ + 1,
                           !.fromContextOnly = IF only THEN @ + 1 ELSE @]
      <3>1. c.context = p.context BY <2>2
      <3> HIDE DEF next, c
      <3> QED BY <2>1, <3>1
    <2> HIDE DEF next, gone, mine, near, only, c, K
    <2>4. next \in Progress
      <3>1. Whole(next) BY <2>2, <2>3 DEF Whole
      <3>2. /\ next.at = c.at
            /\ next.line = c.line
            /\ next.count = c.count
            /\ next.reports = c.reports
            /\ next.context = K
            /\ next.contextCandidates = c.contextCandidates + 1
            /\ next.controls = c.controls
            /\ next.controlCandidates = c.controlCandidates
            /\ next.fromContextOnly = IF only THEN c.fromContextOnly + 1 ELSE c.fromContextOnly
            /\ next.scanned = c.scanned
            /\ next.tombstoned = c.tombstoned
        BY <2>2, <2>3
      <3>3. WellTyped(c) BY <2>2, ProgressFields
      <3>4. WellTyped(next) BY <1>2, <1>8, <3>2, <3>3 DEF WellTyped
      <3> QED BY <3>1, <3>4, ProgressFields
    <2> QED BY <1>4, <1>8, <2>2, <2>3, <2>4
  <1>9. CASE m # Malformed /\ ~gone /\ ~mine /\ ~near /\ ControlTarget = 0
    <2>1. next = Counted(p, "rejected") BY <1>1, <1>9
    <2> HIDE DEF next, gone, mine, near
    <2> QED BY <1>4, <1>9, <2>1, CountedIs DEF Field
  <1>10. CASE m # Malformed /\ ~gone /\ ~mine /\ ~near /\ ControlTarget # 0
    <2> DEFINE c == Counted(p, "rejected")
    <2>1. next = [c EXCEPT !.controls = Offer(@, m, ControlRank, ControlTarget),
                           !.controlCandidates = @ + 1]
      BY <1>1, <1>10
    <2>2. /\ c \in Progress /\ c.count.processed = p.count.processed + 1
          /\ c = [at |-> p.at, line |-> p.line + 1, count |-> c.count,
                  reports |-> p.reports, context |-> p.context,
                  contextCandidates |-> p.contextCandidates, controls |-> p.controls,
                  controlCandidates |-> p.controlCandidates,
                  fromContextOnly |-> p.fromContextOnly, scanned |-> p.scanned + 1,
                  tombstoned |-> p.tombstoned]
      BY CountedIs DEF Field
    <2>3. next = [c EXCEPT !.controls = C, !.controlCandidates = @ + 1]
      <3>1. c.controls = p.controls BY <2>2
      <3> HIDE DEF next, c
      <3> QED BY <2>1, <3>1
    <2> HIDE DEF next, gone, mine, near, c, C
    <2>4. next \in Progress
      <3>1. Whole(next) BY <2>2, <2>3 DEF Whole
      <3>2. /\ next.at = c.at
            /\ next.line = c.line
            /\ next.count = c.count
            /\ next.reports = c.reports
            /\ next.context = c.context
            /\ next.contextCandidates = c.contextCandidates
            /\ next.controls = C
            /\ next.controlCandidates = c.controlCandidates + 1
            /\ next.fromContextOnly = c.fromContextOnly
            /\ next.scanned = c.scanned
            /\ next.tombstoned = c.tombstoned
        BY <2>2, <2>3
      <3>3. WellTyped(c) BY <2>2, ProgressFields
      <3>4. WellTyped(next) BY <1>3, <1>10, <3>2, <3>3 DEF WellTyped
      <3> QED BY <3>1, <3>4, ProgressFields
    <2> QED BY <1>4, <1>10, <2>2, <2>3, <2>4
  <1> QED BY <1>5, <1>6, <1>7, <1>8, <1>9, <1>10

(* One line more in a source. *)
LEMMA UpToLine ==
    ASSUME NEW i \in Sources, NEW l \in Nat
    PROVE  /\ IsFiniteSet(UpTo(i, l)) /\ Cardinality(UpTo(i, l)) \in Nat
           /\ l = 0 => UpTo(i, l) = {}
           /\ l = Len(Lines(i)) => UpTo(i, l) = RecordsOf({i})
           /\ l < Len(Lines(i)) =>
                Cardinality(UpTo(i, l + 1)) =
                    IF Lines(i)[l + 1] = Quarantined THEN Cardinality(UpTo(i, l))
                    ELSE Cardinality(UpTo(i, l)) + 1
  <1>1. RecordsOf({i}) \subseteq Places(Sources)
    BY DEF RecordsOf, Places
  <1>2. \A q \in RecordsOf({i}) : q[1] = i BY DEF RecordsOf, Places
  <1>3. \A q \in RecordsOf({i}) : q[2] \in Nat \ {0} /\ q[2] <= Len(Lines(i))
    BY <1>1, <1>2, PlaceIs
  <1>4. IsFiniteSet(UpTo(i, l)) /\ Cardinality(UpTo(i, l)) \in Nat
    BY <1>1, PlacesFinite DEF UpTo
  <1>5. ASSUME l = 0 PROVE UpTo(i, l) = {}
    <2>1. ASSUME NEW q \in RecordsOf({i}) PROVE ~(q[2] <= l)
      <3> DEFINE b == q[2]
      <3>1. b \in Nat \ {0} BY <1>3
      <3> HIDE DEF b
      <3> QED BY <1>5, <3>1 DEF b
    <2> QED BY <2>1 DEF UpTo
  <1>6. l = Len(Lines(i)) => UpTo(i, l) = RecordsOf({i}) BY <1>3 DEF UpTo
  <1>7. ASSUME l < Len(Lines(i))
        PROVE  Cardinality(UpTo(i, l + 1)) =
                    IF Lines(i)[l + 1] = Quarantined THEN Cardinality(UpTo(i, l))
                    ELSE Cardinality(UpTo(i, l)) + 1
    <2> DEFINE o == <<i, l + 1>>
    <2>1. Len(Lines(i)) \in Nat /\ DOMAIN Lines(i) = 1 .. Len(Lines(i)) BY Archives
    <2>2. l + 1 \in DOMAIN Lines(i) BY <1>7, <2>1
    <2>3. o \in Places({i}) /\ o \in Places(Sources) /\ o[1] = i /\ o[2] = l + 1
          /\ At(o) = Lines(i)[l + 1]
      BY <2>2, IsPlace DEF Places, At
    <2>4. ASSUME NEW q \in RecordsOf({i}) PROVE q[2] = l + 1 <=> q = o
      BY <1>1, <1>2, <2>3, IsPlace
    <2> HIDE DEF o
    <2>5. o \in RecordsOf({i}) <=> Lines(i)[l + 1] # Quarantined BY <2>3 DEF RecordsOf
    <2>6. ASSUME NEW q \in RecordsOf({i}) PROVE q[2] <= l + 1 <=> q[2] <= l \/ q = o
      <3> DEFINE b == q[2]
      <3>1. b \in Nat /\ (b = l + 1 <=> q = o) BY <1>3, <2>4
      <3> HIDE DEF b
      <3> QED BY <3>1 DEF b
    <2>7. o \notin UpTo(i, l) BY <2>3 DEF UpTo
    <2>8. CASE Lines(i)[l + 1] = Quarantined
      <3>1. UpTo(i, l + 1) = UpTo(i, l) BY <2>5, <2>6, <2>8 DEF UpTo
      <3> QED BY <2>8, <3>1
    <2>9. CASE Lines(i)[l + 1] # Quarantined
      <3>1. UpTo(i, l + 1) = UpTo(i, l) \union {o} BY <2>5, <2>6, <2>9, <2>3 DEF UpTo
      <3>2. Cardinality(UpTo(i, l) \union {o}) = Cardinality(UpTo(i, l)) + 1
        BY <1>4, <2>7, FS_AddElement
      <3> QED BY <2>9, <3>1, <3>2
    <2> QED BY <2>8, <2>9
  <1> QED BY <1>4, <1>5, <1>6, <1>7

(* One line more of all. *)
LEMMA SeenGrows ==
    ASSUME NEW P \in SUBSET Places(Sources), NEW p, NEW next,
           p.at \in Sources, p.line \in Nat, p.line < Len(Lines(p.at)),
           next.at = p.at, next.line = p.line + 1
    PROVE  /\ Cardinality(Seen(P, p)) \in Nat
           /\ <<p.at, p.line + 1>> \in P =>
                /\ Seen(P, next) = Seen(P, p) \union {<<p.at, p.line + 1>>}
                /\ Cardinality(Seen(P, next)) = Cardinality(Seen(P, p)) + 1
           /\ <<p.at, p.line + 1>> \notin P => Seen(P, next) = Seen(P, p)
  <1> DEFINE o == <<p.at, p.line + 1>>
             S == Seen(P, p)
  <1>1. /\ Seen(P, next) = S \union (P \intersect {o})
        /\ o \notin S
    BY SeenLine
  <1>2. IsFiniteSet(S) /\ Cardinality(S) \in Nat BY PlacesFinite DEF Seen
  <1> HIDE DEF o, S
  <1>0. Cardinality(S \union {o}) = Cardinality(S) + 1 BY <1>1, <1>2, FS_AddElement
  <1>3. o \in P => Seen(P, next) = S \union {o} BY <1>1
  <1>4. o \notin P => Seen(P, next) = S BY <1>1
  <1> QED BY <1>0, <1>2, <1>3, <1>4 DEF o, S

(* The pass offers what is met in its order, and so keeps the lowest ranks. *)
LEMMA OfferSeen ==
    ASSUME NEW P \in SUBSET MessagesOf(Sources), NEW p, NEW next,
           p.at \in Sources, p.line \in Nat, p.line < Len(Lines(p.at)),
           next.at = p.at, next.line = p.line + 1,
           NEW rank, Ranking(rank), NEW n \in Nat, NEW K, Retains(K, n),
           IsLowest(K, Seen(P, p), rank, n)
    PROVE  /\ <<p.at, p.line + 1>> \in P /\ n # 0 =>
                IsLowest(Offer(K, Lines(p.at)[p.line + 1], rank, n), Seen(P, next), rank, n)
           /\ <<p.at, p.line + 1>> \notin P => IsLowest(K, Seen(P, next), rank, n)
  <1> DEFINE o == <<p.at, p.line + 1>>
             S == Seen(P, p)
             m == Lines(p.at)[p.line + 1]
  <1>1. P \subseteq Places(Sources) /\ \A q \in P : At(q) \in Message BY DEF MessagesOf
  <1>2. At(o) = m BY DEF At
  <1>3. \A q \in S : q \in P /\ Earlier(q, o) BY <1>1, SeenLine
  <1>4. /\ o \in P => Seen(P, next) = S \union {o}
        /\ o \notin P => Seen(P, next) = S
    BY <1>1, SeenGrows
  <1>5. IsLowest(K, S, rank, n) OBVIOUS
  <1> HIDE DEF o, S, m
  <1>6. ASSUME o \in P, n # 0 PROVE IsLowest(Offer(K, m, rank, n), S \union {o}, rank, n)
    <2>1. OfMessages(S \union {o}) BY <1>1, <1>3, <1>6 DEF OfMessages
    <2>2. n \in Nat \ {0} BY <1>6
    <2>3. IsLowest(Offer(K, At(o), rank, n), S \union {o}, rank, n)
      BY <1>3, <1>5, <2>1, <2>2, OfferLowest
    <2> QED BY <1>2, <2>3
  <1> QED BY <1>4, <1>5, <1>6 DEF o, S, m

(* A run that begins has read nothing. *)
LEMMA BeginningHeld ==
    ASSUME NEW run, Rows(run.selection)
    PROVE  ProgressHeld(run, Beginning(run))
  <1> DEFINE p == Beginning(run)
             gone == run.selection \ Selected(run)
  <1>1. IsFiniteSet(gone) /\ Cardinality(gone) \in Nat
    BY FS_Subset, FS_CardinalityType DEF Rows
  <1>2. Len(Archive) \in Nat BY Archives
  <1>3. /\ p.at = 1 /\ p.line = 0 /\ p.count = NoCount /\ p.reports = <<>>
        /\ p.context = {} /\ p.contextCandidates = 0
        /\ p.controls = {} /\ p.controlCandidates = 0
        /\ p.fromContextOnly = 0 /\ p.scanned = 0 /\ p.tombstoned = Cardinality(gone)
    BY DEF Beginning
  <1>4. Whole(p) BY DEF Whole, Beginning
  <1> HIDE DEF p, gone
  <1>5. NoCount \in [Field -> Nat] /\ NoCount.processed = 0 BY DEF NoCount, Field
  <1>6. <<>> \in Reports /\ Len(<<>>) = 0 /\ DOMAIN <<>> = {} BY DEF Reports
  <1>7. p \in Progress
    <2>1. WellTyped(p) BY <1>1, <1>2, <1>3, <1>5, <1>6 DEF WellTyped
    <2> QED BY <1>4, <2>1, ProgressFields
  <1>8. ProgressTyped(p)
    <2>1. p.line <= (IF p.at \in Sources THEN Len(Lines(p.at)) ELSE 0)
      <3>1. p.at \in Sources => Len(Lines(p.at)) \in Nat BY Archives
      <3> QED BY <1>3, <3>1
    <2>2. Retains(p.context, MaxContext) /\ Retains(p.controls, ControlTarget)
      BY <1>3, LowestOfNothing, HydrationAssumption
    <2> QED BY <1>3, <1>6, <1>7, <2>1, <2>2 DEF ProgressTyped
  <1>9. ProgressExact(run, p)
    <2>1. \A P \in SUBSET Places(Sources) : Seen(P, p) = {} /\ Cardinality(Seen(P, p)) = 0
      BY <1>3, SeenSource, FS_EmptySet
    <2>2. /\ Offered(run) \subseteq Places(Sources) /\ NotOffered(run) \subseteq Places(Sources)
          /\ Gone(run) \subseteq Places(Sources) /\ RecordsOf(Sources) \subseteq Places(Sources)
      BY PlacesOf
    <2>3. IsLowest(p.context, Seen(Offered(run), p), Rank, MaxContext)
      BY <1>3, <2>1, <2>2, LowestOfNothing
    <2>4. IsLowest(p.controls, Seen(NotOffered(run), p), ControlRank, ControlTarget)
      BY <1>3, <2>1, <2>2, LowestOfNothing
    <2>5. p.contextCandidates = Cardinality(Seen(Offered(run), p)) BY <1>3, <2>1, <2>2
    <2>6. p.tombstoned = Cardinality(gone) + Cardinality(Seen(Gone(run), p))
      BY <1>1, <1>3, <2>1, <2>2
    <2>7. p.scanned = Cardinality(Seen(RecordsOf(Sources), p)) BY <1>3, <2>1, <2>2
    <2>8. p.at \in Sources => p.count.processed = Cardinality(UpTo(p.at, p.line))
      BY <1>3, <1>5, UpToLine, FS_EmptySet
    <2>9. \A i \in DOMAIN p.reports : p.reports[i].count.processed = Cardinality(RecordsOf({i}))
      BY <1>3, <1>6
    <2> QED BY <2>3, <2>4, <2>5, <2>6, <2>7, <2>8, <2>9 DEF ProgressExact, gone
  <1> QED BY <1>8, <1>9 DEF ProgressHeld, p

(* A quarantined line is passed. *)
LEMMA QuarantinedHeld ==
    ASSUME NEW run, NEW p, ProgressHeld(run, p), p.at \in Sources, p.line < Len(Lines(p.at)),
           Lines(p.at)[p.line + 1] = Quarantined
    PROVE  ProgressHeld(run, [p EXCEPT !.line = @ + 1])
  <1> DEFINE next == [p EXCEPT !.line = @ + 1]
             o == <<p.at, p.line + 1>>
  <1>1. Whole(p) /\ WellTyped(p) /\ p \in Progress BY ProgressFields DEF ProgressHeld, ProgressTyped
  <1>2. /\ next.at = p.at /\ next.line = p.line + 1 /\ next.count = p.count
        /\ next.reports = p.reports
        /\ next.context = p.context /\ next.contextCandidates = p.contextCandidates
        /\ next.controls = p.controls /\ next.controlCandidates = p.controlCandidates
        /\ next.fromContextOnly = p.fromContextOnly /\ next.scanned = p.scanned
        /\ next.tombstoned = p.tombstoned
    BY <1>1 DEF Whole
  <1>3. Whole(next) BY <1>1, <1>2 DEF Whole
  <1> HIDE DEF next
  <1>4. next \in Progress
    <2>1. WellTyped(next) BY <1>1, <1>2 DEF WellTyped
    <2> QED BY <1>3, <2>1, ProgressFields
  <1>5. p.line \in Nat /\ Len(Lines(p.at)) \in Nat BY <1>1, Archives DEF WellTyped
  <1>6. ProgressTyped(next)
    BY <1>2, <1>4, <1>5 DEF ProgressHeld, ProgressTyped
  <1>7. At(o) = Quarantined BY DEF At
  <1>8. \A P \in SUBSET MessagesOf(Sources) : Seen(P, next) = Seen(P, p)
    <2> TAKE P \in SUBSET MessagesOf(Sources)
    <2>1. o \notin P BY <1>7, ArchiveAssumption DEF MessagesOf
    <2>2. P \in SUBSET Places(Sources) BY PlacesOf
    <2> HIDE DEF o
    <2> QED BY <1>2, <1>5, <2>1, <2>2, SeenGrows DEF o
  <1>9. Seen(RecordsOf(Sources), next) = Seen(RecordsOf(Sources), p)
    <2>1. o \notin RecordsOf(Sources) BY <1>7 DEF RecordsOf
    <2>2. RecordsOf(Sources) \in SUBSET Places(Sources) BY PlacesOf
    <2> HIDE DEF o
    <2> QED BY <1>2, <1>5, <2>1, <2>2, SeenGrows DEF o
  <1>10. Cardinality(UpTo(next.at, next.line)) = Cardinality(UpTo(p.at, p.line))
    BY <1>2, <1>5, UpToLine
  <1>11. ASSUME ProgressExact(run, p) PROVE ProgressExact(run, next)
    BY <1>2, <1>8, <1>9, <1>10, <1>11, PlacesOf DEF ProgressExact
  <1>12. NoneSkipped(next) <=> NoneSkipped(p) BY <1>2 DEF NoneSkipped
  <1> QED BY <1>6, <1>11, <1>12 DEF ProgressHeld, next

(* The progress that leaves a source behind with a report on it. *)
Passed(p, s, c) ==
    [p EXCEPT !.at = @ + 1, !.line = 0, !.count = NoCount,
       !.reports = Append(@, [status |-> s, count |-> c])]

(* Leaving a source behind adds its report and touches nothing that was     *)
(* kept.                                                                    *)
LEMMA PassedIs ==
    ASSUME NEW p, ProgressTyped(p), p.at \in Sources,
           NEW s \in {"read", "skipped"}, NEW c \in [Field -> Nat]
    PROVE  LET next == Passed(p, s, c) IN
           /\ next.at = p.at + 1 /\ next.line = 0 /\ next.count = NoCount
           /\ next.context = p.context /\ next.contextCandidates = p.contextCandidates
           /\ next.controls = p.controls /\ next.scanned = p.scanned
           /\ next.tombstoned = p.tombstoned
           /\ next.reports[p.at] = [status |-> s, count |-> c]
           /\ DOMAIN next.reports = 1 .. p.at /\ DOMAIN p.reports = 1 .. p.at - 1
           /\ \A i \in 1 .. p.at - 1 : next.reports[i] = p.reports[i]
           /\ ProgressTyped(next)
  <1> DEFINE next == Passed(p, s, c)
             report == [status |-> s, count |-> c]
             old == p.reports
  <1>1. Whole(p) /\ WellTyped(p) /\ p \in Progress BY ProgressFields DEF ProgressTyped
  <1>2. /\ next.at = p.at + 1 /\ next.line = 0 /\ next.count = NoCount
        /\ next.reports = Append(old, report)
        /\ next.context = p.context /\ next.contextCandidates = p.contextCandidates
        /\ next.controls = p.controls /\ next.controlCandidates = p.controlCandidates
        /\ next.fromContextOnly = p.fromContextOnly /\ next.scanned = p.scanned
        /\ next.tombstoned = p.tombstoned
    BY <1>1 DEF Whole, Passed
  <1>3. Whole(next)
    <2>1. next = [at |-> p.at + 1, line |-> 0, count |-> NoCount, reports |-> Append(old, report),
                  context |-> p.context, contextCandidates |-> p.contextCandidates,
                  controls |-> p.controls, controlCandidates |-> p.controlCandidates,
                  fromContextOnly |-> p.fromContextOnly, scanned |-> p.scanned,
                  tombstoned |-> p.tombstoned]
      <3> DEFINE r == Append(old, report)
      <3>1. next = [p EXCEPT !.at = p.at + 1, !.line = 0, !.count = NoCount, !.reports = r]
        <4>1. DOMAIN p = {"at", "line", "count", "reports", "context", "contextCandidates", "controls",
                          "controlCandidates", "fromContextOnly", "scanned", "tombstoned"}
          BY <1>1 DEF Progress
        <4> QED BY <4>1 DEF Passed
      <3> HIDE DEF r, next
      <3>2. next = [at |-> p.at + 1, line |-> 0, count |-> NoCount, reports |-> r,
                    context |-> p.context, contextCandidates |-> p.contextCandidates,
                    controls |-> p.controls, controlCandidates |-> p.controlCandidates,
                    fromContextOnly |-> p.fromContextOnly, scanned |-> p.scanned,
                    tombstoned |-> p.tombstoned]
        BY <1>1, <3>1 DEF Progress
      <3> QED BY <3>2 DEF r
    <2> HIDE DEF next, old, report
    <2> QED BY <1>2, <2>1 DEF Whole
  <1> HIDE DEF next
  <1>4. p.at \in Nat /\ p.at >= 1 /\ p.at <= Len(Archive) /\ Len(Archive) \in Nat BY Archives
  <1>5. /\ report \in [status : {"read", "skipped"}, count : [Field -> Nat]]
        /\ old \in Seq([status : {"read", "skipped"}, count : [Field -> Nat]])
        /\ Len(old) = p.at - 1
    BY <1>1 DEF WellTyped, Reports, ProgressTyped
  <1> DEFINE T == [status : {"read", "skipped"}, count : [Field -> Nat]]
  <1>6. report \in T /\ old \in Seq(T) BY <1>5
  <1> HIDE DEF report, old, T
  <1>7. /\ Append(old, report) \in Seq(T)
        /\ DOMAIN Append(old, report) = 1 .. p.at
        /\ DOMAIN old = 1 .. p.at - 1
        /\ Len(Append(old, report)) = p.at
        /\ Append(old, report)[p.at] = report
        /\ \A i \in 1 .. p.at - 1 : Append(old, report)[i] = old[i]
    BY <1>4, <1>5, <1>6
  <1>8. NoCount \in [Field -> Nat] BY DEF NoCount, Field
  <1>9. WellTyped(next)
    <2>1. next.reports \in Reports BY <1>2, <1>7 DEF Reports, T
    <2>2. next.at \in 1 .. Len(Archive) + 1 BY <1>2, <1>4
    <2> QED BY <1>1, <1>2, <1>8, <2>1, <2>2 DEF WellTyped
  <1>10. next \in Progress BY <1>3, <1>9, ProgressFields
  <1>11. ProgressTyped(next)
    <2>1. next.line <= (IF next.at \in Sources THEN Len(Lines(next.at)) ELSE 0)
      <3>1. next.at \in Sources => Len(Lines(next.at)) \in Nat BY Archives
      <3> QED BY <1>2, <3>1
    <2>2. Len(next.reports) = next.at - 1 BY <1>2, <1>4, <1>7
    <2> QED BY <1>2, <1>10, <2>1, <2>2 DEF ProgressTyped
  <1> QED BY <1>2, <1>7, <1>11 DEF next, report, old

(* A source that is skipped is reported so. *)
LEMMA SkipHeld ==
    ASSUME NEW run, NEW p, ProgressHeld(run, p), p.at \in Sources
    PROVE  ProgressHeld(run, Passed(p, "skipped", NoCount))
  <1> DEFINE next == Passed(p, "skipped", NoCount)
  <1>1. NoCount \in [Field -> Nat] BY DEF NoCount, Field
  <1>2. /\ next.reports[p.at] = [status |-> "skipped", count |-> NoCount]
        /\ DOMAIN next.reports = 1 .. p.at /\ ProgressTyped(next)
    BY <1>1, PassedIs DEF ProgressHeld
  <1>3. p.at \in 1 .. p.at BY Archives
  <1> HIDE DEF next
  <1>4. ~NoneSkipped(next) BY <1>2, <1>3 DEF NoneSkipped
  <1> QED BY <1>2, <1>4 DEF ProgressHeld, next

(* A source that was read to its end is reported with its count. *)
LEMMA SourceHeld ==
    ASSUME NEW run, NEW p, ProgressHeld(run, p), p.at \in Sources, ~(p.line < Len(Lines(p.at)))
    PROVE  ProgressHeld(run, Passed(p, "read", p.count))
  <1> DEFINE next == Passed(p, "read", p.count)
  <1>1. WellTyped(p) /\ ProgressTyped(p) BY ProgressFields DEF ProgressHeld, ProgressTyped
  <1>2. p.count \in [Field -> Nat] /\ p.line \in Nat /\ Len(Lines(p.at)) \in Nat
    BY <1>1, Archives DEF WellTyped
  <1>3. p.line = Len(Lines(p.at)) BY <1>1, <1>2 DEF ProgressTyped
  <1>4. /\ next.at = p.at + 1 /\ next.line = 0 /\ next.count = NoCount
        /\ next.context = p.context /\ next.contextCandidates = p.contextCandidates
        /\ next.controls = p.controls /\ next.scanned = p.scanned
        /\ next.tombstoned = p.tombstoned
        /\ next.reports[p.at] = [status |-> "read", count |-> p.count]
        /\ DOMAIN next.reports = 1 .. p.at /\ DOMAIN p.reports = 1 .. p.at - 1
        /\ \A i \in 1 .. p.at - 1 : next.reports[i] = p.reports[i]
        /\ ProgressTyped(next)
    BY <1>1, <1>2, PassedIs
  <1> HIDE DEF next
  <1>5. p.at \in Nat /\ p.at >= 1 BY Archives
  <1>6. ASSUME NoneSkipped(next) PROVE ProgressExact(run, next)
    <2>1. NoneSkipped(p)
      <3>1. \A i \in 1 .. p.at - 1 : i \in 1 .. p.at BY <1>5
      <3> QED BY <1>4, <1>6, <3>1 DEF NoneSkipped
    <2>2. ProgressExact(run, p) BY <2>1 DEF ProgressHeld
    <2>3. \A P \in SUBSET Places(Sources) : Seen(P, next) = Seen(P, p)
      BY <1>3, <1>4, SeenSource
    <2>4. /\ Offered(run) \subseteq Places(Sources) /\ NotOffered(run) \subseteq Places(Sources)
          /\ Gone(run) \subseteq Places(Sources) /\ RecordsOf(Sources) \subseteq Places(Sources)
      BY PlacesOf
    <2>5. next.at \in Sources => next.count.processed = Cardinality(UpTo(next.at, next.line))
      <3>1. NoCount.processed = 0 BY DEF NoCount
      <3>2. next.at \in Sources => UpTo(next.at, 0) = {} BY UpToLine
      <3> QED BY <1>4, <3>1, <3>2, FS_EmptySet
    <2>6. p.count.processed = Cardinality(RecordsOf({p.at}))
      BY <1>2, <1>3, <2>2, UpToLine DEF ProgressExact
    <2>7. ASSUME NEW i \in DOMAIN next.reports
          PROVE  next.reports[i].count.processed = Cardinality(RecordsOf({i}))
      <3>1. i = p.at \/ i \in 1 .. p.at - 1 BY <1>4, <1>5
      <3>2. CASE i = p.at BY <1>4, <2>6, <3>2
      <3>3. CASE i \in 1 .. p.at - 1 BY <1>4, <2>2, <3>3 DEF ProgressExact
      <3> QED BY <3>1, <3>2, <3>3
    <2> QED BY <1>4, <2>2, <2>3, <2>4, <2>5, <2>7 DEF ProgressExact
  <1> QED BY <1>4, <1>6 DEF ProgressHeld, next

(* A record that is processed is counted, and offered where it belongs.     *)
LEMMA RecordHeld ==
    ASSUME NEW p, ProgressHeld(proc.run, p), Rows(proc.run.selection),
           p.at \in Sources, p.line < Len(Lines(p.at)),
           Lines(p.at)[p.line + 1] # Quarantined
    PROVE  /\ ProgressHeld(proc.run, Classified(Lines(p.at)[p.line + 1], p))
           /\ Classified(Lines(p.at)[p.line + 1], p).at = p.at
  <1> DEFINE run == proc.run
             m == Lines(p.at)[p.line + 1]
             next == Classified(m, p)
             o == <<p.at, p.line + 1>>
             offered == IsOther(m, run) /\ m.thread \in Threads(run)
             control == IsOther(m, run) /\ m.thread \notin Threads(run)
             gone == m # Malformed /\ Deleted(m, run.ledger)
  <1>1. WellTyped(p) /\ ProgressTyped(p) /\ p \in Progress
        /\ Retains(p.context, MaxContext) /\ Retains(p.controls, ControlTarget)
    BY ProgressFields DEF ProgressHeld, ProgressTyped
  <1>2. p.line \in Nat /\ Len(Lines(p.at)) \in Nat /\ p.at \in Nat BY <1>1, Archives DEF WellTyped
  <1>3. m \in Message \union {Malformed}
    <2>1. p.line + 1 \in DOMAIN Lines(p.at) BY <1>2, Archives
    <2> QED BY <2>1, Archives
  <1>4. /\ next \in Progress
        /\ next.at = p.at /\ next.line = p.line + 1 /\ next.reports = p.reports
        /\ next.scanned = p.scanned + 1
        /\ next.count.processed = p.count.processed + 1
        /\ next.context = IF offered THEN Offer(p.context, m, Rank, MaxContext) ELSE p.context
        /\ next.contextCandidates = IF offered THEN p.contextCandidates + 1 ELSE p.contextCandidates
        /\ next.controls =
             IF control /\ ControlTarget # 0 THEN Offer(p.controls, m, ControlRank, ControlTarget)
             ELSE p.controls
        /\ next.tombstoned = IF gone THEN p.tombstoned + 1 ELSE p.tombstoned
    <2> HIDE DEF m
    <2> QED BY <1>1, <1>3, ClassifiedIs
  <1>5. Ranking(Rank) /\ Ranking(ControlRank) BY RankAssumption DEF Ranking
  <1>6. MaxContext \in Nat \ {0} /\ ControlTarget \in Nat BY HydrationAssumption
  <1>7. o \in Places(Sources) /\ At(o) = m
    <2>1. p.line + 1 \in DOMAIN Lines(p.at) BY <1>2, Archives
    <2> QED BY <2>1, IsPlace DEF At
  <1>8. /\ o \in MessagesOf(Sources) <=> m # Malformed
        /\ o \in RecordsOf(Sources)
        /\ m # Malformed => m \in Message
    BY <1>3, <1>7, ArchiveAssumption DEF MessagesOf, RecordsOf
  <1>9. /\ o \in Offered(run) <=> offered
        /\ o \in NotOffered(run) <=> control
        /\ o \in Gone(run) <=> gone
    <2> HIDE DEF o, m
    <2> QED BY <1>7, <1>8 DEF Offered, NotOffered, Gone, Other, Undeleted, IsOther
  <1>10. /\ Offered(run) \subseteq MessagesOf(Sources) /\ NotOffered(run) \subseteq MessagesOf(Sources)
         /\ Gone(run) \subseteq MessagesOf(Sources) /\ RecordsOf(Sources) \subseteq Places(Sources)
         /\ MessagesOf(Sources) \subseteq Places(Sources)
    BY PlacesOf
  <1>0. Cardinality(run.selection \ Selected(run)) \in Nat
    BY FS_Subset, FS_CardinalityType DEF Rows
  <1> HIDE DEF next
  <1>11. ProgressTyped(next)
    <2>1. offered \/ control => m \in Message BY <1>8 DEF IsOther
    <2>2. Retains(next.context, MaxContext)
      <3> HIDE DEF m
      <3> QED BY <1>1, <1>4, <1>5, <1>6, <2>1, OfferRetains
    <2>3. Retains(next.controls, ControlTarget)
      <3> HIDE DEF m
      <3> QED BY <1>1, <1>4, <1>5, <1>6, <2>1, OfferRetains
    <2>4. next.line <= (IF next.at \in Sources THEN Len(Lines(next.at)) ELSE 0)
      BY <1>2, <1>4
    <2>5. Len(next.reports) = next.at - 1 BY <1>1, <1>4 DEF ProgressTyped
    <2> QED BY <1>4, <2>2, <2>3, <2>4, <2>5 DEF ProgressTyped
  <1>12. ASSUME NoneSkipped(next) PROVE ProgressExact(run, next)
    <2>1. NoneSkipped(p) BY <1>4, <1>12 DEF NoneSkipped
    <2>2. ProgressExact(run, p) BY <2>1 DEF ProgressHeld
    <2> HIDE DEF run
    <2>3. IsLowest(next.context, Seen(Offered(run), next), Rank, MaxContext)
      <3>1. IsLowest(p.context, Seen(Offered(run), p), Rank, MaxContext) BY <2>2 DEF ProgressExact
      <3>2. /\ o \in Offered(run) =>
                  IsLowest(Offer(p.context, m, Rank, MaxContext), Seen(Offered(run), next), Rank, MaxContext)
            /\ o \notin Offered(run) => IsLowest(p.context, Seen(Offered(run), next), Rank, MaxContext)
        BY <1>1, <1>2, <1>4, <1>5, <1>6, <1>10, <3>1, OfferSeen
      <3> HIDE DEF o, m, offered
      <3> QED BY <1>4, <1>9, <3>2
    <2>4. IsLowest(next.controls, Seen(NotOffered(run), next), ControlRank, ControlTarget)
      <3>1. IsLowest(p.controls, Seen(NotOffered(run), p), ControlRank, ControlTarget)
        BY <2>2 DEF ProgressExact
      <3>2. /\ o \in NotOffered(run) /\ ControlTarget # 0 =>
                  IsLowest(Offer(p.controls, m, ControlRank, ControlTarget),
                           Seen(NotOffered(run), next), ControlRank, ControlTarget)
            /\ o \notin NotOffered(run) =>
                  IsLowest(p.controls, Seen(NotOffered(run), next), ControlRank, ControlTarget)
        BY <1>1, <1>2, <1>4, <1>5, <1>6, <1>10, <3>1, OfferSeen
      <3>3. ControlTarget = 0 =>
              IsLowest(p.controls, Seen(NotOffered(run), next), ControlRank, ControlTarget)
        <4>1. ControlTarget = 0 => p.controls = {}
          BY <1>1, FS_CardinalityType, FS_EmptySet DEF Retains
        <4> QED BY <4>1, LowestOfNothing
      <3> HIDE DEF o, m, control
      <3> QED BY <1>4, <1>9, <3>2, <3>3
    <2>5. next.contextCandidates = Cardinality(Seen(Offered(run), next))
      <3>1. p.contextCandidates = Cardinality(Seen(Offered(run), p)) BY <2>2 DEF ProgressExact
      <3>2. /\ o \in Offered(run) =>
                  Cardinality(Seen(Offered(run), next)) = Cardinality(Seen(Offered(run), p)) + 1
            /\ o \notin Offered(run) => Seen(Offered(run), next) = Seen(Offered(run), p)
        BY <1>2, <1>4, <1>10, SeenGrows
      <3> HIDE DEF o, m, offered
      <3> QED BY <1>4, <1>9, <3>1, <3>2
    <2>6. next.tombstoned = Cardinality(run.selection \ Selected(run)) + Cardinality(Seen(Gone(run), next))
      <3> DEFINE a == Cardinality(run.selection \ Selected(run))
      <3>1. p.tombstoned = a + Cardinality(Seen(Gone(run), p)) /\ a \in Nat
        BY <1>0, <2>2 DEF ProgressExact, run
      <3>2. /\ o \in Gone(run) =>
                  Cardinality(Seen(Gone(run), next)) = Cardinality(Seen(Gone(run), p)) + 1
            /\ o \notin Gone(run) => Seen(Gone(run), next) = Seen(Gone(run), p)
            /\ Cardinality(Seen(Gone(run), p)) \in Nat
        BY <1>2, <1>4, <1>10, SeenGrows
      <3> HIDE DEF o, m, gone
      <3> QED BY <1>4, <1>9, <3>1, <3>2
    <2>7. next.scanned = Cardinality(Seen(RecordsOf(Sources), next))
      <3>1. p.scanned = Cardinality(Seen(RecordsOf(Sources), p)) BY <2>2 DEF ProgressExact
      <3>2. Cardinality(Seen(RecordsOf(Sources), next)) = Cardinality(Seen(RecordsOf(Sources), p)) + 1
        BY <1>2, <1>4, <1>8, <1>10, SeenGrows
      <3> QED BY <1>4, <3>1, <3>2
    <2>8. next.count.processed = Cardinality(UpTo(next.at, next.line))
      <3>1. p.count.processed = Cardinality(UpTo(p.at, p.line)) BY <2>2 DEF ProgressExact
      <3>2. Cardinality(UpTo(p.at, p.line + 1)) = Cardinality(UpTo(p.at, p.line)) + 1
        BY <1>2, UpToLine
      <3> QED BY <1>4, <3>1, <3>2
    <2>9. \A i \in DOMAIN next.reports : next.reports[i].count.processed = Cardinality(RecordsOf({i}))
      BY <1>4, <2>2 DEF ProgressExact
    <2> QED BY <2>3, <2>4, <2>5, <2>6, <2>7, <2>8, <2>9 DEF ProgressExact
  <1> QED BY <1>4, <1>11, <1>12 DEF ProgressHeld, next

-----------------------------------------------------------------------------
(* The inductive invariant.  What a command holds in memory is what its     *)
(* pass has reached, and what it published stays as it was reached.         *)
IInv ==
    /\ Typed
    /\ DiscoveryReached /\ SelectionHeld
    /\ CheckpointHeld /\ HydrationReached /\ HydrationHeld

(* Before any command the invariant holds: there is no file and no run.     *)
LEMMA Initially == Init => IInv
  <1> SUFFICES ASSUME Init PROVE IInv OBVIOUS
  <1>1. /\ registry = [i \in Sources |-> "registered"] /\ ledger = {} /\ faults = 0
        /\ disk = NoFiles /\ proc = Idle
    BY DEF Init, IngestInit
  <1>2. proc.cmd = "none" BY <1>1 DEF Idle
  <1>3. /\ DOMAIN disk = File /\ disk.selection = None /\ disk.context = None
        /\ disk.selectionManifest = None /\ disk.checkpoint = None /\ disk.hydrationManifest = None
    BY <1>1 DEF NoFiles, File
  <1>4. Typed
    BY <1>1, <1>3, FaultAssumption DEF Typed, LocalsTyped, FilesTyped, RestTyped, Status
  <1> QED BY <1>2, <1>3, <1>4 DEF IInv, DiscoveryReached, SelectionHeld, CheckpointHeld,
                                 HydrationReached, HydrationHeld

(* A command that has ended holds nothing. *)
LEMMA Ended == proc' = Idle => LocalsTyped' /\ DiscoveryReached' /\ HydrationReached'
  <1> SUFFICES ASSUME proc' = Idle PROVE LocalsTyped' /\ DiscoveryReached' /\ HydrationReached'
    OBVIOUS
  <1>1. proc'.cmd = "none" BY DEF Idle
  <1> QED BY <1>1 DEF LocalsTyped, DiscoveryReached, HydrationReached

(* The files that are left alone stay what they were. *)
LEMMA FilesKept ==
    ASSUME SelectionHeld, CheckpointHeld, HydrationHeld
    PROVE  /\ disk'.selectionManifest = disk.selectionManifest => SelectionHeld'
           /\ disk'.checkpoint = disk.checkpoint => CheckpointHeld'
           /\ /\ disk'.hydrationManifest = disk.hydrationManifest
              /\ disk'.context = disk.context /\ disk'.controls = disk.controls
              => HydrationHeld'
  <1>1. disk'.selectionManifest = disk.selectionManifest => SelectionHeld' BY DEF SelectionHeld
  <1>2. disk'.checkpoint = disk.checkpoint => CheckpointHeld' BY DEF CheckpointHeld
  <1>3. /\ disk'.hydrationManifest = disk.hydrationManifest
        /\ disk'.context = disk.context /\ disk'.controls = disk.controls
        => HydrationHeld'
    BY DEF HydrationHeld, ContextIs
  <1> QED BY <1>1, <1>2, <1>3

(* A source's status after it was validated. *)
LEMMA ValidatedIs == \A i : Validated(i) \in Status
  BY DEF Validated, Status

(* One failure more. *)
LEMMA FaultTyped == faults \in 0 .. MaxFaults /\ Fault => faults' \in 0 .. MaxFaults
  BY FaultAssumption DEF Fault

-----------------------------------------------------------------------------
(* The steps of discovery.                                                  *)

(* A discovery starts at the first source with nothing kept.                *)
LEMMA StartDiscoveryHolds == IInv /\ StartDiscovery => IInv'
  <1> SUFFICES ASSUME IInv, StartDiscovery PROVE IInv' OBVIOUS
  <1>1. PICK limit \in RecordLimits :
          proc' = [cmd |-> "discover", pc |-> "scan", run |-> DiscoveryRun(limit),
                   at |-> NextSource(0), line |-> 1, kept |-> {}, scanned |-> 0, complete |-> TRUE,
                   status |-> registry]
    BY DEF StartDiscovery
  <1>2. UNCHANGED <<registry, ledger, disk, faults>> BY DEF StartDiscovery
  <1>3. limit \in Nat /\ Target \in Nat BY DiscoveryAssumption
  <1>4. DiscoveryRun(limit).limit = limit BY DEF DiscoveryRun
  <1>5. /\ DOMAIN proc' = {"cmd", "pc", "run", "at", "line", "kept", "scanned", "complete", "status"}
        /\ proc'.cmd = "discover" /\ proc'.pc = "scan" /\ proc'.run = DiscoveryRun(limit)
        /\ proc'.at = NextSource(0) /\ proc'.line = 1 /\ proc'.kept = {} /\ proc'.scanned = 0
        /\ proc'.complete = TRUE /\ proc'.status = registry
    BY <1>1
  <1>6. NextSource(0) \in DiscoverySources \union {Len(Archive) + 1}
    <2>1. 0 \in Nat /\ 0 <= Len(Archive) BY Archives
    <2> QED BY <2>1, NextIs
  <1>7. LocalsTyped'
    <2>1. Retains({}, Target) BY <1>3, LowestOfNothing
    <2>2. registry \in [Sources -> Status] BY DEF IInv, Typed, RestTyped
    <2>3. proc'.run.limit \in Nat BY <1>3, <1>4, <1>5
    <2>4. proc'.complete \in BOOLEAN BY <1>5
    <2>5. proc'.scanned \in Nat /\ proc'.line \in Nat \ {0} BY <1>5
    <2>6. DiscoveryLocals' BY <1>5, <1>6, <2>1, <2>2, <2>3, <2>4, <2>5 DEF DiscoveryLocals
    <2> QED BY <1>5, <2>6 DEF LocalsTyped
  <1>8. DiscoveryReached'
    <2> DEFINE W == Wanted(DiscoveryRun(limit))
    <2>1. W \in SUBSET MessagesOf(DiscoverySources) BY DEF Wanted, Undeleted
    <2>2. Read(W, NextSource(0), 1) = {}
      <3> HIDE DEF W
      <3> QED BY <2>1, ReadSource
    <2> QED BY <1>5, <2>2, LowestOfNothing DEF DiscoveryReached
  <1>9. HydrationReached' BY <1>5 DEF HydrationReached
  <1>10. SelectionHeld' /\ CheckpointHeld' /\ HydrationHeld' BY <1>2, FilesKept DEF IInv
  <1> QED BY <1>2, <1>7, <1>8, <1>9, <1>10 DEF IInv, Typed, FilesTyped, RestTyped

(* While it scans, a discovery leaves everything else alone. *)
LEMMA DiscoveryFrame ==
    ASSUME IInv, proc'.cmd = "discover", LocalsTyped', DiscoveryReached', UNCHANGED <<ledger, disk, faults>>,
           registry' \in [Sources -> Status]
    PROVE  IInv'
  <1>1. HydrationReached' BY DEF HydrationReached
  <1>2. SelectionHeld' /\ CheckpointHeld' /\ HydrationHeld' BY FilesKept DEF IInv
  <1> QED BY <1>1, <1>2 DEF IInv, Typed, FilesTyped, RestTyped

(* What a discovery holds. *)
LEMMA DiscoveryHolds ==
    ASSUME IInv, proc.cmd = "discover"
    PROVE  /\ DiscoveryLocals
           /\ proc.complete => IsLowest(proc.kept, Read(Wanted(proc.run), proc.at, proc.line), Rank, Target)
           /\ AtSource => proc.at \in DiscoverySources /\ proc.at \in Sources /\ proc.at \in Nat
                          /\ proc.at <= Len(Archive)
           /\ ~AtSource => proc.at = Len(Archive) + 1
  <1>1. DiscoveryLocals
    BY DEF IInv, Typed, LocalsTyped, Idle
  <1>2. proc.at \in DiscoverySources \union {Len(Archive) + 1} BY <1>1 DEF DiscoveryLocals
  <1> DEFINE at == proc.at
  <1>3. Len(Archive) \in Nat /\ \A i \in DiscoverySources : i \in Sources /\ i \in Nat /\ i <= Len(Archive)
    BY Archives
  <1>4. AtSource <=> at <= Len(Archive) BY DEF AtSource
  <1>5. at \in DiscoverySources \/ at = Len(Archive) + 1 BY <1>2
  <1> HIDE DEF at
  <1>6. AtSource => at \in DiscoverySources /\ at \in Sources /\ at \in Nat /\ at <= Len(Archive)
    BY <1>3, <1>4, <1>5
  <1>7. ~AtSource => at = Len(Archive) + 1 BY <1>3, <1>4, <1>5
  <1> QED BY <1>1, <1>6, <1>7 DEF IInv, DiscoveryReached, at

(* A message that is read is offered when it is wanted, and then it is      *)
(* among those read.                                                        *)
LEMMA ScanRecordHolds == IInv /\ ScanRecord => IInv'
  <1> SUFFICES ASSUME IInv, ScanRecord PROVE IInv' OBVIOUS
  <1> DEFINE at == proc.at
             line == proc.line
             m == Lines(at)[line]
             o == <<at, line>>
             run == proc.run
             W == Wanted(run)
             K == IF Selectable(m) THEN Offer(proc.kept, m, Rank, Target) ELSE proc.kept
  <1>1. /\ proc.cmd = "discover" /\ proc.pc = "scan" /\ AtSource /\ line <= Len(Lines(at))
        /\ UNCHANGED <<registry, ledger, disk, faults>>
    BY DEF ScanRecord, Discovering, Source
  <1>2. /\ DiscoveryLocals
        /\ proc.complete => IsLowest(proc.kept, Read(W, at, line), Rank, Target)
        /\ at \in DiscoverySources /\ at \in Sources
    BY <1>1, DiscoveryHolds
  <1>3. /\ line \in Nat \ {0} /\ proc.scanned \in Nat /\ Retains(proc.kept, Target)
        /\ DOMAIN proc = {"cmd", "pc", "run", "at", "line", "kept", "scanned", "complete", "status"}
    BY <1>2 DEF DiscoveryLocals
  <1>4. Ranking(Rank) /\ Target \in Nat \ {0} BY RankAssumption, DiscoveryAssumption DEF Ranking
  <1>5. o \in Places({at}) /\ At(o) = m
    <2>1. line \in DOMAIN Lines(at) BY <1>1, <1>2, <1>3, Archives
    <2> QED BY <2>1 DEF Places, At
  <1>6. o \in W <=> Selectable(m)
    <2>1. o \in Places(DiscoverySources) BY <1>2, <1>5 DEF Places
    <2> HIDE DEF o, m
    <2> QED BY <1>5, <2>1 DEF Wanted, Undeleted, MessagesOf, Selectable
  <1>7. W \in SUBSET MessagesOf(DiscoverySources) /\ OfMessages(W)
    <2>1. W \subseteq MessagesOf(DiscoverySources) BY DEF Wanted, Undeleted
    <2> QED BY <2>1, PlacesOf, Archives DEF OfMessages
  <1>8. /\ Read(W, at, line + 1) = Read(W, at, line) \union (W \intersect {o})
        /\ \A p \in Read(W, at, line) : Earlier(p, o)
    <2>1. W \in SUBSET Places(Sources) BY <1>7 DEF OfMessages
    <2> HIDE DEF W, at, line
    <2> QED BY <1>1, <1>2, <1>3, <2>1, ReadLine
  <1>9. Selectable(m) => m \in Message BY DEF Selectable
  <1>10. Retains(K, Target)
    <2> HIDE DEF m
    <2> QED BY <1>3, <1>4, <1>9, OfferRetains
  <1>11. proc.complete => IsLowest(K, Read(W, at, line + 1), Rank, Target)
    <2> SUFFICES ASSUME proc.complete PROVE IsLowest(K, Read(W, at, line + 1), Rank, Target)
      OBVIOUS
    <2> DEFINE R == Read(W, at, line)
    <2>1. IsLowest(proc.kept, R, Rank, Target) BY <1>2
    <2>2. CASE Selectable(m)
      <3>1. Read(W, at, line + 1) = R \union {o} BY <1>6, <1>8, <2>2
      <3>2. R \subseteq W BY DEF Read
      <3>3. OfMessages(R \union {o}) BY <1>6, <1>7, <2>2, <3>2 DEF OfMessages
      <3>4. \A p \in R : Earlier(p, o) BY <1>8
      <3> HIDE DEF R, o
      <3>5. IsLowest(Offer(proc.kept, At(o), Rank, Target), R \union {o}, Rank, Target)
        BY <1>3, <1>4, <2>1, <3>3, <3>4, OfferLowest
      <3> QED BY <1>5, <2>2, <3>1, <3>5
    <2>3. CASE ~Selectable(m)
      <3>1. Read(W, at, line + 1) = R BY <1>6, <1>8, <2>3
      <3> QED BY <2>1, <2>3, <3>1
    <2> QED BY <2>2, <2>3
  <1>12. \/ proc' = [proc EXCEPT !.line = @ + 1] /\ m = Quarantined
         \/ proc' = [proc EXCEPT !.line = @ + 1, !.scanned = @ + 1, !.kept = K]
    BY DEF ScanRecord, Source, Retained
  <1>13. Quarantined \notin Message BY ArchiveAssumption
  <1>14. /\ DOMAIN proc' = DOMAIN proc /\ proc'.cmd = "discover" /\ proc'.pc = "scan"
         /\ proc'.run = run /\ proc'.at = at /\ proc'.line = line + 1
         /\ proc'.kept = K /\ proc'.scanned \in Nat
         /\ proc'.complete = proc.complete /\ proc'.status = proc.status
    <2>1. m = Quarantined => K = proc.kept BY <1>9, <1>13
    <2> HIDE DEF K, m
    <2>2. CASE proc' = [proc EXCEPT !.line = @ + 1] /\ m = Quarantined
      BY <1>1, <1>3, <2>1, <2>2
    <2>3. CASE proc' = [proc EXCEPT !.line = @ + 1, !.scanned = @ + 1, !.kept = K]
      BY <1>1, <1>3, <2>3
    <2> QED BY <1>12, <2>2, <2>3
  <1> HIDE DEF K, W, m, o
  <1>15. LocalsTyped'
    BY <1>2, <1>3, <1>10, <1>14 DEF LocalsTyped, DiscoveryLocals
  <1>16. DiscoveryReached' BY <1>11, <1>14 DEF DiscoveryReached, W
  <1>17. registry' \in [Sources -> Status] BY <1>1 DEF IInv, Typed, RestTyped
  <1> QED BY <1>1, <1>14, <1>15, <1>16, <1>17, DiscoveryFrame

(* A command that ends, and leaves the files as they are. *)
LEMMA EndsQuietly ==
    ASSUME IInv, proc' = Idle, UNCHANGED <<ledger, disk>>,
           registry' \in [Sources -> Status], faults' \in 0 .. MaxFaults
    PROVE  IInv'
  <1>1. SelectionHeld' /\ CheckpointHeld' /\ HydrationHeld' BY FilesKept DEF IInv
  <1> QED BY <1>1, Ended DEF IInv, Typed, FilesTyped, RestTyped

(* The next source is read: nothing was missed in between. *)
LEMMA NextSourceHolds ==
    ASSUME IInv, proc.cmd = "discover", AtSource,
           UNCHANGED <<registry, ledger, disk, faults>>,
           NEW complete \in BOOLEAN, NEW status \in [Sources -> Status],
           proc' = [proc EXCEPT !.at = NextSource(@), !.line = 1,
                                !.complete = complete, !.status = status],
           proc.pc = "scan",
           complete => proc.complete /\ proc.line > Len(Lines(proc.at))
    PROVE  IInv'
  <1> DEFINE at == proc.at
             line == proc.line
             W == Wanted(proc.run)
  <1>1. /\ DiscoveryLocals
        /\ proc.complete => IsLowest(proc.kept, Read(W, at, line), Rank, Target)
        /\ at \in DiscoverySources /\ at \in Sources /\ at \in Nat /\ at <= Len(Archive)
    BY DiscoveryHolds
  <1>2. /\ DOMAIN proc' = DOMAIN proc /\ proc'.cmd = "discover" /\ proc'.pc = "scan"
        /\ proc'.run = proc.run /\ proc'.at = NextSource(at) /\ proc'.line = 1
        /\ proc'.kept = proc.kept /\ proc'.scanned = proc.scanned
        /\ proc'.complete = complete /\ proc'.status = status
    BY <1>1 DEF DiscoveryLocals
  <1>3. line \in Nat BY <1>1 DEF DiscoveryLocals
  <1>4. W \in SUBSET MessagesOf(DiscoverySources) BY DEF Wanted, Undeleted
  <1> HIDE DEF at, line, W
  <1>5. NextSource(at) \in DiscoverySources \union {Len(Archive) + 1} BY <1>1, NextIs
  <1>6. line > Len(Lines(at)) => Read(W, NextSource(at), 1) = Read(W, at, line)
    <2>1. \A i \in DiscoverySources, l \in Nat :
              l > Len(Lines(i)) => Read(W, NextSource(i), 1) = Read(W, i, l)
      BY <1>4, ReadSource
    <2> QED BY <1>1, <1>3, <2>1
  <1>7. LocalsTyped' BY <1>1, <1>2, <1>5 DEF LocalsTyped, DiscoveryLocals
  <1>8. DiscoveryReached'
    <2>1. complete => IsLowest(proc.kept, Read(W, NextSource(at), 1), Rank, Target)
      BY <1>1, <1>6 DEF at, line
    <2> QED BY <1>2, <2>1 DEF DiscoveryReached, W
  <1> QED BY <1>2, <1>7, <1>8, DiscoveryFrame DEF IInv, Typed, RestTyped

(* A source that is cut short makes the selection incomplete.               *)
LEMMA ScanLimitHolds == IInv /\ ScanLimit => IInv'
  <1> SUFFICES ASSUME IInv, ScanLimit PROVE IInv' OBVIOUS
  <1>1. /\ proc.cmd = "discover" /\ proc.pc = "scan" /\ AtSource
        /\ UNCHANGED <<registry, ledger, disk, faults>>
        /\ proc' = [proc EXCEPT !.at = NextSource(@), !.line = 1, !.complete = FALSE]
    BY DEF ScanLimit, Discovering
  <1>2. /\ DOMAIN proc = {"cmd", "pc", "run", "at", "line", "kept", "scanned", "complete", "status"}
        /\ proc.status \in [Sources -> Status]
    BY <1>1, DiscoveryHolds DEF DiscoveryLocals
  <1>3. proc' = [proc EXCEPT !.at = NextSource(@), !.line = 1,
                             !.complete = FALSE, !.status = proc.status]
    BY <1>1, <1>2
  <1> QED BY <1>1, <1>2, <1>3, NextSourceHolds

(* Nothing lies between the last line of a source and the first of the      *)
(* next.                                                                    *)
LEMMA SourceReadHolds == IInv /\ SourceRead => IInv'
  <1> SUFFICES ASSUME IInv, SourceRead PROVE IInv' OBVIOUS
  <1> DEFINE status == [proc.status EXCEPT ![proc.at] = Validated(proc.at)]
  <1>1. /\ proc.cmd = "discover" /\ proc.pc = "scan" /\ AtSource /\ proc.line > Len(Lines(proc.at))
        /\ UNCHANGED <<ledger, disk, faults>>
        /\ \/ /\ proc' = [proc EXCEPT !.at = NextSource(@), !.line = 1, !.status = status]
              /\ UNCHANGED registry
           \/ proc' = Idle /\ registry' = status
    BY DEF SourceRead, Discovering, Source
  <1>2. /\ DOMAIN proc = {"cmd", "pc", "run", "at", "line", "kept", "scanned", "complete", "status"}
        /\ proc.status \in [Sources -> Status] /\ proc.complete \in BOOLEAN
    BY <1>1, DiscoveryHolds DEF DiscoveryLocals
  <1>3. status \in [Sources -> Status] BY <1>2, ValidatedIs
  <1> HIDE DEF status
  <1>4. CASE /\ proc' = [proc EXCEPT !.at = NextSource(@), !.line = 1, !.status = status]
             /\ UNCHANGED registry
    <2>1. proc' = [proc EXCEPT !.at = NextSource(@), !.line = 1,
                               !.complete = proc.complete, !.status = status]
      BY <1>2, <1>4
    <2> QED BY <1>1, <1>2, <1>3, <1>4, <2>1, NextSourceHolds
  <1>5. CASE proc' = Idle /\ registry' = status
    BY <1>1, <1>3, <1>5, EndsQuietly DEF IInv, Typed, RestTyped
  <1> QED BY <1>1, <1>4, <1>5

(* A discovery that raises leaves no file.                                  *)
LEMMA SourceUnreadableHolds == IInv /\ (SourceUnreadable \/ SourceRefused) => IInv'
  <1> SUFFICES ASSUME IInv, SourceUnreadable \/ SourceRefused PROVE IInv' OBVIOUS
  <1>1. /\ proc.cmd = "discover" /\ proc' = Idle /\ UNCHANGED <<ledger, disk>>
        /\ \/ registry' = [proc.status EXCEPT ![proc.at] = "failed"] /\ Fault
           \/ UNCHANGED <<registry, faults>>
    BY DEF SourceUnreadable, SourceRefused, Discovering, Source
  <1>2. proc.status \in [Sources -> Status] BY <1>1, DiscoveryHolds DEF DiscoveryLocals
  <1>3. registry' \in [Sources -> Status]
    BY <1>1, <1>2 DEF IInv, Typed, RestTyped, Status
  <1>4. faults' \in 0 .. MaxFaults BY <1>1, FaultTyped DEF IInv, Typed, RestTyped
  <1> QED BY <1>1, <1>3, <1>4, EndsQuietly

(* A selection over its budget is marked incomplete, and promises nothing.  *)
LEMMA DiscoveryBudgetHolds == IInv /\ DiscoveryBudget => IInv'
  <1> SUFFICES ASSUME IInv, DiscoveryBudget PROVE IInv' OBVIOUS
  <1> DEFINE manifest == [run |-> proc.run, complete |-> FALSE, rows |-> None]
  <1>1. /\ proc.cmd = "discover" /\ proc' = Idle /\ Fault /\ UNCHANGED ledger
        /\ disk' = [disk EXCEPT !.selection = None, !.selectionManifest = manifest]
        /\ registry' = registry \/ registry' = proc.status
    BY DEF DiscoveryBudget, Discovering
  <1>2. proc.status \in [Sources -> Status] BY <1>1, DiscoveryHolds DEF DiscoveryLocals
  <1>3. DOMAIN disk = File BY DEF IInv, Typed, FilesTyped
  <1>4. manifest.complete = FALSE OBVIOUS
  <1> HIDE DEF manifest
  <1>5. /\ DOMAIN disk' = File /\ disk'.selection = None /\ disk'.selectionManifest = manifest
        /\ disk'.context = disk.context /\ disk'.controls = disk.controls
        /\ disk'.checkpoint = disk.checkpoint /\ disk'.hydrationManifest = disk.hydrationManifest
    BY <1>1, <1>3 DEF File
  <1>6. SelectionHeld' BY <1>4, <1>5 DEF SelectionHeld
  <1>7. CheckpointHeld' /\ HydrationHeld' BY <1>5, FilesKept DEF IInv
  <1>8. FilesTyped' BY <1>5 DEF FilesTyped, IInv, Typed
  <1>9. RestTyped' BY <1>1, <1>2, FaultTyped DEF RestTyped, IInv, Typed
  <1> QED BY <1>1, <1>6, <1>7, <1>8, <1>9, Ended DEF IInv, Typed

(* At the end of the sources all wanted messages have been offered.         *)
LEMMA PublishSelectionHolds == IInv /\ PublishSelection => IInv'
  <1> SUFFICES ASSUME IInv, PublishSelection PROVE IInv' OBVIOUS
  <1>1. /\ proc.cmd = "discover" /\ ~AtSource /\ registry' = proc.status
        /\ disk' = [disk EXCEPT !.selection = proc.kept]
        /\ proc' = [proc EXCEPT !.pc = "manifest"] /\ UNCHANGED <<ledger, faults>>
    BY DEF PublishSelection, Discovering
  <1>2. /\ DiscoveryLocals /\ proc.at = Len(Archive) + 1
        /\ proc.complete => IsLowest(proc.kept, Read(Wanted(proc.run), proc.at, proc.line), Rank, Target)
    BY <1>1, DiscoveryHolds
  <1>3. DOMAIN disk = File BY DEF IInv, Typed, FilesTyped
  <1>4. /\ DOMAIN disk' = File /\ disk'.selection = proc.kept
        /\ disk'.selectionManifest = disk.selectionManifest
        /\ disk'.context = disk.context /\ disk'.controls = disk.controls
        /\ disk'.checkpoint = disk.checkpoint /\ disk'.hydrationManifest = disk.hydrationManifest
    BY <1>1, <1>3 DEF File
  <1>5. /\ DOMAIN proc' = DOMAIN proc /\ proc'.cmd = "discover" /\ proc'.pc = "manifest"
        /\ proc'.run = proc.run /\ proc'.at = proc.at /\ proc'.line = proc.line
        /\ proc'.kept = proc.kept /\ proc'.scanned = proc.scanned
        /\ proc'.complete = proc.complete /\ proc'.status = proc.status
    BY <1>1, <1>2 DEF DiscoveryLocals
  <1>6. LocalsTyped' BY <1>2, <1>5 DEF LocalsTyped, DiscoveryLocals
  <1>7. DiscoveryReached' BY <1>2, <1>4, <1>5 DEF DiscoveryReached
  <1>8. HydrationReached' BY <1>5 DEF HydrationReached
  <1>9. SelectionHeld' /\ CheckpointHeld' /\ HydrationHeld' BY <1>4, FilesKept DEF IInv
  <1>10. Rows(proc.kept) BY <1>2 DEF DiscoveryLocals, Retains, Rows
  <1>11. FilesTyped' BY <1>4, <1>10 DEF FilesTyped, IInv, Typed
  <1>12. RestTyped' BY <1>1, <1>2 DEF RestTyped, IInv, Typed, DiscoveryLocals
  <1> QED BY <1>6, <1>7, <1>8, <1>9, <1>11, <1>12 DEF IInv, Typed

(* The manifest describes the selection that was published.                 *)
LEMMA WriteSelectionManifestHolds == IInv /\ WriteSelectionManifest => IInv'
  <1> SUFFICES ASSUME IInv, WriteSelectionManifest PROVE IInv' OBVIOUS
  <1> DEFINE manifest == [run |-> proc.run, complete |-> proc.complete, rows |-> disk.selection]
             W == Wanted(proc.run)
  <1>1. /\ proc.cmd = "discover" /\ proc.pc = "manifest" /\ proc' = Idle
        /\ disk' = [disk EXCEPT !.selectionManifest = manifest]
        /\ UNCHANGED <<registry, ledger, faults>>
    BY DEF WriteSelectionManifest
  <1>2. /\ DiscoveryLocals
        /\ proc.complete => IsLowest(proc.kept, Read(W, proc.at, proc.line), Rank, Target)
        /\ proc.at = Len(Archive) + 1 /\ disk.selection = proc.kept
    BY <1>1, DiscoveryHolds DEF IInv, DiscoveryReached
  <1>3. W \in SUBSET MessagesOf(DiscoverySources) BY DEF Wanted, Undeleted
  <1>4. proc.complete => IsLowest(disk.selection, W, Rank, Target)
    <2> HIDE DEF W
    <2>1. Read(W, proc.at, proc.line) = W BY <1>2, <1>3, ReadSource
    <2> QED BY <1>2, <2>1
  <1>5. Retains(disk.selection, Target) BY <1>2 DEF DiscoveryLocals
  <1>6. manifest.run = proc.run /\ manifest.complete = proc.complete /\ manifest.rows = disk.selection
    OBVIOUS
  <1>7. DOMAIN disk = File BY DEF IInv, Typed, FilesTyped
  <1> HIDE DEF manifest
  <1>8. /\ DOMAIN disk' = File /\ disk'.selection = disk.selection
        /\ disk'.selectionManifest = manifest
        /\ disk'.context = disk.context /\ disk'.controls = disk.controls
        /\ disk'.checkpoint = disk.checkpoint /\ disk'.hydrationManifest = disk.hydrationManifest
    BY <1>1, <1>7 DEF File
  <1>9. SelectionHeld' BY <1>4, <1>5, <1>6, <1>8 DEF SelectionHeld
  <1>10. CheckpointHeld' /\ HydrationHeld' BY <1>8, FilesKept DEF IInv
  <1>11. FilesTyped' BY <1>8 DEF FilesTyped, IInv, Typed
  <1>12. RestTyped' BY <1>1 DEF RestTyped, IInv, Typed
  <1> QED BY <1>1, <1>9, <1>10, <1>11, <1>12, Ended DEF IInv, Typed

(* A discovery, as a whole, preserves the invariant. *)
LEMMA DiscoverHolds == IInv /\ Discover => IInv'
  BY StartDiscoveryHolds, ScanRecordHolds, ScanLimitHolds, SourceReadHolds, SourceUnreadableHolds,
     DiscoveryBudgetHolds, PublishSelectionHolds, WriteSelectionManifestHolds
  DEF Discover, DiscoveryStep

-----------------------------------------------------------------------------
(* The steps of a hydration.                                                *)

(* What a hydration holds. *)
LEMMA HydrationHolds ==
    ASSUME IInv, proc.cmd = "hydrate"
    PROVE  /\ HydrationLocals /\ ProgressHeld(proc.run, proc.progress)
           /\ proc.progress \in Progress /\ proc.progress.at \in 1 .. Len(Archive) + 1
           /\ Rows(proc.run.selection) /\ Selected(proc.run) \subseteq Message
           /\ proc.progress.context \subseteq Message
  <1>1. HydrationLocals BY DEF IInv, Typed, LocalsTyped, Idle
  <1>2. ProgressHeld(proc.run, proc.progress) BY DEF IInv, HydrationReached
  <1>3. WellTyped(proc.progress) /\ proc.progress \in Progress
    BY <1>2, ProgressFields DEF ProgressHeld, ProgressTyped
  <1>4. Rows(proc.run.selection) BY <1>1 DEF HydrationLocals, HydrationRunTyped
  <1>5. Selected(proc.run) \subseteq Message BY <1>4 DEF Rows, Selected
  <1> QED BY <1>1, <1>2, <1>3, <1>4, <1>5 DEF WellTyped

(* A run that resumes goes on where the checkpoint was written. *)
LEMMA ResumedHolds ==
    ASSUME IInv, NEW run, Rows(run.selection), disk.checkpoint # None => disk.checkpoint.run = run
    PROVE  ProgressHeld(run, Resumed(run))
  <1>1. CASE disk.checkpoint = None BY <1>1, BeginningHeld DEF Resumed
  <1>2. CASE disk.checkpoint # None
    <2> DEFINE p == disk.checkpoint.progress
    <2>1. ProgressHeld(run, p) BY <1>2 DEF IInv, CheckpointHeld
    <2>2. p \in Progress /\ Retains(p.context, MaxContext) /\ Retains(p.controls, ControlTarget)
      BY <2>1 DEF ProgressHeld, ProgressTyped
    <2>3. Resumed(run) = [p EXCEPT !.context = Restored(@, Rank, MaxContext),
                                   !.controls = Restored(@, ControlRank, ControlTarget)]
      BY <1>2 DEF Resumed
    <2> HIDE DEF p
    <2>4. Restored(p.context, Rank, MaxContext) = p.context
      BY <2>2, RestoredSame, HydrationAssumption
    <2>5. Restored(p.controls, ControlRank, ControlTarget) = p.controls
      BY <2>2, RestoredSame, HydrationAssumption
    <2>6. Resumed(run) = [p EXCEPT !.context = p.context, !.controls = p.controls]
      BY <2>3, <2>4, <2>5
    <2>7. Resumed(run) = p BY <2>2, <2>6 DEF Progress
    <2> QED BY <2>1, <2>7
  <1> QED BY <1>1, <1>2

(* A hydration starts at the first line, or where its own checkpoint        *)
(* stands.                                                                  *)
LEMMA StartHydrationHolds == IInv /\ StartHydration => IInv'
  <1> SUFFICES ASSUME IInv, StartHydration PROVE IInv' OBVIOUS
  <1>1. PICK limit \in ScanLimits :
          /\ IF disk.hydrationManifest = None
             THEN disk.context = None /\ disk.controls = None
             ELSE disk.hydrationManifest.run = HydrationRun(limit) /\ ~disk.hydrationManifest.complete
          /\ disk.checkpoint # None => disk.checkpoint.run = HydrationRun(limit)
          /\ proc' = [cmd |-> "hydrate", pc |-> "scan", run |-> HydrationRun(limit), complete |-> TRUE,
                      status |-> registry, progress |-> Resumed(HydrationRun(limit))]
    BY DEF StartHydration
  <1>2. disk.selection \notin {None, {}} /\ UNCHANGED <<registry, ledger, disk, faults>>
    BY DEF StartHydration
  <1> DEFINE run == HydrationRun(limit)
             p == Resumed(run)
  <1>3. Rows(run.selection) /\ run.limit \in Nat
    BY <1>2, HydrationAssumption DEF HydrationRun, IInv, Typed, FilesTyped
  <1>4. disk.checkpoint # None => disk.checkpoint.run = run BY <1>1
  <1>5. disk.hydrationManifest = None \/ ~disk.hydrationManifest.complete BY <1>1
  <1>6. /\ DOMAIN proc' = {"cmd", "pc", "run", "complete", "status", "progress"}
        /\ proc'.cmd = "hydrate" /\ proc'.pc = "scan" /\ proc'.run = run
        /\ proc'.complete = TRUE /\ proc'.status = registry /\ proc'.progress = p
    BY <1>1
  <1> HIDE DEF run
  <1>7. ProgressHeld(run, p) BY <1>3, <1>4, ResumedHolds
  <1> HIDE DEF p
  <1>8. LocalsTyped'
    <2>1. registry \in [Sources -> Status] BY DEF IInv, Typed, RestTyped
    <2> QED BY <1>3, <1>6, <2>1 DEF LocalsTyped, HydrationLocals, HydrationRunTyped
  <1>9. HydrationReached' BY <1>2, <1>5, <1>6, <1>7 DEF HydrationReached
  <1>10. DiscoveryReached' BY <1>6 DEF DiscoveryReached
  <1>11. SelectionHeld' /\ CheckpointHeld' /\ HydrationHeld' BY <1>2, FilesKept DEF IInv
  <1> QED BY <1>2, <1>8, <1>9, <1>10, <1>11 DEF IInv, Typed, FilesTyped, RestTyped

(* A pass that moves on, with or without a checkpoint of where it stands. *)
LEMMA ProgressStep ==
    ASSUME IInv, Hydrating, NEW next, ProgressHeld(proc.run, next),
           proc' = [proc EXCEPT !.progress = next],
           disk' = disk \/ disk' = [disk EXCEPT !.checkpoint = Checkpoint(next)],
           UNCHANGED <<registry, ledger, faults>>
    PROVE  IInv'
  <1>1. proc.cmd = "hydrate" /\ proc.pc = "scan" BY DEF Hydrating
  <1>2. HydrationLocals BY <1>1, HydrationHolds
  <1>3. /\ DOMAIN proc' = DOMAIN proc /\ proc'.cmd = "hydrate" /\ proc'.pc = "scan"
        /\ proc'.run = proc.run /\ proc'.complete = proc.complete
        /\ proc'.status = proc.status /\ proc'.progress = next
    BY <1>1, <1>2 DEF HydrationLocals
  <1>4. DOMAIN disk = File BY DEF IInv, Typed, FilesTyped
  <1>5. /\ DOMAIN disk' = File /\ disk'.selection = disk.selection
        /\ disk'.selectionManifest = disk.selectionManifest
        /\ disk'.context = disk.context /\ disk'.controls = disk.controls
        /\ disk'.hydrationManifest = disk.hydrationManifest
        /\ disk'.checkpoint = disk.checkpoint \/ disk'.checkpoint = Checkpoint(next)
    BY <1>4 DEF File
  <1>6. LocalsTyped' BY <1>2, <1>3 DEF LocalsTyped, HydrationLocals
  <1>7. HydrationReached' BY <1>1, <1>3, <1>5 DEF HydrationReached, IInv
  <1>8. DiscoveryReached' BY <1>3 DEF DiscoveryReached
  <1>9. SelectionHeld' /\ HydrationHeld' BY <1>5, FilesKept DEF IInv
  <1>10. CheckpointHeld'
    <2>1. Checkpoint(next).run = proc.run /\ Checkpoint(next).progress = next BY DEF Checkpoint
    <2> QED BY <1>5, <2>1 DEF CheckpointHeld, IInv
  <1>11. FilesTyped' BY <1>5 DEF FilesTyped, IInv, Typed
  <1> QED BY <1>6, <1>7, <1>8, <1>9, <1>10, <1>11 DEF IInv, Typed, RestTyped

(* The source a hydration reads, and where it stands in it. *)
LEMMA ReadingHolds ==
    ASSUME IInv, Reading
    PROVE  /\ Hydrating /\ proc.cmd = "hydrate" /\ ProgressHeld(proc.run, proc.progress)
           /\ proc.progress.at \in Sources
           /\ Rows(proc.run.selection) /\ HydrationLocals
  <1>1. Hydrating /\ proc.cmd = "hydrate" /\ proc.progress.at <= Len(Archive) BY DEF Reading, Hydrating
  <1>2. /\ ProgressHeld(proc.run, proc.progress) /\ proc.progress.at \in 1 .. Len(Archive) + 1
        /\ Rows(proc.run.selection) /\ HydrationLocals
    BY <1>1, HydrationHolds
  <1>3. proc.progress.at \in Sources
    <2> DEFINE at == proc.progress.at
    <2>1. at <= Len(Archive) /\ at \in 1 .. Len(Archive) + 1 BY <1>1, <1>2
    <2> HIDE DEF at
    <2>2. at \in Sources BY <2>1, Archives
    <2> QED BY <2>2 DEF at
  <1> QED BY <1>1, <1>2, <1>3

(* A skipped source is reported, and exactness is no longer claimed.        *)
LEMMA SkipSourceHolds == IInv /\ SkipSource => IInv'
  <1> SUFFICES ASSUME IInv, SkipSource PROVE IInv' OBVIOUS
  <1> DEFINE next == Passed(proc.progress, "skipped", NoCount)
  <1>1. /\ Reading /\ proc' = [proc EXCEPT !.progress = next]
        /\ disk' = [disk EXCEPT !.checkpoint = Checkpoint(next)]
        /\ UNCHANGED <<registry, ledger, faults>>
    BY DEF SkipSource, Passed
  <1>2. ProgressHeld(proc.run, next) BY <1>1, ReadingHolds, SkipHeld
  <1> HIDE DEF next
  <1> QED BY <1>1, <1>2, ReadingHolds, ProgressStep

(* A source that ends was read to its last line.                            *)
LEMMA SourceEndsHolds == IInv /\ SourceEnds => IInv'
  <1> SUFFICES ASSUME IInv, SourceEnds PROVE IInv' OBVIOUS
  <1> DEFINE p == proc.progress
             next == Passed(p, "read", p.count)
  <1>1. /\ Reading /\ ~(p.line < Len(Lines(p.at))) /\ proc' = [proc EXCEPT !.progress = next]
        /\ disk' = [disk EXCEPT !.checkpoint = Checkpoint(next)]
        /\ UNCHANGED <<registry, ledger, faults>>
    BY DEF SourceEnds, Passed, HasLine, Present
  <1>2. ProgressHeld(proc.run, next)
    <2>1. ProgressHeld(proc.run, p) /\ p.at \in Sources BY <1>1, ReadingHolds
    <2> HIDE DEF p
    <2> QED BY <1>1, <2>1, SourceHeld
  <1> HIDE DEF next
  <1> QED BY <1>1, <1>2, ReadingHolds, ProgressStep

(* A record is offered to one retainer at most, and is counted once.        *)
LEMMA HydrateRecordHolds == IInv /\ HydrateRecord => IInv'
  <1> SUFFICES ASSUME IInv, HydrateRecord PROVE IInv' OBVIOUS
  <1> DEFINE p == proc.progress
             m == Lines(p.at)[p.line + 1]
             passed == [p EXCEPT !.line = @ + 1]
             next == Classified(m, p)
  <1>1. /\ Reading /\ p.line < Len(Lines(p.at)) /\ UNCHANGED <<registry, ledger, faults>>
    BY DEF HydrateRecord, HasLine, Present
  <1>2. /\ Hydrating /\ ProgressHeld(proc.run, p) /\ p.at \in Sources /\ Rows(proc.run.selection)
        /\ DOMAIN proc = {"cmd", "pc", "run", "complete", "status", "progress"}
    BY <1>1, ReadingHolds DEF HydrationLocals
  <1>3. CASE m = Quarantined
    <2>1. proc' = [proc EXCEPT !.progress.line = @ + 1] /\ UNCHANGED disk
      BY <1>3 DEF HydrateRecord, Line, Present
    <2>2. proc' = [proc EXCEPT !.progress = passed] BY <1>2, <2>1
    <2>3. ProgressHeld(proc.run, passed)
      <3> HIDE DEF p
      <3> QED BY <1>1, <1>2, <1>3, QuarantinedHeld
    <2> HIDE DEF passed
    <2> QED BY <1>1, <1>2, <2>1, <2>2, <2>3, ProgressStep
  <1>4. CASE m # Quarantined
    <2>1. /\ proc' = [proc EXCEPT !.progress = next]
          /\ disk' = disk \/ disk' = [disk EXCEPT !.checkpoint = Checkpoint(next)]
      BY <1>4 DEF HydrateRecord, Line, Present
    <2>2. ProgressHeld(proc.run, next)
      <3> HIDE DEF p
      <3> QED BY <1>1, <1>2, <1>4, RecordHeld
    <2> HIDE DEF next
    <2> QED BY <1>1, <1>2, <2>1, <2>2, ProgressStep
  <1> QED BY <1>3, <1>4

(* The pass stops early: the run is incomplete. *)
LEMMA StopHolds ==
    ASSUME IInv, Hydrating, NEW status \in [Sources -> Status], Stop(status),
           UNCHANGED <<registry, ledger, disk>>, faults' \in 0 .. MaxFaults
    PROVE  IInv'
  <1>1. /\ proc.cmd = "hydrate" /\ proc.pc = "scan"
        /\ proc' = [proc EXCEPT !.pc = "publish", !.complete = FALSE, !.status = status]
    BY DEF Hydrating, Stop
  <1>2. HydrationLocals /\ ProgressHeld(proc.run, proc.progress) BY <1>1, HydrationHolds
  <1>3. /\ DOMAIN proc' = DOMAIN proc /\ proc'.cmd = "hydrate" /\ proc'.pc = "publish"
        /\ proc'.run = proc.run /\ proc'.complete = FALSE
        /\ proc'.status = status /\ proc'.progress = proc.progress
    BY <1>1, <1>2 DEF HydrationLocals
  <1>4. LocalsTyped' BY <1>2, <1>3 DEF LocalsTyped, HydrationLocals
  <1>5. HydrationReached' BY <1>1, <1>2, <1>3 DEF HydrationReached, IInv
  <1>6. DiscoveryReached' BY <1>3 DEF DiscoveryReached
  <1>7. SelectionHeld' /\ CheckpointHeld' /\ HydrationHeld' BY FilesKept DEF IInv
  <1> QED BY <1>4, <1>5, <1>6, <1>7 DEF IInv, Typed, FilesTyped, RestTyped

(* A hydration that stops early is not complete.                            *)
LEMMA StopsHold == IInv /\ (HydrationLimit \/ SourceFails \/ HydrationBudget) => IInv'
  <1> SUFFICES ASSUME IInv, HydrationLimit \/ SourceFails \/ HydrationBudget PROVE IInv' OBVIOUS
  <1>1. Hydrating /\ UNCHANGED <<registry, ledger, disk>>
    BY DEF HydrationLimit, SourceFails, HydrationBudget, Reading
  <1>2. proc.status \in [Sources -> Status]
    BY <1>1, HydrationHolds DEF Hydrating, HydrationLocals
  <1>3. faults' \in 0 .. MaxFaults
    BY FaultTyped DEF HydrationLimit, SourceFails, HydrationBudget, IInv, Typed, RestTyped
  <1>4. \/ Stop(proc.status)
        \/ Stop([proc.status EXCEPT ![Present] = "failed"])
    BY DEF HydrationLimit, SourceFails, HydrationBudget
  <1>5. [proc.status EXCEPT ![Present] = "failed"] \in [Sources -> Status] BY <1>2 DEF Status
  <1> QED BY <1>1, <1>2, <1>3, <1>4, <1>5, StopHolds

(* A step of the publication: the next one, and perhaps a file. *)
LEMMA PublishStep ==
    ASSUME IInv, proc.cmd = "hydrate", NEW pc \in {"publish", "controls", "manifest", "registry", "checkpoint"},
           proc' = [proc EXCEPT !.pc = pc]
    PROVE  /\ LocalsTyped' /\ DiscoveryReached'
           /\ proc'.cmd = "hydrate" /\ proc'.pc = pc /\ proc'.run = proc.run
           /\ proc'.complete = proc.complete /\ proc'.progress = proc.progress
           /\ ProgressHeld(proc'.run, proc'.progress)
  <1>1. HydrationLocals /\ ProgressHeld(proc.run, proc.progress) BY HydrationHolds
  <1>2. /\ DOMAIN proc' = DOMAIN proc /\ proc'.cmd = "hydrate" /\ proc'.pc = pc
        /\ proc'.run = proc.run /\ proc'.complete = proc.complete
        /\ proc'.status = proc.status /\ proc'.progress = proc.progress
    BY <1>1 DEF HydrationLocals
  <1>3. LocalsTyped' BY <1>1, <1>2 DEF LocalsTyped, HydrationLocals
  <1>4. DiscoveryReached' BY <1>2 DEF DiscoveryReached
  <1> QED BY <1>1, <1>2, <1>3, <1>4

(* When there is nothing left to read the pass is over.                     *)
LEMMA AllReadHolds == IInv /\ AllRead => IInv'
  <1> SUFFICES ASSUME IInv, AllRead PROVE IInv' OBVIOUS
  <1>1. /\ proc.cmd = "hydrate" /\ proc.pc = "scan" /\ ~Reading /\ Hydrating
        /\ proc' = [proc EXCEPT !.pc = "publish"] /\ UNCHANGED <<registry, ledger, disk, faults>>
    BY DEF AllRead, Hydrating
  <1>2. /\ LocalsTyped' /\ DiscoveryReached'
        /\ proc'.cmd = "hydrate" /\ proc'.pc = "publish" /\ proc'.run = proc.run
        /\ proc'.complete = proc.complete /\ proc'.progress = proc.progress
        /\ ProgressHeld(proc'.run, proc'.progress)
    BY <1>1, PublishStep
  <1>3. Over(proc.run, proc.progress)
    <2> DEFINE at == proc.progress.at
    <2>1. at \in 1 .. Len(Archive) + 1 BY <1>1, HydrationHolds
    <2>2. Selected(proc.run) = {} \/ ~(at <= Len(Archive)) BY <1>1 DEF Reading
    <2> HIDE DEF at
    <2>3. Selected(proc.run) = {} \/ at = Len(Archive) + 1 BY <2>1, <2>2, Archives
    <2> QED BY <2>3 DEF Over, at
  <1>4. HydrationReached' BY <1>1, <1>2, <1>3 DEF HydrationReached, IInv
  <1>5. SelectionHeld' /\ CheckpointHeld' /\ HydrationHeld' BY <1>1, FilesKept DEF IInv
  <1> QED BY <1>1, <1>2, <1>4, <1>5 DEF IInv, Typed, FilesTyped, RestTyped

(* The context shard is published from the progress.                        *)
LEMMA PublishContextHolds == IInv /\ PublishContext => IInv'
  <1> SUFFICES ASSUME IInv, PublishContext PROVE IInv' OBVIOUS
  <1> DEFINE rows == Selected(proc.run) \union proc.progress.context
  <1>1. /\ proc.cmd = "hydrate" /\ proc.pc = "publish" /\ proc.complete
        /\ disk' = [disk EXCEPT !.context = rows]
        /\ proc' = [proc EXCEPT !.pc = "controls"] /\ UNCHANGED <<registry, ledger, faults>>
    BY DEF PublishContext
  <1>2. /\ LocalsTyped' /\ DiscoveryReached'
        /\ proc'.cmd = "hydrate" /\ proc'.pc = "controls" /\ proc'.run = proc.run
        /\ proc'.complete = proc.complete /\ proc'.progress = proc.progress
        /\ ProgressHeld(proc'.run, proc'.progress)
    BY <1>1, PublishStep
  <1>3. DOMAIN disk = File BY DEF IInv, Typed, FilesTyped
  <1>4. rows \subseteq Message BY <1>1, HydrationHolds
  <1> HIDE DEF rows
  <1>5. /\ DOMAIN disk' = File /\ disk'.selection = disk.selection /\ disk'.context = rows
        /\ disk'.selectionManifest = disk.selectionManifest
        /\ disk'.checkpoint = disk.checkpoint /\ disk'.hydrationManifest = disk.hydrationManifest
    BY <1>1, <1>3 DEF File
  <1>6. Over(proc.run, proc.progress) BY <1>1 DEF IInv, HydrationReached
  <1>7. disk.hydrationManifest = None \/ ~disk.hydrationManifest.complete
    BY <1>1 DEF IInv, HydrationReached
  <1>8. HydrationReached'
    <2>1. disk'.context = Selected(proc'.run) \union proc'.progress.context BY <1>2, <1>5 DEF rows
    <2> QED BY <1>1, <1>2, <1>5, <1>6, <1>7, <2>1 DEF HydrationReached, ContextIs
  <1>9. HydrationHeld' BY <1>5, <1>7 DEF HydrationHeld
  <1>10. SelectionHeld' /\ CheckpointHeld' BY <1>5, FilesKept DEF IInv
  <1>11. FilesTyped' BY <1>4, <1>5 DEF IInv, Typed, FilesTyped
  <1> QED BY <1>1, <1>2, <1>8, <1>9, <1>10, <1>11 DEF IInv, Typed, RestTyped

(* The control shard is published from the same progress.                   *)
LEMMA PublishControlsHolds == IInv /\ PublishControls => IInv'
  <1> SUFFICES ASSUME IInv, PublishControls PROVE IInv' OBVIOUS
  <1>1. /\ proc.cmd = "hydrate" /\ proc.pc = "controls"
        /\ disk' = [disk EXCEPT !.controls = proc.progress.controls]
        /\ proc' = [proc EXCEPT !.pc = "manifest"] /\ UNCHANGED <<registry, ledger, faults>>
    BY DEF PublishControls
  <1>2. /\ LocalsTyped' /\ DiscoveryReached'
        /\ proc'.cmd = "hydrate" /\ proc'.pc = "manifest" /\ proc'.run = proc.run
        /\ proc'.complete = proc.complete /\ proc'.progress = proc.progress
        /\ ProgressHeld(proc'.run, proc'.progress)
    BY <1>1, PublishStep
  <1>3. DOMAIN disk = File BY DEF IInv, Typed, FilesTyped
  <1>4. /\ DOMAIN disk' = File /\ disk'.selection = disk.selection /\ disk'.context = disk.context
        /\ disk'.controls = proc.progress.controls
        /\ disk'.selectionManifest = disk.selectionManifest
        /\ disk'.checkpoint = disk.checkpoint /\ disk'.hydrationManifest = disk.hydrationManifest
    BY <1>1, <1>3 DEF File
  <1>5. /\ proc.complete /\ Over(proc.run, proc.progress) /\ ContextIs(proc.run, proc.progress)
        /\ disk.hydrationManifest = None \/ ~disk.hydrationManifest.complete
    BY <1>1 DEF IInv, HydrationReached
  <1>6. HydrationReached' BY <1>2, <1>4, <1>5 DEF HydrationReached, ContextIs
  <1>7. HydrationHeld' BY <1>4, <1>5 DEF HydrationHeld
  <1>8. SelectionHeld' /\ CheckpointHeld' BY <1>4, FilesKept DEF IInv
  <1>9. FilesTyped' BY <1>4 DEF IInv, Typed, FilesTyped
  <1> QED BY <1>1, <1>2, <1>6, <1>7, <1>8, <1>9 DEF IInv, Typed, RestTyped

(* When the second shard cannot be published both are gone.                 *)
LEMMA PublishFailsHolds == IInv /\ PublishFails => IInv'
  <1> SUFFICES ASSUME IInv, PublishFails PROVE IInv' OBVIOUS
  <1>1. /\ proc.cmd = "hydrate" /\ proc.pc = "controls" /\ Fault /\ proc' = Idle
        /\ disk' = [disk EXCEPT !.context = None] /\ UNCHANGED <<registry, ledger>>
    BY DEF PublishFails
  <1>2. DOMAIN disk = File BY DEF IInv, Typed, FilesTyped
  <1>3. /\ DOMAIN disk' = File /\ disk'.selection = disk.selection /\ disk'.context = None
        /\ disk'.selectionManifest = disk.selectionManifest
        /\ disk'.checkpoint = disk.checkpoint /\ disk'.hydrationManifest = disk.hydrationManifest
    BY <1>1, <1>2 DEF File
  <1>4. disk.hydrationManifest = None \/ ~disk.hydrationManifest.complete
    BY <1>1 DEF IInv, HydrationReached
  <1>5. HydrationHeld' BY <1>3, <1>4 DEF HydrationHeld
  <1>6. SelectionHeld' /\ CheckpointHeld' BY <1>3, FilesKept DEF IInv
  <1>7. FilesTyped' BY <1>3 DEF IInv, Typed, FilesTyped
  <1>8. RestTyped' BY <1>1, FaultTyped DEF IInv, Typed, RestTyped
  <1> QED BY <1>1, <1>5, <1>6, <1>7, <1>8, Ended DEF IInv, Typed

(* An incomplete hydration leaves no shard.                                 *)
LEMMA WithholdHolds == IInv /\ Withhold => IInv'
  <1> SUFFICES ASSUME IInv, Withhold PROVE IInv' OBVIOUS
  <1>1. /\ proc.cmd = "hydrate" /\ proc.pc = "publish" /\ ~proc.complete
        /\ disk' = [disk EXCEPT !.context = None, !.controls = None]
        /\ proc' = [proc EXCEPT !.pc = "manifest"] /\ UNCHANGED <<registry, ledger, faults>>
    BY DEF Withhold
  <1>2. /\ LocalsTyped' /\ DiscoveryReached'
        /\ proc'.cmd = "hydrate" /\ proc'.pc = "manifest" /\ proc'.run = proc.run
        /\ proc'.complete = proc.complete /\ proc'.progress = proc.progress
        /\ ProgressHeld(proc'.run, proc'.progress)
    BY <1>1, PublishStep
  <1>3. DOMAIN disk = File BY DEF IInv, Typed, FilesTyped
  <1>4. /\ DOMAIN disk' = File /\ disk'.selection = disk.selection /\ disk'.context = None
        /\ disk'.selectionManifest = disk.selectionManifest
        /\ disk'.checkpoint = disk.checkpoint /\ disk'.hydrationManifest = disk.hydrationManifest
    BY <1>1, <1>3 DEF File
  <1>5. disk.hydrationManifest = None \/ ~disk.hydrationManifest.complete
    BY <1>1 DEF IInv, HydrationReached
  <1>6. HydrationReached' BY <1>1, <1>2, <1>4, <1>5 DEF HydrationReached
  <1>7. HydrationHeld' BY <1>4, <1>5 DEF HydrationHeld
  <1>8. SelectionHeld' /\ CheckpointHeld' BY <1>4, FilesKept DEF IInv
  <1>9. FilesTyped' BY <1>4 DEF IInv, Typed, FilesTyped
  <1> QED BY <1>1, <1>2, <1>6, <1>7, <1>8, <1>9 DEF IInv, Typed, RestTyped

(* The manifest describes the shards that were published.                   *)
LEMMA WriteHydrationManifestHolds == IInv /\ WriteHydrationManifest => IInv'
  <1> SUFFICES ASSUME IInv, WriteHydrationManifest PROVE IInv' OBVIOUS
  <1> DEFINE manifest == [run |-> proc.run, complete |-> proc.complete, progress |-> proc.progress]
  <1>1. /\ proc.cmd = "hydrate" /\ proc.pc = "manifest"
        /\ disk' = [disk EXCEPT !.hydrationManifest = manifest]
        /\ proc' = [proc EXCEPT !.pc = "registry"] /\ UNCHANGED <<registry, ledger, faults>>
    BY DEF WriteHydrationManifest
  <1>2. /\ LocalsTyped' /\ DiscoveryReached'
        /\ proc'.cmd = "hydrate" /\ proc'.pc = "registry" /\ proc'.run = proc.run
        /\ proc'.complete = proc.complete /\ proc'.progress = proc.progress
        /\ ProgressHeld(proc'.run, proc'.progress)
    BY <1>1, PublishStep
  <1>3. DOMAIN disk = File BY DEF IInv, Typed, FilesTyped
  <1>4. /\ manifest.run = proc.run /\ manifest.complete = proc.complete
        /\ manifest.progress = proc.progress
    OBVIOUS
  <1> HIDE DEF manifest
  <1>5. /\ DOMAIN disk' = File /\ disk'.selection = disk.selection /\ disk'.context = disk.context
        /\ disk'.controls = disk.controls /\ disk'.checkpoint = disk.checkpoint
        /\ disk'.selectionManifest = disk.selectionManifest
        /\ disk'.hydrationManifest = manifest
    BY <1>1, <1>3 DEF File
  <1>6. proc.complete => /\ Over(proc.run, proc.progress) /\ ContextIs(proc.run, proc.progress)
                         /\ disk.controls = proc.progress.controls
    BY <1>1 DEF IInv, HydrationReached
  <1>7. HydrationReached' BY <1>2, <1>6 DEF HydrationReached
  <1>8. HydrationHeld' BY <1>2, <1>4, <1>5, <1>6 DEF HydrationHeld, ContextIs
  <1>9. SelectionHeld' /\ CheckpointHeld' BY <1>5, FilesKept DEF IInv
  <1>10. FilesTyped' BY <1>5 DEF IInv, Typed, FilesTyped
  <1> QED BY <1>1, <1>2, <1>7, <1>8, <1>9, <1>10 DEF IInv, Typed, RestTyped

(* The registry says nothing of the shards.                                 *)
LEMMA PersistRegistryHolds == IInv /\ PersistRegistry => IInv'
  <1> SUFFICES ASSUME IInv, PersistRegistry PROVE IInv' OBVIOUS
  <1>1. /\ proc.cmd = "hydrate" /\ proc.pc = "registry" /\ registry' = proc.status
        /\ UNCHANGED <<ledger, disk, faults>>
        /\ \/ proc' = [proc EXCEPT !.pc = "checkpoint"]
           \/ proc' = Idle
    BY DEF PersistRegistry
  <1>2. registry' \in [Sources -> Status] BY <1>1, HydrationHolds DEF HydrationLocals
  <1>3. CASE proc' = Idle BY <1>1, <1>2, <1>3, EndsQuietly DEF IInv, Typed, RestTyped
  <1>4. CASE proc' = [proc EXCEPT !.pc = "checkpoint"]
    <2>1. /\ LocalsTyped' /\ DiscoveryReached'
          /\ proc'.cmd = "hydrate" /\ proc'.pc = "checkpoint" /\ proc'.run = proc.run
          /\ proc'.complete = proc.complete /\ proc'.progress = proc.progress
          /\ ProgressHeld(proc'.run, proc'.progress)
      BY <1>1, <1>4, PublishStep
    <2>2. HydrationReached' BY <1>1, <2>1 DEF HydrationReached, IInv
    <2>3. SelectionHeld' /\ CheckpointHeld' /\ HydrationHeld' BY <1>1, FilesKept DEF IInv
    <2> QED BY <1>1, <1>2, <2>1, <2>2, <2>3 DEF IInv, Typed, FilesTyped, RestTyped
  <1> QED BY <1>1, <1>3, <1>4

(* The checkpoint may go when the manifest is complete.                     *)
LEMMA RemoveCheckpointHolds == IInv /\ RemoveCheckpoint => IInv'
  <1> SUFFICES ASSUME IInv, RemoveCheckpoint PROVE IInv' OBVIOUS
  <1>1. /\ proc' = Idle /\ disk' = [disk EXCEPT !.checkpoint = None]
        /\ UNCHANGED <<registry, ledger, faults>>
    BY DEF RemoveCheckpoint
  <1>2. DOMAIN disk = File BY DEF IInv, Typed, FilesTyped
  <1>3. /\ DOMAIN disk' = File /\ disk'.selection = disk.selection /\ disk'.context = disk.context
        /\ disk'.controls = disk.controls /\ disk'.checkpoint = None
        /\ disk'.selectionManifest = disk.selectionManifest
        /\ disk'.hydrationManifest = disk.hydrationManifest
    BY <1>1, <1>2 DEF File
  <1>4. SelectionHeld' /\ HydrationHeld' BY <1>3, FilesKept DEF IInv
  <1>5. CheckpointHeld' BY <1>3 DEF CheckpointHeld
  <1>6. FilesTyped' BY <1>3 DEF IInv, Typed, FilesTyped
  <1> QED BY <1>1, <1>4, <1>5, <1>6, Ended DEF IInv, Typed, RestTyped

(* A hydration, as a whole, preserves the invariant. *)
LEMMA HydrateHolds == IInv /\ Hydrate => IInv'
  BY StartHydrationHolds, SkipSourceHolds, SourceEndsHolds, HydrateRecordHolds, StopsHold,
     AllReadHolds, PublishContextHolds, PublishControlsHolds, PublishFailsHolds, WithholdHolds,
     WriteHydrationManifestHolds, PersistRegistryHolds, RemoveCheckpointHolds
  DEF Hydrate, HydrationStep

-----------------------------------------------------------------------------
(* The steps of a build and of the operator.                                *)

(* A build leaves the files of the other commands alone. *)
LEMMA BuildHolds == IInv /\ Build => IInv'
  <1> SUFFICES ASSUME IInv, Build PROVE IInv' OBVIOUS
  <1>1. DOMAIN disk = File BY DEF IInv, Typed, FilesTyped
  <1>2. /\ disk'.selection = disk.selection /\ disk'.context = disk.context
        /\ disk'.controls = disk.controls /\ disk'.checkpoint = disk.checkpoint
        /\ disk'.selectionManifest = disk.selectionManifest
        /\ disk'.hydrationManifest = disk.hydrationManifest /\ DOMAIN disk' = File
    BY <1>1 DEF Build, BuildStep, StartCorpus, StageCorpus, CorpusFails, ReplaceCorpus,
                WriteCorpusManifest, File
  <1>3. UNCHANGED <<registry, ledger>> /\ faults' \in 0 .. MaxFaults
    BY FaultTyped DEF Build, BuildStep, StartCorpus, StageCorpus, CorpusFails, ReplaceCorpus,
                      WriteCorpusManifest, IInv, Typed, RestTyped
  <1>4. FilesTyped' BY <1>2 DEF FilesTyped, IInv, Typed
  <1>5. SelectionHeld' /\ CheckpointHeld' /\ HydrationHeld' BY <1>2, FilesKept DEF IInv
  <1>6. LocalsTyped' /\ proc'.cmd \in {"none", "corpus"}
    <2>1. CASE StartCorpus
      <3>1. PICK shard \in {None, disk.context} :
              proc' = [cmd |-> "corpus", pc |-> "stage", run |-> CorpusRun(shard), found |-> disk.staged]
        BY <2>1 DEF StartCorpus
      <3>2. /\ DOMAIN proc' = {"cmd", "pc", "run", "found"} /\ proc'.cmd = "corpus"
            /\ proc'.pc = "stage" /\ proc'.run = CorpusRun(shard)
        BY <3>1
      <3>3. /\ CorpusRun(shard).selection \subseteq Message
            /\ CorpusRun(shard).context # None => CorpusRun(shard).context \subseteq Message
        BY <2>1 DEF CorpusRun, StartCorpus, IInv, Typed, FilesTyped, Rows
      <3> QED BY <3>2, <3>3 DEF LocalsTyped, CorpusLocals
    <2>2. CASE StageCorpus \/ ReplaceCorpus
      <3>1. /\ proc.cmd = "corpus"
            /\ \/ proc' = [proc EXCEPT !.pc = "replace"]
               \/ proc' = [proc EXCEPT !.pc = "manifest"]
        BY <2>2 DEF StageCorpus, ReplaceCorpus, Building
      <3>2. CorpusLocals BY <3>1 DEF IInv, Typed, LocalsTyped, Idle
      <3>3. /\ DOMAIN proc' = DOMAIN proc /\ proc'.cmd = "corpus" /\ proc'.run = proc.run
            /\ proc'.pc \in {"replace", "manifest"}
        BY <3>1, <3>2 DEF CorpusLocals
      <3> QED BY <3>2, <3>3 DEF LocalsTyped, CorpusLocals
    <2>3. CASE CorpusFails \/ WriteCorpusManifest
      <3>1. proc' = Idle BY <2>3 DEF CorpusFails, WriteCorpusManifest
      <3> QED BY <3>1 DEF LocalsTyped, Idle
    <2> QED BY <2>1, <2>2, <2>3 DEF Build, BuildStep
  <1>7. DiscoveryReached' /\ HydrationReached' BY <1>6 DEF DiscoveryReached, HydrationReached
  <1> QED BY <1>3, <1>4, <1>5, <1>6, <1>7 DEF IInv, Typed, RestTyped

(* Between two commands the operator changes the ledger and the registry;   *)
(* a crash ends the command.                                                *)
LEMMA OperatorHolds ==
    IInv /\ (AddTombstone \/ RegisterSources \/ ValidateSources \/ ValidationFails \/ Crash) => IInv'
  <1> SUFFICES ASSUME IInv,
                      AddTombstone \/ RegisterSources \/ ValidateSources \/ ValidationFails \/ Crash
               PROVE  IInv'
    OBVIOUS
  <1>1. UNCHANGED disk /\ (proc' = Idle \/ (UNCHANGED proc /\ proc.cmd = "none"))
    BY DEF AddTombstone, RegisterSources, ValidateSources, ValidationFails, Crash
  <1>2. proc' = Idle BY <1>1 DEF IInv, Typed, LocalsTyped
  <1>3. RestTyped'
    <2>1. faults' \in 0 .. MaxFaults
      BY FaultTyped DEF AddTombstone, RegisterSources, ValidateSources, ValidationFails, Crash,
                        IInv, Typed, RestTyped
    <2>2. ledger' \subseteq Tombstone
      BY DEF AddTombstone, RegisterSources, ValidateSources, ValidationFails, Crash,
             IInv, Typed, RestTyped
    <2>3. registry' \in [Sources -> Status]
      <3>1. CASE AddTombstone \/ Crash BY <3>1 DEF AddTombstone, Crash, IInv, Typed, RestTyped
      <3>2. CASE RegisterSources BY <3>2 DEF RegisterSources, Status
      <3>3. CASE ValidateSources BY <3>3, ValidatedIs DEF ValidateSources
      <3>4. CASE ValidationFails
        <4>1. PICK failed \in Sources :
                registry' = [i \in Sources |-> IF i = failed THEN "failed" ELSE Validated(i)]
          BY <3>4 DEF ValidationFails
        <4>2. "failed" \in Status BY DEF Status
        <4> QED BY <4>1, <4>2, ValidatedIs
      <3> QED BY <3>1, <3>2, <3>3, <3>4
    <2> QED BY <2>1, <2>2, <2>3 DEF RestTyped
  <1>4. SelectionHeld' /\ CheckpointHeld' /\ HydrationHeld' BY <1>1, FilesKept DEF IInv
  <1> QED BY <1>1, <1>2, <1>3, <1>4, Ended DEF IInv, Typed, FilesTyped

(* A step that changes nothing keeps the invariant.                         *)
LEMMA StutterHolds == IInv /\ UNCHANGED vars => IInv'
  <1> SUFFICES ASSUME IInv, UNCHANGED vars PROVE IInv' OBVIOUS
  <1>1. UNCHANGED <<registry, ledger, disk, proc, faults>> BY DEF vars
  <1>2. Typed' BY <1>1 DEF IInv, Typed, LocalsTyped, FilesTyped, RestTyped, DiscoveryLocals,
                           HydrationLocals, CorpusLocals
  <1>3. DiscoveryReached' /\ HydrationReached'
    BY <1>1 DEF IInv, DiscoveryReached, HydrationReached, ContextIs
  <1>4. SelectionHeld' /\ CheckpointHeld' /\ HydrationHeld' BY <1>1, FilesKept DEF IInv
  <1> QED BY <1>2, <1>3, <1>4 DEF IInv

-----------------------------------------------------------------------------
(* THE FILES ARE WHAT WAS REACHED.  The inductive invariant of the ingest   *)
(* commands: every step of every command, a failure, a crash and a resumed  *)
(* run included, keeps it.                                                  *)
THEOREM Invariance == Spec => []IInv
  <1>1. IInv /\ [Next]_vars => IInv'
    BY DiscoverHolds, HydrateHolds, BuildHolds, OperatorHolds, StutterHolds DEF Next
  <1> QED BY Initially, <1>1, PTL DEF Spec

(* THE TYPES, AND THE BOUNDS OF WHAT IS RETAINED.                           *)
THEOREM TypeCorrect == Spec => []TypeOK
  <1>1. IInv => TypeOK
    <2> SUFFICES ASSUME IInv PROVE TypeOK OBVIOUS
    <2>1. registry \in [Sources -> Status] /\ ledger \subseteq Tombstone /\ faults \in 0 .. MaxFaults
      BY DEF IInv, Typed, RestTyped
    <2>2. proc.cmd \in {"none", "discover", "hydrate", "corpus"}
      BY DEF IInv, Typed, LocalsTyped, Idle
    <2>3. disk.selection # None => disk.selection \subseteq Message
      BY DEF IInv, Typed, FilesTyped, Rows
    <2>4. proc.cmd = "discover" => Cardinality(proc.kept) <= Target
      BY DiscoveryHolds DEF DiscoveryLocals, Retains
    <2>5. proc.cmd = "hydrate" =>
            /\ proc.progress \in Progress
            /\ Cardinality(proc.progress.context) <= MaxContext
            /\ Cardinality(proc.progress.controls) <= ControlTarget
      BY HydrationHolds DEF ProgressHeld, ProgressTyped, Retains
    <2> QED BY <2>1, <2>2, <2>3, <2>4, <2>5 DEF TypeOK
  <1> QED BY Invariance, <1>1, PTL

(* DISCOVERY SELECTS THE LOWEST RANKS, for any archives, rules and target:  *)
(* the order of the records, duplicates, quarantined and malformed lines    *)
(* and the memory bound of the retainer leave no trace in the selection.    *)
THEOREM SelectionLowest == Spec => []SelectionIsLowest
  <1>1. IInv => SelectionIsLowest
    <2> SUFFICES ASSUME IInv, disk.selectionManifest # None, disk.selectionManifest.complete
                 PROVE  disk.selectionManifest.rows =
                            Lowest(Wanted(disk.selectionManifest.run), Rank, Target)
      BY DEF SelectionIsLowest, Wanted
    <2> DEFINE rows == disk.selectionManifest.rows
               W == Wanted(disk.selectionManifest.run)
    <2>1. Retains(rows, Target) /\ IsLowest(rows, W, Rank, Target) BY DEF IInv, SelectionHeld
    <2>2. OfMessages(W)
      <3>1. W \subseteq MessagesOf(DiscoverySources) BY DEF Wanted, Undeleted
      <3> QED BY <3>1, PlacesOf, Archives DEF OfMessages
    <2>3. Ranking(Rank) /\ Target \in Nat BY RankAssumption, DiscoveryAssumption DEF Ranking
    <2> HIDE DEF rows, W
    <2>4. rows = Lowest(W, Rank, Target) BY <2>1, <2>2, <2>3, LowestIsUnique
    <2> QED BY <2>4 DEF rows, W
  <1> QED BY Invariance, <1>1, PTL

(* HYDRATION RESUMES WITHOUT A TRACE, wherever its runs were interrupted,   *)
(* whatever the interval of the checkpoints: the shards and counters of a   *)
(* complete run that read every source are those of one pass.               *)
THEOREM Resumes == Spec => []HydrationResumes
  <1>1. IInv => HydrationResumes
    <2> DEFINE manifest == disk.hydrationManifest
               run == manifest.run
               done == manifest.progress
               live == Undeleted(MessagesOf(Sources), run)
    <2> SUFFICES ASSUME IInv, manifest # None, manifest.complete,
                        \A i \in DOMAIN done.reports : done.reports[i].status = "read",
                        Selected(run) # {}
                 PROVE  /\ disk.context = Selected(run) \union Lowest(Offered(run), Rank, MaxContext)
                        /\ disk.controls = Lowest(NotOffered(run), ControlRank, ControlTarget)
                        /\ done.contextCandidates = Cardinality(Offered(run))
                        /\ done.tombstoned = Cardinality(run.selection \ Selected(run))
                                               + Cardinality(Gone(run))
                        /\ done.scanned = Cardinality(RecordsOf(Sources))
                        /\ \A i \in Sources :
                              done.reports[i].count.processed = Cardinality(RecordsOf({i}))
      <3>1. NotOffered(run) = Other(run) \ Offered(run) BY DEF NotOffered, Offered
      <3> QED BY <3>1 DEF HydrationResumes, Offered, Other, Gone
    <2>1. /\ ProgressHeld(run, done) /\ Over(run, done) /\ ContextIs(run, done)
          /\ disk.controls = done.controls
      BY DEF IInv, HydrationHeld
    <2> HIDE DEF run, done
    <2>2. ProgressTyped(done) /\ ProgressExact(run, done) BY <2>1 DEF ProgressHeld, NoneSkipped
    <2>3. done.at = Len(Archive) + 1 BY <2>1 DEF Over
    <2>4. \A P \in SUBSET Places(Sources) : Seen(P, done) = P BY <2>3, SeenSource
    <2>5. /\ Offered(run) \in SUBSET Places(Sources) /\ NotOffered(run) \in SUBSET Places(Sources)
          /\ Gone(run) \in SUBSET Places(Sources) /\ RecordsOf(Sources) \in SUBSET Places(Sources)
      BY PlacesOf
    <2>6. OfMessages(Offered(run)) /\ OfMessages(NotOffered(run)) BY PlacesOf DEF OfMessages
    <2>7. done.context = Lowest(Offered(run), Rank, MaxContext)
      <3>1. IsLowest(done.context, Offered(run), Rank, MaxContext)
        BY <2>2, <2>4, <2>5 DEF ProgressExact
      <3>2. Ranking(Rank) /\ MaxContext \in Nat BY RankAssumption, HydrationAssumption DEF Ranking
      <3> QED BY <2>2, <2>6, <3>1, <3>2, LowestIsUnique DEF ProgressTyped
    <2>8. done.controls = Lowest(NotOffered(run), ControlRank, ControlTarget)
      <3>1. IsLowest(done.controls, NotOffered(run), ControlRank, ControlTarget)
        BY <2>2, <2>4, <2>5 DEF ProgressExact
      <3>2. Ranking(ControlRank) /\ ControlTarget \in Nat
        BY RankAssumption, HydrationAssumption DEF Ranking
      <3> QED BY <2>2, <2>6, <3>1, <3>2, LowestIsUnique DEF ProgressTyped
    <2>9. DOMAIN done.reports = Sources
      <3> DEFINE reports == done.reports
      <3>1. Len(reports) = done.at - 1 /\ reports \in Reports
        BY <2>2, ProgressFields DEF ProgressTyped, WellTyped
      <3>2. Len(reports) = Len(Archive) BY <2>3, <3>1, Archives
      <3> HIDE DEF reports
      <3>3. DOMAIN reports = 1 .. Len(reports) BY <3>1 DEF Reports
      <3> QED BY <3>2, <3>3, Archives DEF reports
    <2> QED BY <2>1, <2>2, <2>4, <2>5, <2>7, <2>8, <2>9 DEF ProgressExact, ContextIs
  <1> QED BY Invariance, <1>1, PTL

-----------------------------------------------------------------------------
(* The way up from a message.                                               *)

(* The messages a run knows are those of its inputs that are not deleted,   *)
(* each under its own name; a selected one is known by its name.            *)
LEMMA KnownIs ==
    ASSUME NEW run, run.selection \subseteq Message,
           run.context # None => run.context \subseteq Message
    PROVE  /\ \A n \in DOMAIN Known(run) :
                 /\ Known(run)[n].name = n /\ Known(run)[n] \in Message
                 /\ ~Deleted(Known(run)[n], run.ledger)
           /\ \A m \in Indexed(run) : m.name \in DOMAIN Known(run)
  <1> DEFINE rows == ContextRows(run)
             chosen == rows \union {m \in Indexed(run) : m.name \notin Names(rows)}
  <1>1. Known(run) = [n \in Names(chosen) |-> CHOOSE m \in chosen : m.name = n] BY DEF Known
  <1>2. \A m \in chosen : m \in Message /\ ~Deleted(m, run.ledger)
    BY DEF ContextRows, Indexed, Live
  <1>3. \A m \in Indexed(run) : m.name \in Names(chosen) BY DEF Names
  <1> HIDE DEF chosen
  <1>4. ASSUME NEW n \in Names(chosen)
        PROVE  (CHOOSE m \in chosen : m.name = n) \in chosen
               /\ (CHOOSE m \in chosen : m.name = n).name = n
    <2>1. \E m \in chosen : m.name = n BY DEF Names
    <2> QED BY <2>1
  <1> QED BY <1>1, <1>2, <1>3, <1>4

(* What holds of a climb: it visits known messages, and the parent of each  *)
(* message met is one met, none, the next one or marked as missing.         *)
Climbing(focus, known, c) ==
    /\ DOMAIN c = {"next", "path", "missing"}
    /\ c.path \in Seq({known[n] : n \in DOMAIN known})
    /\ c.missing = {} \/ c.next = None
    /\ \A m \in {focus} \union ToSet(c.path) :
          m.parent \in Names(ToSet(c.path)) \union {None, c.next} \union c.missing

(* One step up keeps what a climb has established.                          *)
LEMMA UpClimbs ==
    ASSUME NEW focus, NEW known, \A n \in DOMAIN known : known[n].name = n,
           NEW c, Climbing(focus, known, c)
    PROVE  Climbing(focus, known, Up(focus, known, c))
  <1> DEFINE Met == {known[n] : n \in DOMAIN known}
             path == c.path
             next == c.next
             k == known[next]
             d == Up(focus, known, c)
             further == Append(path, k)
  <1>1. /\ DOMAIN c = {"next", "path", "missing"} /\ path \in Seq(Met)
        /\ c.missing = {} \/ next = None
        /\ \A m \in {focus} \union ToSet(path) :
              m.parent \in Names(ToSet(path)) \union {None, next} \union c.missing
    BY DEF Climbing
  <1>2. CASE next = None
    <2>1. d = c BY <1>2 DEF Up
    <2> QED BY <2>1
  <1>3. CASE next # None /\ (next \notin DOMAIN known \/ next \in {focus.name} \union Names(ToSet(path)))
    <2>1. d = [c EXCEPT !.next = None, !.missing = {next}] BY <1>3 DEF Up
    <2>2. DOMAIN d = {"next", "path", "missing"} /\ d.next = None /\ d.missing = {next} /\ d.path = path
      BY <1>1, <2>1
    <2>3. c.missing = {} BY <1>1, <1>3
    <2> HIDE DEF d, path, next, Met
    <2>4. \A m \in {focus} \union ToSet(path) :
              m.parent \in Names(ToSet(path)) \union {None, None} \union {next}
      BY <1>1, <2>3
    <2>5. Climbing(focus, known, d) BY <1>1, <2>2, <2>4 DEF Climbing, Met
    <2> QED BY <2>5 DEF d
  <1>4. CASE next # None /\ next \in DOMAIN known /\ next \notin {focus.name} \union Names(ToSet(path))
    <2>1. d = [c EXCEPT !.next = k.parent, !.path = further]
      BY <1>4 DEF Up
    <2>2. DOMAIN d = {"next", "path", "missing"} /\ d.next = k.parent /\ d.missing = {} /\ d.path = further
      BY <1>1, <1>4, <2>1
    <2>3. k \in Met /\ k.name = next BY <1>4
    <2>4. c.missing = {} BY <1>1, <1>4
    <2> HIDE DEF path, next, k, Met
    <2>5. further \in Seq(Met) /\ ToSet(further) = ToSet(path) \union {k}
      <3>1. /\ further \in Seq(Met) /\ DOMAIN further = 1 .. Len(path) + 1 /\ Len(path) \in Nat
            /\ DOMAIN path = 1 .. Len(path)
            /\ \A i \in 1 .. Len(path) : further[i] = path[i]
            /\ further[Len(path) + 1] = k
        BY <1>1, <2>3
      <3> HIDE DEF further
      <3>2. ToSet(further) = {further[i] : i \in 1 .. Len(path) + 1} BY <3>1 DEF ToSet
      <3>3. ToSet(path) = {path[i] : i \in 1 .. Len(path)} BY <3>1 DEF ToSet
      <3>4. 1 .. Len(path) + 1 = (1 .. Len(path)) \union {Len(path) + 1} BY <3>1
      <3> QED BY <3>1, <3>2, <3>3, <3>4
    <2> HIDE DEF further, d
    <2>6. Names(ToSet(further)) = Names(ToSet(path)) \union {next} BY <2>3, <2>5 DEF Names
    <2>7. \A m \in {focus} \union ToSet(further) :
              m.parent \in Names(ToSet(further)) \union {None, k.parent} \union {}
      BY <1>1, <2>4, <2>5, <2>6
    <2>8. Climbing(focus, known, d) BY <2>2, <2>5, <2>7 DEF Climbing, Met
    <2> QED BY <2>8 DEF d
  <1> QED BY <1>2, <1>3, <1>4

(* The climb is the one its recursion describes. *)
LEMMA ClimbIs ==
    ASSUME NEW focus, NEW known
    PROVE  \E up :
              /\ Climb(focus, known) = up[MaxParents]
              /\ up[0] = [next |-> focus.parent, path |-> <<>>, missing |-> {}]
              /\ \A k \in 1 .. MaxParents : up[k] = Up(focus, known, up[k - 1])
  <1> DEFINE start == [next |-> focus.parent, path |-> <<>>, missing |-> {}]
             body(f) == [k \in 0 .. MaxParents |->
                           IF k = 0 THEN start ELSE Up(focus, known, f[k - 1])]
             up == CHOOSE f : f = body(f)
             Goes(f, n) == /\ f = [k \in 0 .. n |-> f[k]] /\ f[0] = start
                           /\ \A k \in 1 .. n : f[k] = Up(focus, known, f[k - 1])
             Bad == {n \in Nat : \A f : ~Goes(f, n)}
  <1>1. Climb(focus, known) = up[MaxParents] BY DEF Climb
  <1> HIDE DEF start
  <1>2. ASSUME Bad # {} PROVE FALSE
    <2>1. Bad \in SUBSET Nat OBVIOUS
    <2>2. PICK n \in Bad : \A k \in Bad : <<k, n>> \notin OpToRel(<, Nat)
      <3> HIDE DEF Bad
      <3> QED BY <1>2, <2>1, WFMin, NatLessThanWellFounded, Zenon
    <2>3. \A k \in Bad : ~(k < n)
      <3> HIDE DEF Bad
      <3> QED BY <2>1, <2>2, Zenon DEF OpToRel
    <2>4. n \in Nat /\ \A f : ~Goes(f, n) OBVIOUS
    <2>5. n # 0
      <3> DEFINE f == [k \in 0 .. 0 |-> start]
      <3>1. f = [k \in 0 .. 0 |-> f[k]] /\ f[0] = start OBVIOUS
      <3>2. Goes(f, 0)
        <4> HIDE DEF f
        <4> QED BY <3>1
      <3> HIDE DEF Goes, f
      <3> QED BY <2>4, <3>2
    <2>6. n - 1 \in Nat /\ n - 1 \notin Bad BY <2>3, <2>4, <2>5
    <2>7. PICK g : Goes(g, n - 1) BY <2>6
    <2> DEFINE f == [k \in 0 .. n |-> IF k = n THEN Up(focus, known, g[n - 1]) ELSE g[k]]
    <2>8. Goes(f, n)
      <3>1. f = [k \in 0 .. n |-> f[k]] OBVIOUS
      <3>2. f[0] = start BY <2>4, <2>5, <2>7
      <3>3. ASSUME NEW k \in 1 .. n PROVE f[k] = Up(focus, known, f[k - 1])
        <4>1. f[k - 1] = g[k - 1] BY <2>4
        <4>2. CASE k = n BY <2>4, <4>1, <4>2
        <4>3. CASE k # n
          <5>1. k \in 1 .. n - 1 /\ f[k] = g[k] BY <2>4, <4>3
          <5>2. g[k] = Up(focus, known, g[k - 1]) BY <2>7, <5>1
          <5> QED BY <4>1, <5>1, <5>2
        <4> QED BY <4>2, <4>3
      <3> HIDE DEF f
      <3> QED BY <3>1, <3>2, <3>3
    <2> HIDE DEF Goes, f
    <2> QED BY <2>4, <2>8
  <1>3. PICK f : Goes(f, MaxParents) BY <1>2, ParentAssumption
  <1>4. f = body(f)
    <2>1. f = [k \in 0 .. MaxParents |-> f[k]] BY <1>3
    <2>2. \A k \in 0 .. MaxParents : f[k] = IF k = 0 THEN start ELSE Up(focus, known, f[k - 1])
      BY <1>3, ParentAssumption
    <2> QED BY <2>1, <2>2
  <1>5. up = body(up)
    <2> HIDE DEF body
    <2> QED BY <1>4
  <1>6. up[0] = start /\ \A k \in 1 .. MaxParents : up[k] = Up(focus, known, up[k - 1])
    <2> HIDE DEF up
    <2>1. up[0] = start
      <3>1. body(up)[0] = start BY ParentAssumption
      <3> HIDE DEF body
      <3> QED BY <1>5, <3>1
    <2>2. ASSUME NEW k \in 1 .. MaxParents PROVE up[k] = Up(focus, known, up[k - 1])
      <3>1. body(up)[k] = Up(focus, known, up[k - 1]) BY ParentAssumption
      <3> HIDE DEF body
      <3> QED BY <1>5, <3>1
    <2> QED BY <2>1, <2>2
  <1> HIDE DEF up
  <1> QED BY <1>1, <1>6 DEF start

(* So what holds of every step up holds of the climb. *)
LEMMA ClimbClimbs ==
    ASSUME NEW focus, NEW known, \A n \in DOMAIN known : known[n].name = n
    PROVE  Climbing(focus, known, Climb(focus, known))
  <1>1. PICK up :
          /\ Climb(focus, known) = up[MaxParents]
          /\ up[0] = [next |-> focus.parent, path |-> <<>>, missing |-> {}]
          /\ \A k \in 1 .. MaxParents : up[k] = Up(focus, known, up[k - 1])
    BY ClimbIs
  <1> DEFINE Bad == {k \in 0 .. MaxParents : ~Climbing(focus, known, up[k])}
  <1>2. 0 \notin Bad
    <2>1. /\ DOMAIN up[0] = {"next", "path", "missing"} /\ up[0].next = focus.parent
          /\ up[0].path = <<>> /\ up[0].missing = {}
      BY <1>1
    <2>2. ToSet(<<>>) = {} BY DEF ToSet
    <2>3. <<>> \in Seq({known[n] : n \in DOMAIN known}) OBVIOUS
    <2>4. Climbing(focus, known, up[0]) BY <2>1, <2>2, <2>3 DEF Climbing
    <2> QED BY <2>4
  <1>3. ASSUME Bad # {} PROVE FALSE
    <2>1. Bad \in SUBSET Nat BY ParentAssumption
    <2>2. PICK n \in Bad : \A k \in Bad : <<k, n>> \notin OpToRel(<, Nat)
      <3> HIDE DEF Bad
      <3> QED BY <1>3, <2>1, WFMin, NatLessThanWellFounded, Zenon
    <2>3. \A k \in Bad : ~(k < n)
      <3> HIDE DEF Bad
      <3> QED BY <2>1, <2>2, Zenon DEF OpToRel
    <2>4. n \in 1 .. MaxParents /\ n - 1 \in 0 .. MaxParents /\ n - 1 < n
      BY <1>2, ParentAssumption
    <2>5. n - 1 \notin Bad BY <2>3, <2>4
    <2>6. Climbing(focus, known, up[n - 1]) BY <2>4, <2>5
    <2>7. up[n] = Up(focus, known, up[n - 1]) BY <1>1, <2>4
    <2>8. Climbing(focus, known, up[n]) BY <2>6, <2>7, UpClimbs
    <2> QED BY <2>8
  <1>4. Climbing(focus, known, up[MaxParents]) BY <1>3, ParentAssumption
  <1> QED BY <1>1, <1>4

-----------------------------------------------------------------------------
(* The units of a build.                                                    *)

(* A unit hides no gap, and quotes nothing that was deleted. *)
LEMMA UnitsAreHonest ==
    ASSUME NEW run, run.selection \subseteq Message,
           run.context # None => run.context \subseteq Message
    PROVE  \A u \in UnitsOf(run) :
              /\ Honest(u)
              /\ u.focus \in Message /\ ~Deleted(u.focus, run.ledger)
              /\ \A m \in u.quotes : m \in Message /\ ~Deleted(m, run.ledger)
  <1> DEFINE known == Known(run)
             Met == {known[n] : n \in DOMAIN known}
  <1>1. /\ \A n \in DOMAIN known :
              known[n].name = n /\ known[n] \in Message /\ ~Deleted(known[n], run.ledger)
        /\ \A m \in Indexed(run) : m.name \in DOMAIN known
    BY KnownIs
  <1>2. UnitsOf(run) = {UnitOf(known[m.name], known) : m \in Indexed(run)} BY DEF UnitsOf
  <1> HIDE DEF known
  <1>3. ASSUME NEW n \in DOMAIN known
        PROVE  LET u == UnitOf(known[n], known) IN
               /\ Honest(u)
               /\ u.focus \in Message /\ ~Deleted(u.focus, run.ledger)
               /\ \A m \in u.quotes : m \in Message /\ ~Deleted(m, run.ledger)
    <2> DEFINE focus == known[n]
               climb == Climb(focus, known)
               path == ToSet(climb.path)
               root == focus.thread
               u == UnitOf(focus, known)
    <2>1. Climbing(focus, known, climb) BY <1>1, ClimbClimbs
    <2>2. path \subseteq Met
      <3> DEFINE p == climb.path
      <3>1. p \in Seq(Met) BY <2>1 DEF Climbing
      <3> HIDE DEF p, Met
      <3>2. \A i \in DOMAIN p : p[i] \in Met BY <3>1
      <3> QED BY <3>2 DEF ToSet, p
    <2>3. \A m \in {focus} \union path :
              m.parent \in Names(path) \union {None, climb.next} \union climb.missing
      BY <2>1 DEF Climbing
    <2>4. focus \in Message /\ ~Deleted(focus, run.ledger) BY <1>1
    <2>5. /\ u.focus = focus
          /\ u.quotes = path \union IF root \in DOMAIN known /\ root # focus.name THEN {known[root]} ELSE {}
          /\ u.missing = climb.missing \union
                            IF root \notin DOMAIN known /\ focus.name # root THEN {root} ELSE {}
          /\ u.truncated = (climb.next # None)
      BY DEF UnitOf
    <2> HIDE DEF u, climb, focus, path, Met
    <2>6. \A m \in u.quotes : m \in Message /\ ~Deleted(m, run.ledger)
      BY <1>1, <2>2, <2>5 DEF Met
    <2>7. Honest(u)
      <3> SUFFICES ASSUME ContextComplete(u)
                   PROVE  /\ u.focus.name = u.focus.thread \/ u.focus.thread \in Names(u.quotes)
                          /\ \A m \in {u.focus} \union u.quotes :
                                m.name = m.thread \/ m.parent \in Names(u.quotes) \union {None}
        BY DEF Honest
      <3>1. u.missing = {} /\ ~u.truncated BY DEF ContextComplete
      <3>2. climb.next = None BY <2>5, <3>1
      <3>3. climb.missing = {} /\ (root \in DOMAIN known \/ focus.name = root) BY <2>5, <3>1
      <3>4. Names(path) \subseteq Names(u.quotes) BY <2>5 DEF Names
      <3>5. u.focus.name = u.focus.thread \/ u.focus.thread \in Names(u.quotes)
        <4>1. CASE focus.name = root BY <2>5, <4>1
        <4>2. CASE focus.name # root
          <5>1. known[root] \in u.quotes /\ known[root].name = root BY <1>1, <2>5, <3>3, <4>2
          <5> QED BY <2>5, <5>1 DEF Names
        <4> QED BY <4>1, <4>2
      <3>6. ASSUME NEW m \in {u.focus} \union u.quotes
            PROVE  m.name = m.thread \/ m.parent \in Names(u.quotes) \union {None}
        <4>1. CASE m \in {focus} \union path BY <2>3, <3>2, <3>3, <3>4, <4>1
        <4>2. CASE root \in DOMAIN known /\ m = known[root]
          <5>1. m \in Message /\ m.name = focus.thread BY <1>1, <4>2
          <5> QED BY <2>4, <5>1, ThreadAssumption
        <4> QED BY <2>5, <3>6, <4>1, <4>2
      <3> QED BY <3>5, <3>6
    <2> QED BY <2>4, <2>5, <2>6, <2>7 DEF u, focus
  <1> QED BY <1>1, <1>2, <1>3

(* The files of the corpus, beside the files of the other commands.         *)
CInv == IInv /\ CorpusHeld /\ CorpusReached

(* The other commands leave them alone. *)
LEMMA OthersHold ==
    ASSUME CInv, [Discover \/ Hydrate \/ AddTombstone \/ RegisterSources \/ ValidateSources
                    \/ ValidationFails \/ Crash]_vars
    PROVE  CorpusHeld' /\ CorpusReached'
  <1>1. DOMAIN disk = File /\ LocalsTyped BY DEF CInv, IInv, Typed, FilesTyped
  <1>2. disk'.staged = disk.staged /\ disk'.corpus = disk.corpus
    <2>1. CASE Discover
      BY <1>1, <2>1 DEF Discover, DiscoveryStep, StartDiscovery, ScanRecord, ScanLimit, SourceRead,
           SourceRefused, SourceUnreadable, DiscoveryBudget, PublishSelection,
           WriteSelectionManifest, File
    <2>2. CASE Hydrate
      BY <1>1, <2>2 DEF Hydrate, HydrationStep, StartHydration, SkipSource, HydrateRecord,
           HydrationLimit, SourceFails, HydrationBudget, SourceEnds, AllRead, PublishContext,
           PublishControls, PublishFails, Withhold, WriteHydrationManifest, PersistRegistry,
           RemoveCheckpoint, File
    <2>3. CASE \/ AddTombstone \/ RegisterSources \/ ValidateSources \/ ValidationFails
               \/ Crash \/ UNCHANGED vars
      BY <2>3 DEF AddTombstone, RegisterSources, ValidateSources, ValidationFails, Crash, vars
    <2> QED BY <2>1, <2>2, <2>3
  <1>3. UNCHANGED proc \/ proc'.cmd # "corpus"
    <2>1. proc.cmd = "discover" =>
            DOMAIN proc = {"cmd", "pc", "run", "at", "line", "kept", "scanned", "complete", "status"}
      BY <1>1 DEF LocalsTyped, DiscoveryLocals, Idle
    <2>2. proc.cmd = "hydrate" =>
            DOMAIN proc = {"cmd", "pc", "run", "complete", "status", "progress"}
      BY <1>1 DEF LocalsTyped, HydrationLocals, Idle
    <2>3. CASE Discover
      <3>1. CASE StartDiscovery BY <2>1, <3>1 DEF StartDiscovery
      <3>2. CASE ScanRecord BY <2>1, <3>2 DEF ScanRecord, Discovering, Idle
      <3>3. CASE ScanLimit BY <2>1, <3>3 DEF ScanLimit, Discovering, Idle
      <3>4. CASE SourceRead
        <4> DEFINE status == [proc.status EXCEPT ![Source] = Validated(Source)]
        <4>1. \/ proc' = [proc EXCEPT !.at = NextSource(@), !.line = 1, !.status = status]
              \/ proc' = Idle
          BY <3>4 DEF SourceRead
        <4>2. proc.cmd = "discover" BY <3>4 DEF SourceRead, Discovering
        <4> HIDE DEF status
        <4>3. CASE proc' = [proc EXCEPT !.at = NextSource(@), !.line = 1, !.status = status]
          <5>1. proc'.cmd = proc.cmd BY <2>1, <4>2, <4>3
          <5> QED BY <4>2, <5>1
        <4>4. CASE proc' = Idle BY <4>4 DEF Idle
        <4> QED BY <4>1, <4>3, <4>4
      <3>5. CASE SourceRefused BY <2>1, <3>5 DEF SourceRefused, Discovering, Idle
      <3>6. CASE SourceUnreadable BY <2>1, <3>6 DEF SourceUnreadable, Discovering, Idle
      <3>7. CASE DiscoveryBudget BY <2>1, <3>7 DEF DiscoveryBudget, Discovering, Idle
      <3>8. CASE PublishSelection BY <2>1, <3>8 DEF PublishSelection, Discovering, Idle
      <3>9. CASE WriteSelectionManifest BY <2>1, <3>9 DEF WriteSelectionManifest, Idle
      <3> QED BY <2>3, <3>1, <3>2, <3>3, <3>4, <3>5, <3>6, <3>7, <3>8, <3>9 DEF Discover, DiscoveryStep
    <2>4. CASE Hydrate
      <3>1. CASE StartHydration BY <2>2, <3>1 DEF StartHydration
      <3>2. CASE SkipSource BY <2>2, <3>2 DEF SkipSource, Reading, Hydrating
      <3>3. CASE HydrateRecord BY <2>2, <3>3 DEF HydrateRecord, Reading, Hydrating
      <3>4. CASE HydrationLimit BY <2>2, <3>4 DEF HydrationLimit, Reading, Hydrating, Stop
      <3>5. CASE SourceFails BY <2>2, <3>5 DEF SourceFails, Reading, Hydrating, Stop
      <3>6. CASE HydrationBudget BY <2>2, <3>6 DEF HydrationBudget, Hydrating, Stop
      <3>7. CASE SourceEnds BY <2>2, <3>7 DEF SourceEnds, Reading, Hydrating
      <3>8. CASE AllRead BY <2>2, <3>8 DEF AllRead, Hydrating
      <3>9. CASE PublishContext BY <2>2, <3>9 DEF PublishContext
      <3>10. CASE PublishControls BY <2>2, <3>10 DEF PublishControls
      <3>11. CASE PublishFails BY <2>2, <3>11 DEF PublishFails, Idle
      <3>12. CASE Withhold BY <2>2, <3>12 DEF Withhold
      <3>13. CASE WriteHydrationManifest BY <2>2, <3>13 DEF WriteHydrationManifest
      <3>14. CASE PersistRegistry BY <2>2, <3>14 DEF PersistRegistry, Idle
      <3>15. CASE RemoveCheckpoint BY <2>2, <3>15 DEF RemoveCheckpoint, Idle
      <3> QED BY <2>4, <3>1, <3>2, <3>3, <3>4, <3>5, <3>6, <3>7, <3>8, <3>9, <3>10, <3>11, <3>12, <3>13, <3>14, <3>15 DEF Hydrate, HydrationStep
    <2>5. CASE \/ AddTombstone \/ RegisterSources \/ ValidateSources \/ ValidationFails
               \/ Crash \/ UNCHANGED vars
      BY <2>5 DEF AddTombstone, RegisterSources, ValidateSources, ValidationFails, Crash, vars, Idle
    <2> QED BY <2>3, <2>4, <2>5
  <1>4. CorpusHeld' BY <1>2 DEF CInv, CorpusHeld
  <1>5. CorpusReached'
    <2>1. CASE UNCHANGED proc
      BY <1>2, <2>1 DEF CInv, CorpusReached
    <2>2. CASE proc'.cmd # "corpus" BY <2>2 DEF CorpusReached
    <2> QED BY <1>3, <2>1, <2>2
  <1> QED BY <1>4, <1>5

(* A build stages the units of its inputs, over those that were staged.     *)
LEMMA BuildHoldsCorpus ==
    ASSUME CInv, Build
    PROVE  CorpusHeld' /\ CorpusReached'
  <1>1. DOMAIN disk = File /\ LocalsTyped BY DEF CInv, IInv, Typed, FilesTyped
  <1>2. /\ disk.staged # None => \A u \in disk.staged : Honest(u)
        /\ disk.corpus # None => \A u \in disk.corpus : Honest(u)
    BY DEF CInv, CorpusHeld
  <1>3. proc.cmd = "corpus" =>
          /\ CorpusLocals /\ DOMAIN proc = {"cmd", "pc", "run", "found"}
          /\ proc.pc = "stage" => disk.staged = proc.found
          /\ proc.pc = "replace" /\ proc.found = None => disk.staged = UnitsOf(proc.run)
    BY <1>1 DEF LocalsTyped, CorpusLocals, Idle, CInv, CorpusReached
  <1>4. CASE StartCorpus
    <2>1. PICK shard \in {None, disk.context} :
            proc' = [cmd |-> "corpus", pc |-> "stage", run |-> CorpusRun(shard), found |-> disk.staged]
      BY <1>4 DEF StartCorpus
    <2>2. proc'.pc = "stage" /\ proc'.found = disk.staged BY <2>1
    <2>3. UNCHANGED disk BY <1>4 DEF StartCorpus
    <2> QED BY <1>2, <2>2, <2>3 DEF CorpusHeld, CorpusReached
  <1>5. CASE StageCorpus
    <2> DEFINE units == UnitsOf(proc.run)
               old == IF disk.staged = None THEN {} ELSE disk.staged
               kept == {u \in old : \A v \in units : u.focus # v.focus}
    <2>1. /\ proc.cmd = "corpus" /\ proc.pc = "stage"
          /\ disk' = [disk EXCEPT !.staged = units \union kept]
          /\ proc' = [proc EXCEPT !.pc = "replace"]
      BY <1>5 DEF StageCorpus, Building
    <2>2. \A u \in units : Honest(u)
      BY <1>3, <2>1, UnitsAreHonest DEF CorpusLocals
    <2>3. \A u \in kept : Honest(u) BY <1>2
    <2>4. disk.staged = None => units \union kept = units OBVIOUS
    <2> DEFINE staged == units \union kept
    <2> HIDE DEF kept
    <2>5. /\ disk'.staged = staged /\ disk'.corpus = disk.corpus
      BY <1>1, <2>1 DEF File
    <2>6. /\ proc'.cmd = "corpus" /\ proc'.pc = "replace" /\ proc'.found = proc.found
          /\ proc'.run = proc.run
      BY <1>3, <2>1
    <2>7. \A u \in staged : Honest(u) BY <2>2, <2>3
    <2> HIDE DEF units, staged
    <2>8. CorpusHeld' BY <1>2, <2>5, <2>7 DEF CorpusHeld
    <2>9. proc.found = None => staged = UnitsOf(proc.run)
      BY <1>3, <2>1, <2>4 DEF staged, units
    <2>10. CorpusReached' BY <2>5, <2>6, <2>9 DEF CorpusReached
    <2> QED BY <2>8, <2>10
  <1>6. CASE CorpusFails
    <2>1. /\ disk' = [disk EXCEPT !.staged = None] /\ proc' = Idle BY <1>6 DEF CorpusFails
    <2>2. disk'.staged = None /\ disk'.corpus = disk.corpus BY <1>1, <2>1 DEF File
    <2> QED BY <1>2, <2>1, <2>2 DEF CorpusHeld, CorpusReached, Idle
  <1>7. CASE ReplaceCorpus
    <2>1. /\ proc.cmd = "corpus" /\ proc' = [proc EXCEPT !.pc = "manifest"]
          /\ disk' = [disk EXCEPT !.corpus = disk.staged, !.staged = None]
      BY <1>7 DEF ReplaceCorpus, Building
    <2>2. disk'.staged = None /\ disk'.corpus = disk.staged BY <1>1, <2>1 DEF File
    <2>3. proc'.pc = "manifest" BY <1>3, <2>1
    <2> QED BY <1>2, <2>2, <2>3 DEF CorpusHeld, CorpusReached
  <1>8. CASE WriteCorpusManifest
    <2>1. /\ proc' = Idle
          /\ disk' = [disk EXCEPT !.corpusManifest = [run |-> proc.run, rows |-> disk.corpus]]
      BY <1>8 DEF WriteCorpusManifest
    <2>2. disk'.staged = disk.staged /\ disk'.corpus = disk.corpus BY <1>1, <2>1 DEF File
    <2> QED BY <1>2, <2>1, <2>2 DEF CorpusHeld, CorpusReached, Idle
  <1> QED BY <1>4, <1>5, <1>6, <1>7, <1>8 DEF Build, BuildStep

(* The invariant of the ingest files and of the corpus holds throughout.    *)
LEMMA CorpusInvariance == Spec => []CInv
  <1>1. Init => CInv
    <2> SUFFICES ASSUME Init PROVE CInv OBVIOUS
    <2>1. disk = NoFiles /\ proc = Idle BY DEF Init, IngestInit
    <2>2. disk.staged = None /\ disk.corpus = None /\ proc.cmd = "none" BY <2>1 DEF NoFiles, Idle
    <2> QED BY <2>2, Initially DEF CInv, CorpusHeld, CorpusReached
  <1>2. CInv /\ [Next]_vars => CInv'
    <2> SUFFICES ASSUME CInv, [Next]_vars PROVE CInv' OBVIOUS
    <2>1. IInv'
      BY DiscoverHolds, HydrateHolds, BuildHolds, OperatorHolds, StutterHolds DEF Next, CInv
    <2>2. CorpusHeld' /\ CorpusReached' BY OthersHold, BuildHoldsCorpus DEF Next
    <2> QED BY <2>1, <2>2 DEF CInv
  <1> QED BY <1>1, <1>2, PTL DEF Spec

(* CONTEXT IS HONEST, for any archives and any bound of the climb: a unit   *)
(* that does not say its context is missing quotes every ancestor.          *)
THEOREM ContextHonest == Spec => []ContextIsHonest
  <1>1. CInv => ContextIsHonest BY DEF CInv, CorpusHeld, ContextIsHonest, Honest
  <1> QED BY CorpusInvariance, <1>1, PTL

(* An absent file is told from any set of messages, and of units.           *)
NoneIsNoSet == \A S : S \subseteq Message \/ (\A u \in S : u.focus \in Message) => S # None

(* A CLEAN BUILD HOLDS NOTHING DELETED, for any archives, ledger and bound  *)
(* of the climb, as long as the mark of an absent file is no set: neither   *)
(* the messages of the rows nor the context they quote were deleted when    *)
(* the build began, whenever its inputs were written.                       *)
THEOREM CleanBuild == ASSUME NoneIsNoSet PROVE Spec => CleanBuildHoldsNothingDeleted
  <1>1. CInv /\ [Next]_vars
          => [(ReplaceCorpus /\ proc.found = None) =>
                /\ AllSuppliedClean(AuditTombstoneOutputs(disk', {"corpus_sqlite"}, proc.run.ledger))
                /\ \A u \in disk'.corpus : \A m \in u.quotes : ~Deleted(m, proc.run.ledger)]_vars
    <2> SUFFICES ASSUME CInv, ReplaceCorpus, proc.found = None
                 PROVE  /\ AllSuppliedClean(AuditTombstoneOutputs(disk', {"corpus_sqlite"}, proc.run.ledger))
                        /\ \A u \in disk'.corpus : \A m \in u.quotes : ~Deleted(m, proc.run.ledger)
      OBVIOUS
    <2> DEFINE units == UnitsOf(proc.run)
               records == proc.run.ledger
               report == AuditTombstoneOutputs(disk', {"corpus_sqlite"}, records)
               rows == {u.focus : u \in units}
    <2>1. /\ proc.cmd = "corpus" /\ proc.pc = "replace"
          /\ disk' = [disk EXCEPT !.corpus = disk.staged, !.staged = None]
      BY DEF ReplaceCorpus, Building
    <2>2. DOMAIN disk = File /\ CorpusLocals /\ disk.staged = units
      BY <2>1 DEF CInv, IInv, Typed, FilesTyped, LocalsTyped, Idle, CorpusReached
    <2>3. disk'.corpus = units BY <2>1, <2>2 DEF File
    <2>4. \A u \in units : /\ u.focus \in Message /\ ~Deleted(u.focus, records)
                           /\ \A m \in u.quotes : ~Deleted(m, records)
      BY <2>2, UnitsAreHonest DEF CorpusLocals
    <2> HIDE DEF units, records
    <2>5. units # None /\ rows # None BY <2>4 DEF NoneIsNoSet
    <2>6. Persisted(disk')["corpus_sqlite"] = rows
      BY <2>3, <2>5 DEF Persisted
    <2>7. Audited(rows, records).status = "clean"
      <3> DEFINE matched == {t \in records : \E m \in rows : Deleted(m, {t})}
      <3>1. \A m \in rows, t \in records : Deleted(m, {t}) => Deleted(m, records) BY DEF Deleted
      <3>2. matched = {} BY <2>4, <3>1
      <3> HIDE DEF rows
      <3> QED BY <2>5, <3>2 DEF Audited
    <2>8. report = [kind \in {"corpus_sqlite"} |-> Audited(Persisted(disk')[kind], records)]
      BY DEF AuditTombstoneOutputs
    <2> HIDE DEF rows, report
    <2>9. AllSuppliedClean(report) BY <2>6, <2>7, <2>8 DEF AllSuppliedClean
    <2> QED BY <2>3, <2>4, <2>9 DEF report, records
  <1> QED BY CorpusInvariance, <1>1, PTL DEF Spec, CleanBuildHoldsNothingDeleted
=============================================================================
