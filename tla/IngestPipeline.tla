---------------------------- MODULE IngestPipeline ----------------------------
(***************************************************************************)
(* The ingest commands together: discovery, hydration and the corpus build *)
(* read each other's files, the operator adds deletions between two        *)
(* commands, and a command may fail or be killed at any step.              *)
(***************************************************************************)
EXTENDS Discovery, Hydration, CorpusBuild

Init == IngestInit

Next ==
    \/ Discover
    \/ Hydrate
    \/ Build
    \/ AddTombstone
    \/ RegisterSources
    \/ ValidateSources
    \/ ValidationFails
    \/ Crash

(* A started command takes its next step, and the operator runs an           *)
(* interrupted hydration again; discovery may never be asked for.            *)
Step == DiscoveryStep \/ HydrationStep \/ BuildStep

Spec == Init /\ [][Next]_vars /\ WF_vars(StartHydration) /\ WF_vars(Step)

-----------------------------------------------------------------------------
Progress ==
    [at : 1 .. Len(Archive) + 1, line : Nat, count : [DOMAIN NoCount -> Nat],
     reports : Seq([status : {"read", "skipped"}, count : [DOMAIN NoCount -> Nat]]),
     context : SUBSET Message, contextCandidates : Nat,
     controls : SUBSET Message, controlCandidates : Nat,
     fromContextOnly : Nat, scanned : Nat, tombstoned : Nat]

(* The types of the state, and the bounds of what is retained: no pass of    *)
(* discovery or hydration holds more messages than its target.               *)
TypeOK ==
    /\ registry \in [Sources -> Status]
    /\ ledger \subseteq Tombstone
    /\ faults \in 0 .. MaxFaults
    /\ proc.cmd \in {"none", "discover", "hydrate", "corpus"}
    /\ disk.selection # None => disk.selection \subseteq Message
    /\ proc.cmd = "discover" => Cardinality(proc.kept) <= Target
    /\ proc.cmd = "hydrate" =>
        /\ proc.progress \in Progress
        /\ Cardinality(proc.progress.context) <= MaxContext
        /\ Cardinality(proc.progress.controls) <= ControlTarget

(* A place is a line of a source; the archives are read in this order.       *)
At(p) == Lines(p[1])[p[2]]
Earlier(p, q) == p[1] < q[1] \/ (p[1] = q[1] /\ p[2] < q[2])

Places(sources) == UNION {{i} \X DOMAIN Lines(i) : i \in sources}
RecordsOf(sources) == {p \in Places(sources) : At(p) # Quarantined}
MessagesOf(sources) == {p \in Places(sources) : At(p) \in Message}

NamesAt(P) == {At(p).name : p \in P}

(* Of each name the message that is met first. *)
FirstMet(P) == {At(p) : p \in {q \in P : \A o \in P : At(o).name = At(q).name => ~Earlier(o, q)}}

(* The n lowest-ranked names of those met at the places P. *)
Lowest(P, rank, n) ==
    {m \in FirstMet(P) : Cardinality({c \in NamesAt(P) : rank[c] < rank[m.name]}) < n}

Undeleted(P, run) == {p \in P : ~Deleted(At(p), run.ledger)}

(* DISCOVERY SELECTS THE LOWEST RANKS.  A published selection whose scan     *)
(* reached the end of every source holds the Target lowest-ranked messages   *)
(* the rules select, whatever the order of the archives: a message deleted   *)
(* when the run began is not among them (pilot.py:153-222, shard.py:116).    *)
SelectionIsLowest ==
    (disk.selectionManifest # None /\ disk.selectionManifest.complete) =>
        LET found == Undeleted(MessagesOf(DiscoverySources), disk.selectionManifest.run) IN
        disk.selectionManifest.rows =
            Lowest({p \in found : At(p).name \in Topic}, Rank, Target)

(* HYDRATION RESUMES WITHOUT A TRACE.  Whatever failures and restarts came   *)
(* before, the shards and the counters of a complete run that read every     *)
(* source are those of one uninterrupted pass: no record is lost at a        *)
(* checkpoint, and none is counted or offered twice (hydration.py:196,       *)
(* 377-400, 425-560).                                                        *)
HydrationResumes ==
    LET manifest == disk.hydrationManifest IN
    (/\ manifest # None /\ manifest.complete
     /\ \A i \in DOMAIN manifest.progress.reports :
            manifest.progress.reports[i].status = "read") =>
        LET run == manifest.run
            done == manifest.progress
            live == Undeleted(MessagesOf(Sources), run)
            other == {p \in live : At(p).name \notin Names(Selected(run))}
            offered == {p \in other : At(p).thread \in Threads(run)}
        IN Selected(run) # {} =>
            /\ disk.context = Selected(run) \union Lowest(offered, Rank, MaxContext)
            /\ disk.controls = Lowest(other \ offered, ControlRank, ControlTarget)
            /\ done.contextCandidates = Cardinality(offered)
            /\ done.tombstoned = Cardinality(run.selection \ Selected(run))
                                   + Cardinality(MessagesOf(Sources) \ live)
            /\ done.scanned = Cardinality(RecordsOf(Sources))
            /\ \A i \in Sources : done.reports[i].count.processed = Cardinality(RecordsOf({i}))

(* CONTEXT IS HONEST.  A unit that does not say its context is missing       *)
(* quotes every ancestor of its message, up to the thread's first message:   *)
(* a missing parent, a cycle of parents and a chain that was cut all leave a  *)
(* mark (hydrate.py:37-75, units.py:45).                                     *)
ContextIsHonest ==
    disk.corpus # None =>
        \A u \in disk.corpus : ContextComplete(u) =>
            /\ u.focus.name = u.focus.thread \/ u.focus.thread \in Names(u.quotes)
            /\ \A m \in {u.focus} \union u.quotes :
                m.name = m.thread \/ m.parent \in Names(u.quotes) \union {None}

(* A CLEAN BUILD HOLDS NOTHING DELETED.  After a build that found no staging *)
(* database the tombstone audit calls the corpus clean for the ledger of the *)
(* run; and, what the audit does not look at, no unit quotes a message that  *)
(* was deleted when the build began, even where the shard of context was     *)
(* written before the deletion (baseline.py:117-150, invalidation.py:290).   *)
CleanBuildHoldsNothingDeleted ==
    [][(ReplaceCorpus /\ proc.found = None) =>
         /\ AllSuppliedClean(AuditTombstoneOutputs(disk', {"corpus_sqlite"}, proc.run.ledger))
         /\ \A u \in disk'.corpus : \A m \in u.quotes : ~Deleted(m, proc.run.ledger)]_vars

(* AN INTERRUPTED HYDRATION FINISHES.  Once a selection is there, a          *)
(* hydration that is run again after each failure ends with a complete       *)
(* manifest; unless it is refused for good, because shards are left without  *)
(* a manifest, or a run of another ledger or of a record limit that is too   *)
(* small left its files (hydration.py:308-350).  A run that skips a source   *)
(* registered as failed finishes too, without the records of that source     *)
(* (hydration.py:483-509): its manifest reports the skip.                    *)
Refused ==
    /\ proc.cmd = "none"
    /\ \/ disk.selection = {}
       \/ disk.hydrationManifest = None /\ (disk.context # None \/ disk.controls # None)
       \/ \E file \in {disk.checkpoint, disk.hydrationManifest} \ {None} :
            \/ file.run.ledger # ledger
            \/ file.run.limit < Cardinality(Places(Sources))

HydrationFinishes ==
    disk.selection # None ~>
        \/ Refused
        \/ disk.hydrationManifest # None /\ disk.hydrationManifest.complete

(* What the build says of itself (baseline.py:82): the corpus is atomic, the *)
(* units of its inputs and nothing else.                                     *)
CorpusIsItsInputs ==
    disk.corpusManifest # None => disk.corpus = UnitsOf(disk.corpusManifest.run)
=============================================================================
