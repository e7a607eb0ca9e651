---------------------------- MODULE ArchiveCoverage ----------------------------
(***************************************************************************)
(* The audits of both kinds with what is derived from them: the rematch of *)
(* a retained index (archive_rematch.py) and the coverage of the exposed   *)
(* rows (archive_coverage.py).  Both accept a complete audit of partitions *)
(* only.                                                                   *)
(***************************************************************************)
EXTENDS SQLiteAudit, PartitionedAudit

Init == AuditInit

Published == [matches |-> store.matches, coverage |-> store.coverage,
              collisions |-> store.collisions]

(* Seeded fault: the files are those of the manifest because they are there. *)
ValidByManifest ==
    /\ Partitioned
    /\ store.manifest # None /\ store.manifest.complete

(* _validate_audit of either module: a complete manifest and its own files. *)
ValidAudit ==
    /\ Partitioned
    /\ store.manifest # None /\ store.manifest.complete
    /\ store.manifest.outputs = Published

(* The index has the partitions of a complete checkpoint, which is taken for *)
(* that of the manifest when their identities agree.                         *)
IndexVerified ==
    /\ store.checkpoint.complete
    /\ Files(store.index) # Files(NoIndex) /\ Files(store.index) = Files(store.checkpoint.index)

(* rematch_archive_audit: the index the checkpoint describes is matched      *)
(* again.                                                                    *)
Rematch ==
    /\ proc.cmd = "none"
    /\ ValidAudit
    /\ IndexVerified
    /\ proc' = [cmd |-> "rematch"]
    /\ store' = [store EXCEPT !.rematchFiles =
                   ReportOf(Files(store.index).rows, Sources, store.manifest.stats)]
    /\ UNCHANGED <<implementation, archive, faults>>

WriteRematchManifest ==
    /\ proc.cmd = "rematch"
    /\ proc' = Idle
    /\ store' = [store EXCEPT !.rematch = [audit |-> store.manifest, outputs |-> store.rematchFiles]]
    /\ UNCHANGED <<implementation, archive, faults>>

ValidRematch ==
    /\ store.rematch # None
    /\ store.rematch.audit = store.manifest
    /\ store.rematch.outputs = store.rematchFiles
    /\ store.rematch.outputs.collisions = {}

(* derive_archive_coverage, from the audit or from its rematch: exposed rows *)
(* with and without matches; an audit with collisions is refused.            *)
DeriveFrom(matches, from) ==
    store' = [store EXCEPT !.derived =
                [from |-> from, stats |-> store.manifest.stats, matches |-> matches,
                 unresolved |-> {r \in Rows : matches[r] = {}}]]

Derive ==
    /\ proc.cmd = "none"
    /\ ValidAudit
    /\ store.manifest.outputs.collisions = {}
    /\ \/ DeriveFrom(store.matches, "audit")
       \/ ValidRematch /\ DeriveFrom(store.rematch.outputs.matches, "rematch")
    /\ UNCHANGED <<implementation, archive, proc, faults>>

Start == StartSqlite \/ StartPartitioned

Step ==
    \/ SqliteStep
    \/ PartitionedStep
    \/ EndOfSource
    \/ AllOpened
    \/ FinalCheckpoint
    \/ PublishOutput
    \/ WriteManifest

(* The process ends.  A source whose fingerprint was another, or could not be *)
(* read, has lost its rows, but until the next checkpoint the old one names   *)
(* it, and a run that finds the old fingerprint again trusts it.              *)
Interrupted ==
    /\ Crash
    /\ store' = [store EXCEPT !.orphaned = @ \union Overdrawn]

Next ==
    \/ Start
    \/ StartUnreadable
    \/ Step
    \/ SourceReadError
    \/ SqliteBudget
    \/ PartitionedBudget
    \/ PartitionedRaise
    \/ PartitionedWithhold
    \/ Interrupted
    \/ ReplaceArchive
    \/ Rematch
    \/ WriteRematchManifest
    \/ Derive

(* An audit that was started goes on, and the operator runs it again. *)
Spec == Init /\ [][Next]_vars /\ WF_vars(Start) /\ WF_vars(Step)

-----------------------------------------------------------------------------
Stat(i) == [version : DOMAIN Content[i], complete : BOOLEAN]

(* The lines of a source, in any of its versions. *)
OwnLines(i) ==
    UNION {{<<n, Content[i][v][n]>> : n \in DOMAIN Content[i][v]} : v \in DOMAIN Content[i]}

IsIndex(index) ==
    /\ DOMAIN index = DOMAIN NoIndex /\ DOMAIN index.rows = Sources
    /\ \A i \in Sources :
        (Partitioned /\ index.rows[i] = None) \/ index.rows[i] \subseteq OwnLines(i)
    /\ index.staging = None \/ \E i \in Sources : index.staging \subseteq OwnLines(i)

IsStats(stats) ==
    /\ DOMAIN stats = Sources
    /\ \A i \in Sources : stats[i] = None \/ stats[i] \in Stat(i)

IsCompleted(completed, stats) ==
    completed \subseteq Sources /\ \A i \in completed : stats[i] \in Stat(i)

IsCheckpoint(c) ==
    /\ DOMAIN c = {"completed", "complete", "stats", "index"}
    /\ c.complete \in BOOLEAN
    /\ IsStats(c.stats) /\ IsCompleted(c.completed, c.stats)
    /\ IsIndex(c.index)

IsMatches(m) == m = None \/ m \in [Rows -> SUBSET (Sources \X Nat)]

IsCoverage(c) ==
    \/ c = None
    \/ /\ DOMAIN c = Sources
       /\ \A i \in Sources : c[i] = None \/ c[i] \in [stat : Stat(i), matched : Nat]

IsCollisions(s) == s = None \/ s \subseteq Identity

IsReport(o) ==
    /\ DOMAIN o = ToSet(Outputs)
    /\ IsMatches(o.matches) /\ IsCoverage(o.coverage) /\ IsCollisions(o.collisions)

IsManifest(m) ==
    /\ DOMAIN m = {"complete", "stats", "outputs"}
    /\ m.complete \in BOOLEAN /\ IsStats(m.stats) /\ IsReport(m.outputs)

IsRematch(m) ==
    /\ DOMAIN m = {"audit", "outputs"}
    /\ IsManifest(m.audit) /\ IsReport(m.outputs)

IsDerived(d) ==
    /\ DOMAIN d = {"from", "stats", "matches", "unresolved"}
    /\ d.from \in {"audit", "rematch"} /\ IsStats(d.stats) /\ IsMatches(d.matches)
    /\ d.unresolved \subseteq Rows

(* The index, without which there is no checkpoint and no manifest, and what *)
(* is published.                                                             *)
IsKept ==
    /\ {store.index, store.checkpoint, store.manifest} = {None} \/ IsIndex(store.index)
    /\ store.checkpoint = None \/ IsCheckpoint(store.checkpoint)

IsPublished ==
    /\ store.manifest = None \/ IsManifest(store.manifest)
    /\ IsMatches(store.matches) /\ IsCoverage(store.coverage) /\ IsCollisions(store.collisions)
    /\ store.rematchFiles = None \/ IsReport(store.rematchFiles)
    /\ store.rematch = None \/ IsRematch(store.rematch)
    /\ store.derived = None \/ IsDerived(store.derived)

(* The source being read, and the results of the run. *)
IsScan ==
    /\ proc.at \in Nat \ {0} /\ proc.line \in Nat
    /\ proc.version = None \/ proc.version \in DOMAIN Content[proc.at]
    /\ proc.rows = {} \/ proc.rows \subseteq OwnLines(proc.at)

IsResult ==
    /\ proc.active = None \/ proc.active \in Sources
    /\ IsStats(proc.stats) /\ IsCompleted(proc.completed, proc.stats)
    /\ (proc.report = None /\ proc.pc \notin {"publish", "manifest"}) \/ IsReport(proc.report)

IsSeen ==
    /\ DOMAIN proc.seen = Sources
    /\ \A i \in Sources : proc.seen[i] \subseteq DOMAIN Content[i]

IsAudit ==
    /\ DOMAIN proc = DOMAIN Began({}, NoStats)
    /\ proc.pc \in {"open", "scan", "ended", "checkpoint", "flush", "final", "report",
                    "publish", "manifest"}
    /\ proc.used \in Nat /\ proc.out \in 1 .. 3
    /\ proc.errors \in BOOLEAN /\ proc.exhausted \in BOOLEAN
    /\ IsScan /\ IsResult /\ IsSeen
    /\ IsIndex(store.index)

(* The types of the state.  Besides, a checkpoint names no source it has no  *)
(* statistics of; the rows or the directory of a source never hold a line    *)
(* that is not its own, in the index and in the index a checkpoint stands    *)
(* for (archive_audit.py:446-500, archive_partitioned.py:517-600).           *)
TypeOK ==
    /\ implementation \in {"sqlite", "partitioned"}
    /\ DOMAIN archive = Sources /\ \A i \in Sources : archive[i] \in DOMAIN Content[i]
    /\ faults \in 0 .. MaxFaults
    /\ DOMAIN store = DOMAIN NoStore
    /\ IsKept /\ IsPublished
    /\ store.orphaned \subseteq Sources /\ store.doubtful \in BOOLEAN
    /\ \/ proc = Idle
       \/ proc.cmd = "audit" /\ IsAudit
       \/ proc = [cmd |-> "rematch"] /\ IsManifest(store.manifest) /\ IsReport(store.rematchFiles)

(* The lines of source i, in the version its statistics name, that hold one  *)
(* of the identities of row r.                                               *)
Occurrences(stats, r) ==
    UNION {{<<i, n>> : n \in {k \in DOMAIN LinesOf(i, stats) : LinesOf(i, stats)[k] \in Exposed[r]}} :
             i \in Sources}

(* A COMPLETE AUDIT IS EXACT.  Whatever interruptions and resumed runs came  *)
(* before it, a complete audit reports for each exposed row the lines of all *)
(* archives that hold it and no other, in the version of each archive it     *)
(* names the fingerprint of (archive_audit.py:219-277, 446-577, 642;         *)
(* archive_partitioned.py:430-464, 517-655, 691), also where archives were   *)
(* replaced and put back between the runs.  The exception is open: the       *)
(* single index of archive_audit.py lost the rows of a source to a run that  *)
(* found another fingerprint or none (258, 331-340) and was killed before    *)
(* its next checkpoint, and the audit trusted the old one.                   *)
CompleteAuditIsExact ==
    (store.manifest # None /\ store.manifest.complete /\ ~store.doubtful) =>
        \A r \in Rows :
            store.manifest.outputs.matches[r] = Occurrences(store.manifest.stats, r)

(* A COMPLETE AUDIT IS FRESH.  A complete manifest names each archive in a   *)
(* version that was on disk when the run that published it began, or came    *)
(* since: what an earlier run indexed of an archive that was replaced        *)
(* meanwhile, and not put back, is not used                                  *)
(* (archive_audit.py:240-261, archive_partitioned.py:441-452).               *)
CompleteAuditIsFresh ==
    [][(WriteManifest /\ store'.manifest.complete) =>
         \A i \in Sources : store'.manifest.stats[i].version \in proc.seen[i]]_vars

(* COVERAGE IS OF ITS AUDIT.  Coverage derived from an audit calls a row     *)
(* unresolved only when no archive held it in the version the audit names,   *)
(* even where a later run had begun to replace the files of that audit       *)
(* (archive_coverage.py:138-200, 324-360).                                   *)
CoverageIsOfItsAudit ==
    (store.derived # None /\ store.derived.from = "audit") =>
        \A r \in Rows :
            r \in store.derived.unresolved <=> Occurrences(store.derived.stats, r) = {}

(* Nothing to reject in what is on disk. *)
Healthy ==
    /\ \A i \in Sources :
        /\ Expected[i] \in {None, archive[i]}
        /\ ToSet(Content[i][archive[i]]) \subseteq Identity
    /\ FoldSet(LAMBDA i, n : n + Len(Content[i][archive[i]]), 0, Sources) <= MaxRecords

(* The next run is refused: the index is not that of a checkpoint. *)
Refused ==
    /\ proc.cmd = "none"
    /\ \/ store.checkpoint = None /\ store.index \notin {None, NoIndex}
       \/ Partitioned /\ store.checkpoint # None /\ Files(Index) # Files(store.checkpoint.index)

(* AN INTERRUPTED AUDIT FINISHES.  Once the archives are sound and are no    *)
(* longer replaced, an audit that is run again after each failure is, time   *)
(* and again, a complete audit of those very archives, unless a run was      *)
(* killed where the next one refuses its index (archive_partitioned.py:      *)
(* 431-438, archive_audit.py:275-278), or a rematch never ends.              *)
AuditFinishes ==
    (<>[]Healthy /\ <>[][FALSE]_archive) =>
        []<>(\/ Refused
             \/ proc.cmd = "rematch"
             \/ /\ store.manifest # None /\ store.manifest.complete
                /\ \A i \in Sources : store.manifest.stats[i].version = archive[i])
=============================================================================
