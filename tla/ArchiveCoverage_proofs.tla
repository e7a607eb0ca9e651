------------------------ MODULE ArchiveCoverage_proofs ------------------------
(***************************************************************************)
(* Theorems about the archive audits and what is derived from them, for    *)
(* any archives and versions of them, any exposed rows, any limit on the   *)
(* records and any number of failures.                                     *)
(***************************************************************************)
EXTENDS ArchiveCoverage, FiniteSetTheorems, WellFoundedInduction, TLAPS

(* The messages an implementation keeps, and the rows of the first lines of *)
(* an archive, or of all of them, when only those messages are kept.        *)
Keep == IF Sqlite THEN Identity ELSE Targets

(* The rows of the first n lines of version v of archive i.                 *)
Upto(keep, i, v, n) ==
    {<<k, Content[i][v][k]>> : k \in {l \in 1 .. n : Content[i][v][l] \in keep}}

(* The rows of all its lines.                                               *)
All(keep, i, v) == Upto(keep, i, v, Len(Content[i][v]))

(* The fields of the records of the state. *)
StoreFields == {"index", "checkpoint", "manifest", "matches", "coverage", "collisions",
                "rematchFiles", "rematch", "derived", "orphaned", "doubtful"}

(* The locals of an audit.                                                  *)
RunFields == {"cmd", "pc", "at", "version", "line", "rows", "used", "errors", "exhausted",
              "active", "completed", "stats", "out", "report", "seen"}

(* The steps of a run at a source, and those after its checkpoint was due.  *)
Reading == {"scan", "ended"}
OfSource == Reading \union {"checkpoint", "flush"}
Saved == {"flush", "report", "publish", "manifest"}

(* An index has rows for every source, and a staging area.                  *)
IndexShape(index) ==
    DOMAIN index = {"rows", "staging"} /\ DOMAIN index.rows = Sources

(* Sources have been completed in one of their versions.                    *)
Known(completed, stats) ==
    /\ completed \subseteq Sources
    /\ DOMAIN stats = Sources
    /\ \A i \in completed : stats[i] \in Stat(i)

(* Types of what outlives a command: archives, files, faults.               *)
Typed ==
    /\ implementation \in {"sqlite", "partitioned"}
    /\ DOMAIN archive = Sources
    /\ \A i \in Sources : archive[i] \in DOMAIN Content[i]
    /\ faults \in 0 .. MaxFaults
    /\ DOMAIN store = StoreFields
    /\ store.orphaned \subseteq Sources /\ store.doubtful \in BOOLEAN
    /\ store.index # None => IndexShape(store.index)
    /\ store.checkpoint # None =>
        IndexShape(store.index) /\ Known(store.checkpoint.completed, store.checkpoint.stats)

(* Types of what an audit holds.                                            *)
RunTyped ==
    /\ proc.cmd \in {"none", "audit", "rematch"}
    /\ proc.cmd = "audit" =>
        /\ DOMAIN proc = RunFields
        /\ proc.pc \in {"open", "final", "report", "publish", "manifest"} \union OfSource
        /\ IndexShape(store.index)
        /\ proc.at \in Nat \ {0}
        /\ proc.used \in Nat
        /\ proc.errors \in BOOLEAN /\ proc.exhausted \in BOOLEAN
        /\ proc.out \in 1 .. 3
        /\ Known(proc.completed, proc.stats)
        /\ DOMAIN proc.seen = Sources
        /\ \A i \in Sources : archive[i] \in proc.seen[i]
        /\ \A i \in proc.completed : proc.stats[i].version \in proc.seen[i]

(* The source being read. *)
SourceHeld ==
    (proc.cmd = "audit" /\ proc.pc \in OfSource) =>
        /\ proc.at \in Sources
        /\ proc.version \in DOMAIN Content[proc.at]
        /\ proc.version \in proc.seen[proc.at]

(* What has been read of it. *)
ReadSoFar ==
    (proc.cmd = "audit" /\ proc.pc \in Reading) =>
        /\ proc.at \notin proc.completed
        /\ proc.line \in 0 .. Len(Text)
        /\ proc.pc = "scan" => proc.rows = Upto(Keep, proc.at, proc.version, proc.line)
        /\ (proc.pc = "ended" /\ ~proc.errors /\ ~proc.exhausted) =>
             proc.rows = All(Keep, proc.at, proc.version)
        /\ Partitioned => store.index.staging = proc.rows

(* A source that is not completed ends the scan. *)
ActiveHeld ==
    proc.cmd = "audit" =>
        /\ proc.pc \in {"open"} \union Reading => proc.active = None
        /\ proc.pc \in {"checkpoint", "flush"} =>
             proc.active = None \/ (proc.active = proc.at /\ proc.at \notin proc.completed)
        /\ proc.pc = "flush" => proc.active # None

(* The rows of sources are those of the versions that their statistics name. *)
RowsAre(rows, completed, stats) ==
    \A i \in completed : rows[i] = All(Keep, i, stats[i].version)

(* While an audit runs, the index has all rows of the sources it completed, *)
(* but of those a checkpoint was left with without them.                    *)
IndexHeld ==
    proc.cmd = "audit" =>
        RowsAre(store.index.rows, proc.completed \ store.orphaned, proc.stats)

(* The checkpoint is that of the run. *)
CheckpointIsOwn ==
    (proc.cmd = "audit" /\ proc.pc \in Saved /\ store.checkpoint # None) =>
        /\ store.checkpoint.completed = proc.completed
        /\ \A i \in proc.completed : store.checkpoint.stats[i] = proc.stats[i]

(* Of the sources the checkpoint names the index has all rows, or this run  *)
(* deleted them, or a run did that was killed.                              *)
SqliteCheckpointHeld ==
    (Sqlite /\ store.checkpoint # None) =>
        \A i \in store.checkpoint.completed \ store.orphaned :
            \/ store.index.rows[i] = All(Keep, i, store.checkpoint.stats[i].version)
            \/ i \in Overdrawn

(* The partitioned checkpoint carries the index it stands for.              *)
PartitionedCheckpointHeld ==
    (Partitioned /\ store.checkpoint # None) =>
        RowsAre(store.checkpoint.index.rows, store.checkpoint.completed, store.checkpoint.stats)

(* Only the SQLite audit leaves an index that outlived its checkpoint.      *)
OrphanedIsSqlite == (store.orphaned # {} \/ store.doubtful) => Sqlite

(* A report that covers all sources counts every row where it is.           *)
ReportExact ==
    (/\ proc.cmd = "audit" /\ proc.pc \in {"publish", "manifest"}
     /\ ~proc.exhausted /\ store.orphaned = {} /\ proc.completed = Sources) =>
        \A r \in Rows : proc.report.matches[r] = Occurrences(proc.stats, r)

(* The invariant: of the run, of its files, of what was published, and all  *)
(* of it.                                                                   *)
RunHeld == SourceHeld /\ ReadSoFar /\ ActiveHeld

StoreHeld ==
    /\ IndexHeld
    /\ CheckpointIsOwn
    /\ SqliteCheckpointHeld
    /\ PartitionedCheckpointHeld
    /\ OrphanedIsSqlite

PublishedHeld == ReportExact /\ CompleteAuditIsExact /\ CoverageIsOfItsAudit

IInv == Typed /\ RunTyped /\ RunHeld /\ StoreHeld /\ PublishedHeld

-----------------------------------------------------------------------------
(* The archives. *)

(* The sources are numbered from one.                                       *)
LEMMA SourcesType == Sources \subseteq Nat \ {0}
  BY ContentAssumption DEF Sources

(* A source has versions, the first of them among them.                     *)
LEMMA VersionsType ==
    ASSUME NEW i \in Sources
    PROVE  DOMAIN Content[i] = 1 .. Len(Content[i]) /\ Len(Content[i]) \in Nat /\ 1 \in DOMAIN Content[i]
<1>1. Content[i] \in Seq(Seq(Identity \union {Malformed, Quarantined}))
  BY ContentAssumption DEF Sources
<1> QED
  BY <1>1, ContentAssumption

(* A version is a sequence of lines.                                        *)
LEMMA LinesType ==
    ASSUME NEW i \in Sources, NEW v \in DOMAIN Content[i]
    PROVE  /\ Content[i][v] \in Seq(Identity \union {Malformed, Quarantined})
           /\ DOMAIN Content[i][v] = 1 .. Len(Content[i][v])
           /\ Len(Content[i][v]) \in Nat
<1>1. Content[i] \in Seq(Seq(Identity \union {Malformed, Quarantined}))
  BY ContentAssumption DEF Sources
<1>2. Content[i][v] \in Seq(Identity \union {Malformed, Quarantined})
  BY <1>1
<1> QED
  BY <1>2

(* The next source is one that has not been completed. *)
LEMMA ToOpenType ==
    ASSUME Pending # {}
    PROVE  ToOpen \in Sources /\ ToOpen \notin proc.completed
<1>1. Pending \subseteq Nat
  BY SourcesType DEF Pending
<1>2. PICK x \in Pending : \A y \in Pending : <<y, x>> \notin OpToRel(<, Nat)
  BY <1>1, WFMin, NatLessThanWellFounded, Zenon
<1>3. \A y \in Pending : x <= y
  <2>1. \A y \in Pending : ~(y < x)
    BY <1>1, <1>2, Zenon DEF OpToRel
  <2> QED
    BY <1>1, <2>1
<1>4. ToOpen \in Pending
  BY <1>3, Zenon DEF ToOpen
<1> QED
  BY <1>4 DEF Pending

(* The number of lines a resumed run has counted. *)
LEMMA UsedType ==
    ASSUME NEW completed \in SUBSET Sources, NEW stats,
           \A i \in completed : stats[i] \in Stat(i)
    PROVE  Cardinality(UNION {{i} \X (DOMAIN LinesOf(i, stats)) : i \in completed}) \in Nat
<1> DEFINE Of(i) == {i} \X (DOMAIN LinesOf(i, stats))
           f == [i \in completed |-> Of(i)]
           T == {Of(i) : i \in completed}
<1>1. IsFiniteSet(completed)
  <2>1. IsFiniteSet(Sources)
    BY FS_Interval, ContentAssumption DEF Sources
  <2> QED
    BY <2>1, FS_Subset
<1>2. f \in Surjection(completed, T)
  BY DEF Surjection
<1>3. IsFiniteSet(T)
  BY <1>1, <1>2, FS_Surjection
<1>4. ASSUME NEW i \in completed
      PROVE  IsFiniteSet(Of(i))
  <2>1. stats[i].version \in DOMAIN Content[i] /\ i \in Sources
    BY DEF Stat
  <2>2. DOMAIN LinesOf(i, stats) = 1 .. Len(LinesOf(i, stats)) /\ Len(LinesOf(i, stats)) \in Nat
    BY <2>1, LinesType DEF LinesOf
  <2>3. IsFiniteSet(1 .. Len(LinesOf(i, stats)))
    BY <2>2, FS_Interval
  <2>4. IsFiniteSet({i})
    BY FS_Singleton, Zenon
  <2> QED
    BY <2>2, <2>3, <2>4, FS_Product
<1>5. IsFiniteSet(UNION T)
  BY <1>3, <1>4, FS_UNION
<1> QED
  BY <1>5, FS_CardinalityType

(* A row more. *)
LEMMA UptoStep ==
    ASSUME NEW keep, NEW i \in Sources, NEW v \in DOMAIN Content[i],
           NEW n \in Nat, n < Len(Content[i][v])
    PROVE  /\ Content[i][v][n + 1] \in keep =>
                 Upto(keep, i, v, n + 1) = Upto(keep, i, v, n) \union {<<n + 1, Content[i][v][n + 1]>>}
           /\ Content[i][v][n + 1] \notin keep => Upto(keep, i, v, n + 1) = Upto(keep, i, v, n)
<1>1. 1 .. n + 1 = (1 .. n) \union {n + 1}
  OBVIOUS
<1> QED
  BY <1>1 DEF Upto

(* No line, no row.                                                         *)
LEMMA UptoNone ==
    ASSUME NEW keep, NEW i, NEW v
    PROVE  Upto(keep, i, v, 0) = {}
  BY DEF Upto

(* The rows of an archive are not the mark of a directory that is missing. *)
LEMMA AllIsHeld ==
    ASSUME NEW keep, keep \subseteq Identity, NEW i \in Sources, NEW v \in DOMAIN Content[i]
    PROVE  All(keep, i, v) # None
<1>1. All(keep, i, v) \in SUBSET ((DOMAIN Content[i][v]) \X Identity)
  BY LinesType DEF All, Upto
<1> QED
  BY <1>1, NoneAssumption

(* An audit keeps at least what it is asked about.                          *)
LEMMA KeepType == Keep \subseteq Identity /\ Targets \subseteq Keep
  BY ExposedAssumption DEF Keep

(* An index that has all rows of all sources finds what there is. *)
LEMMA MatchedIsExact ==
    ASSUME NEW rows, NEW stats, NEW r \in Rows, NEW keep, Targets \subseteq keep,
           \A i \in Sources : stats[i] \in Stat(i),
           \A i \in Sources : rows[i] = All(keep, i, stats[i].version)
    PROVE  Matched(rows, Sources, r) = Occurrences(stats, r)
<1>1. Exposed[r] \subseteq keep
  BY DEF Targets
<1> DEFINE Lines(i) == LinesOf(i, stats)
           Hits(i) == {k \in DOMAIN Lines(i) : Lines(i)[k] \in Exposed[r]}
<1>2. ASSUME NEW i \in Sources
      PROVE  {<<i, hit[1]>> : hit \in {h \in rows[i] : h[2] \in Exposed[r]}}
               = {<<i, n>> : n \in Hits(i)}
  <2>1. stats[i].version \in DOMAIN Content[i]
    BY DEF Stat
  <2>2. DOMAIN Lines(i) = 1 .. Len(Lines(i))
    BY <2>1, LinesType DEF LinesOf
  <2> HIDE DEF Lines
  <2>3. rows[i] = {<<k, Lines(i)[k]>> : k \in {l \in DOMAIN Lines(i) : Lines(i)[l] \in keep}}
    BY <2>2 DEF All, Upto, LinesOf, Lines
  <2>4. {h \in rows[i] : h[2] \in Exposed[r]} = {<<k, Lines(i)[k]>> : k \in Hits(i)}
    BY <2>3, <1>1
  <2> HIDE DEF Hits
  <2>5. \A h \in {h \in rows[i] : h[2] \in Exposed[r]} : h[1] \in Hits(i)
    BY <2>4
  <2>6. ASSUME NEW n \in Hits(i)
        PROVE  \E h \in {h \in rows[i] : h[2] \in Exposed[r]} : h[1] = n
    <3>1. <<n, Lines(i)[n]>> \in {h \in rows[i] : h[2] \in Exposed[r]}
      BY <2>4
    <3> QED
      BY <3>1
  <2> QED
    BY <2>5, <2>6
<1>3. Matched(rows, Sources, r) = UNION {{<<i, n>> : n \in Hits(i)} : i \in Sources}
  BY <1>2 DEF Matched
<1> QED
  BY <1>3 DEF Occurrences

(* A source that a run may keep was completed in the version that is there. *)
LEMMA ResumableIsKnown ==
    ASSUME NEW checkpoint, Known(checkpoint.completed, checkpoint.stats),
           NEW i \in Resumable(checkpoint)
    PROVE  i \in checkpoint.completed /\ checkpoint.stats[i].version = archive[i]
<1>1. i \in 1 .. i /\ 1 .. i \subseteq Fresh(checkpoint)
  BY SourcesType DEF Resumable
<1> QED
  BY <1>1 DEF Fresh

-----------------------------------------------------------------------------
(* The steps of a run that leave the files alone (archive_audit.py:446-577, *)
(* archive_partitioned.py:517-655).                                         *)

(* Before any command the invariant holds: there is no file and no run.     *)
LEMMA InitHolds == Init => IInv
<1> SUFFICES ASSUME Init PROVE IInv
  OBVIOUS
<1>1. Typed
  BY VersionsType, BoundAssumption DEF Init, AuditInit, NoStore, Typed, StoreFields
<1> QED
  BY <1>1 DEF Init, AuditInit, NoStore, Idle, IInv, RunTyped, RunHeld, SourceHeld, ReadSoFar,
     ActiveHeld, StoreHeld, IndexHeld, CheckpointIsOwn, SqliteCheckpointHeld,
     PartitionedCheckpointHeld, OrphanedIsSqlite, PublishedHeld, ReportExact,
     CompleteAuditIsExact, CoverageIsOfItsAudit

(* A step of a run that neither changes what is on disk nor completes a     *)
(* source.                                                                  *)
LEMMA RunStep ==
    ASSUME IInv, proc.cmd = "audit", proc'.cmd = "audit",
           UNCHANGED <<implementation, archive, store>>,
           faults' \in 0 .. MaxFaults,
           proc'.completed = proc.completed,
           \A i \in proc.completed : proc'.stats[i] = proc.stats[i],
           proc'.pc \in Saved => proc.pc \in Saved,
           RunTyped', RunHeld', ReportExact'
    PROVE  IInv'
<1>1. Typed'
  BY DEF IInv, Typed, Known, IndexShape
<1>2. IndexHeld' /\ CheckpointIsOwn'
  BY DEF IInv, StoreHeld, IndexHeld, CheckpointIsOwn, RowsAre, Keep, Sqlite
<1>3. SqliteCheckpointHeld'
  BY DEF IInv, StoreHeld, SqliteCheckpointHeld, Overdrawn, Keep, Sqlite
<1>4. PartitionedCheckpointHeld' /\ OrphanedIsSqlite'
  BY DEF IInv, StoreHeld, PartitionedCheckpointHeld, OrphanedIsSqlite, RowsAre, Keep, Sqlite, Partitioned
<1>5. CompleteAuditIsExact' /\ CoverageIsOfItsAudit'
  BY DEF IInv, PublishedHeld, CompleteAuditIsExact, CoverageIsOfItsAudit
<1> QED
  BY <1>1, <1>2, <1>3, <1>4, <1>5 DEF IInv, StoreHeld, PublishedHeld

(* A line more, with what the step needs to know of the files after it.     *)
LEMMA ReadLineRun ==
    ASSUME IInv, NEW kept, kept = Keep, ReadLine(kept),
           IndexShape(store'.index), store'.checkpoint = store.checkpoint,
           Partitioned => store'.index.staging = proc'.rows
    PROVE  RunTyped' /\ RunHeld' /\ ReportExact'
<1> DEFINE over == Line # Quarantined /\ proc.used + 1 > MaxRecords
<1>1. /\ proc.cmd = "audit" /\ proc.pc = "scan" /\ DOMAIN proc = RunFields
      /\ implementation' = implementation /\ archive' = archive
  BY DEF IInv, RunTyped, ReadLine, Auditing
<1>2. /\ proc.at \in Sources /\ proc.version \in DOMAIN Content[proc.at]
      /\ proc.line \in Nat /\ proc.line < Len(Content[proc.at][proc.version])
      /\ Len(Content[proc.at][proc.version]) \in Nat
  BY <1>1, LinesType DEF IInv, RunHeld, SourceHeld, ReadSoFar, OfSource, Reading, ReadLine, HasLine, Text
<1>3. /\ DOMAIN proc' = RunFields
      /\ \A f \in RunFields \ {"line", "used", "exhausted", "errors", "rows", "pc"} : proc'[f] = proc[f]
      /\ proc'.line = proc.line + 1 /\ proc'.used = proc.used + 1
      /\ proc'.pc = IF over THEN "ended" ELSE "scan"
      /\ proc'.rows = IF Line \in kept /\ ~over THEN proc.rows \union {<<proc.line + 1, Line>>} ELSE proc.rows
  BY <1>1 DEF ReadLine, RunFields
<1>4. /\ proc'.exhausted = over
      /\ proc'.errors = (proc.errors \/ Line = Quarantined \/ (Line = Malformed /\ ~over))
  BY <1>1 DEF ReadLine, RunFields
<1>5. RunTyped'
  BY <1>1, <1>3, <1>4 DEF IInv, RunTyped, Known, OfSource, Reading, RunFields
<1>6. SourceHeld' /\ ActiveHeld'
  BY <1>1, <1>3 DEF IInv, RunHeld, SourceHeld, ActiveHeld, OfSource, Reading, RunFields
<1>7. ReadSoFar'
  <2>1. ~over => proc'.rows = Upto(kept, proc.at, proc.version, proc.line + 1)
    <3>1. proc.rows = Upto(kept, proc.at, proc.version, proc.line)
      BY <1>1 DEF IInv, RunHeld, ReadSoFar, Reading
    <3>2. Line = Content[proc.at][proc.version][proc.line + 1]
      BY DEF Line, Text
    <3>3. Upto(kept, proc.at, proc.version, proc.line + 1) =
            IF Line \in kept THEN proc.rows \union {<<proc.line + 1, Line>>} ELSE proc.rows
      <4> DEFINE i == proc.at
                 v == proc.version
                 n == proc.line
      <4>1. /\ Content[i][v][n + 1] \in kept =>
                 Upto(kept, i, v, n + 1) = Upto(kept, i, v, n) \union {<<n + 1, Content[i][v][n + 1]>>}
            /\ Content[i][v][n + 1] \notin kept => Upto(kept, i, v, n + 1) = Upto(kept, i, v, n)
        <5> HIDE DEF i, v, n
        <5>1. i \in Sources /\ v \in DOMAIN Content[i] /\ n \in Nat /\ n < Len(Content[i][v])
          BY <1>2 DEF i, v, n
        <5> QED
          BY <5>1, UptoStep
      <4> QED
        BY <3>1, <3>2, <4>1
    <3> QED
      BY <1>3, <3>3
  <2>2. proc'.line \in 0 .. Len(Content[proc'.at][proc'.version])
    BY <1>1, <1>2, <1>3 DEF RunFields
  <2> QED
    BY <1>1, <1>3, <1>4, <2>1, <2>2 DEF IInv, RunHeld, ReadSoFar, Reading, RunFields, Keep, Sqlite, Partitioned, Text
<1>8. ReportExact'
  BY <1>3 DEF ReportExact
<1> QED
  BY <1>5, <1>6, <1>7, <1>8 DEF RunHeld

(* Reading a line keeps the rows those of the lines read.                   *)
LEMMA SqliteReadHolds == ASSUME IInv, SqliteRead PROVE IInv'
<1>1. Keep = Identity /\ ReadLine(Keep) /\ UNCHANGED <<implementation, archive, faults, store>>
  BY DEF SqliteRead, Sqlite, Keep, ReadLine
<1>2. /\ proc.cmd = "audit" /\ proc.pc = "scan" /\ DOMAIN proc = RunFields /\ IndexShape(store.index)
      /\ faults \in 0 .. MaxFaults
  BY <1>1 DEF IInv, Typed, RunTyped, ReadLine, Auditing
<1>3. /\ proc'.cmd = "audit" /\ proc'.completed = proc.completed /\ proc'.stats = proc.stats
      /\ proc'.pc \in Reading
  BY <1>1, <1>2 DEF ReadLine, RunFields, Reading
<1>4. ~Partitioned
  BY DEF SqliteRead, Sqlite, Partitioned
<1>5. RunTyped' /\ RunHeld' /\ ReportExact'
  BY <1>1, <1>2, <1>4, ReadLineRun
<1> QED
  BY <1>1, <1>2, <1>3, <1>5, RunStep DEF Reading, Saved

(* The end of a source, with or without an error.                           *)
LEMMA EndHolds ==
    ASSUME IInv, EndOfSource \/ SourceReadError
    PROVE  IInv'
<1>1. /\ proc.cmd = "audit" /\ proc.pc = "scan" /\ DOMAIN proc = RunFields
      /\ UNCHANGED <<implementation, archive, store>>
      /\ faults' \in 0 .. MaxFaults
  BY BoundAssumption DEF IInv, Typed, RunTyped, EndOfSource, SourceReadError, Auditing, Fault
<1>2. /\ DOMAIN proc' = RunFields
      /\ \A f \in RunFields \ {"pc", "errors", "exhausted"} : proc'[f] = proc[f]
      /\ proc'.pc = "ended" /\ proc'.errors \in BOOLEAN /\ proc'.exhausted \in BOOLEAN
      /\ ~proc'.errors => ~HasLine
  <2>1. proc'.exhausted = (proc.used > MaxRecords)
    BY <1>1 DEF EndOfSource, SourceReadError, RunFields
  <2>2. /\ DOMAIN proc' = RunFields
        /\ \A f \in RunFields \ {"pc", "errors", "exhausted"} : proc'[f] = proc[f]
        /\ proc'.pc = "ended"
        /\ (proc'.errors = proc.errors /\ ~HasLine) \/ proc'.errors = TRUE
    BY <1>1 DEF EndOfSource, SourceReadError, RunFields
  <2>3. proc.errors \in BOOLEAN
    BY <1>1 DEF IInv, RunTyped
  <2>4. proc'.exhausted \in BOOLEAN
    BY <2>1
  <2>5. proc'.errors \in BOOLEAN /\ (~proc'.errors => ~HasLine)
    BY <2>2, <2>3
  <2> QED
    BY <2>2, <2>4, <2>5
<1>3. RunTyped'
  BY <1>1, <1>2 DEF IInv, RunTyped, Known, IndexShape, OfSource, Reading, RunFields
<1>4. SourceHeld' /\ ActiveHeld'
  BY <1>1, <1>2 DEF IInv, RunHeld, SourceHeld, ActiveHeld, OfSource, Reading, RunFields
<1>5. ReadSoFar'
  <2>1. proc.at \in Sources /\ proc.version \in DOMAIN Content[proc.at]
    BY <1>1 DEF IInv, RunHeld, SourceHeld, OfSource, Reading
  <2>2. ~proc'.errors => proc.line = Len(Content[proc.at][proc.version])
    BY <1>1, <1>2, <2>1, LinesType DEF IInv, RunHeld, ReadSoFar, Reading, HasLine, Text
  <2> QED
    BY <1>1, <1>2, <2>2 DEF IInv, RunHeld, ReadSoFar, Reading, RunFields, Keep, Sqlite, Partitioned, Text, All
<1>6. ReportExact'
  BY <1>2 DEF ReportExact
<1> QED
  BY <1>1, <1>2, <1>3, <1>4, <1>5, <1>6, RunStep DEF RunHeld, RunFields, Saved

(* A source that is rejected, and one that breaches a budget.               *)
LEMMA SqliteRejectHolds ==
    ASSUME IInv, SqliteReject \/ SqliteBudget
    PROVE  IInv'
<1>1. /\ proc.cmd = "audit" /\ proc.pc = "ended" /\ DOMAIN proc = RunFields
      /\ UNCHANGED <<implementation, archive, store>>
      /\ faults' \in 0 .. MaxFaults
  BY BoundAssumption DEF IInv, Typed, RunTyped, SqliteReject, SqliteBudget, Auditing, Fault
<1>2. /\ DOMAIN proc' = RunFields
      /\ \A f \in RunFields \ {"pc", "active", "stats", "rows", "exhausted"} : proc'[f] = proc[f]
      /\ proc'.pc = "checkpoint" /\ proc'.active = proc.at /\ proc'.exhausted \in BOOLEAN
      /\ proc'.stats = [proc.stats EXCEPT ![proc.at] = Report]
  BY <1>1 DEF IInv, RunTyped, SqliteReject, SqliteBudget, RunFields
<1>3. proc.at \notin proc.completed
  BY <1>1 DEF IInv, RunHeld, ReadSoFar, Reading
<1>4. /\ DOMAIN proc.stats = Sources /\ proc.completed \subseteq Sources
      /\ DOMAIN proc'.stats = Sources
      /\ \A i \in proc.completed : proc'.stats[i] = proc.stats[i]
  BY <1>1, <1>2, <1>3 DEF IInv, RunTyped, Known
<1>5. RunTyped'
  BY <1>1, <1>2, <1>4 DEF IInv, RunTyped, Known, IndexShape, OfSource, Reading, RunFields
<1>6. SourceHeld' /\ ActiveHeld' /\ ReadSoFar'
  BY <1>1, <1>2, <1>3 DEF IInv, RunHeld, SourceHeld, ActiveHeld, ReadSoFar, OfSource, Reading, RunFields
<1>7. ReportExact'
  BY <1>2 DEF ReportExact
<1> QED
  BY <1>1, <1>2, <1>4, <1>5, <1>6, <1>7, RunStep DEF RunHeld, RunFields, Saved

(* The scan is over when the last source was passed.                        *)
LEMMA AllOpenedHolds == ASSUME IInv, AllOpened PROVE IInv'
<1>1. /\ proc.cmd = "audit" /\ proc.pc = "open" /\ DOMAIN proc = RunFields
      /\ UNCHANGED <<implementation, archive, store, faults>> /\ faults \in 0 .. MaxFaults
  BY DEF IInv, Typed, RunTyped, AllOpened, Auditing
<1>2. /\ DOMAIN proc' = RunFields
      /\ \A f \in RunFields \ {"pc"} : proc'[f] = proc[f]
      /\ proc'.pc = "final"
  BY <1>1 DEF AllOpened, RunFields
<1>3. RunTyped'
  BY <1>1, <1>2 DEF IInv, RunTyped, Known, IndexShape, RunFields
<1>4. RunHeld' /\ ReportExact'
  BY <1>2 DEF RunHeld, SourceHeld, ReadSoFar, ActiveHeld, OfSource, Reading, ReportExact
<1> QED
  BY <1>1, <1>2, <1>3, <1>4, RunStep DEF RunFields, Saved

(* The report of a run that completed all sources is that of their rows.    *)
LEMMA ReportHolds == ASSUME IInv, SqliteReport \/ PartitionedReport PROVE IInv'
<1>1. /\ proc.cmd = "audit" /\ proc.pc = "report" /\ DOMAIN proc = RunFields
      /\ UNCHANGED <<implementation, archive, store, faults>> /\ faults \in 0 .. MaxFaults
  BY DEF IInv, Typed, RunTyped, SqliteReport, PartitionedReport, ComputeReport, Auditing
<1>2. PICK sources : ComputeReport(sources) /\ (proc.completed = Sources => sources = Sources)
  BY DEF SqliteReport, PartitionedReport
<1>3. /\ DOMAIN proc' = RunFields
      /\ \A f \in RunFields \ {"pc", "out", "report"} : proc'[f] = proc[f]
      /\ proc'.pc = "publish" /\ proc'.out = 1
      /\ proc'.report = ReportOf(store.index.rows, sources, proc.stats)
  BY <1>1, <1>2 DEF ComputeReport, RunFields
<1>4. RunTyped'
  BY <1>1, <1>3 DEF IInv, RunTyped, Known, IndexShape, RunFields
<1>5. RunHeld'
  BY <1>3 DEF RunHeld, SourceHeld, ReadSoFar, ActiveHeld, OfSource, Reading
<1>6. ReportExact'
  <2> SUFFICES ASSUME store.orphaned = {}, proc.completed = Sources, NEW r \in Rows
               PROVE  proc'.report.matches[r] = Occurrences(proc'.stats, r)
    BY <1>1, <1>3 DEF ReportExact, RunFields
  <2>1. \A i \in Sources : store.index.rows[i] = All(Keep, i, proc.stats[i].version)
    BY <1>1 DEF IInv, StoreHeld, IndexHeld, RowsAre
  <2>2. \A i \in Sources : proc.stats[i] \in Stat(i)
    BY <1>1 DEF IInv, RunTyped, Known
  <2>3. Matched(store.index.rows, Sources, r) = Occurrences(proc.stats, r)
    BY <2>1, <2>2, KeepType, MatchedIsExact
  <2> QED
    BY <1>2, <1>3, <2>3 DEF ReportOf, RunFields
<1> QED
  BY <1>1, <1>3, <1>4, <1>5, <1>6, RunStep DEF RunFields, Saved

(* A run that publishes nothing is not a complete one.                      *)
LEMMA WithholdHolds == ASSUME IInv, PartitionedWithhold PROVE IInv'
<1>1. /\ proc.cmd = "audit" /\ proc.pc = "publish" /\ DOMAIN proc = RunFields
      /\ UNCHANGED <<implementation, archive, store>> /\ faults' \in 0 .. MaxFaults
  BY BoundAssumption DEF IInv, Typed, RunTyped, PartitionedWithhold, Auditing, Breach, Fault
<1>2. /\ DOMAIN proc' = RunFields
      /\ \A f \in RunFields \ {"pc", "report", "exhausted"} : proc'[f] = proc[f]
      /\ proc'.pc = "manifest" /\ proc'.exhausted = TRUE
  BY <1>1 DEF PartitionedWithhold, RunFields
<1>3. RunTyped'
  BY <1>1, <1>2 DEF IInv, RunTyped, Known, IndexShape, RunFields
<1>4. RunHeld' /\ ReportExact'
  BY <1>2 DEF RunHeld, SourceHeld, ReadSoFar, ActiveHeld, OfSource, Reading, ReportExact
<1> QED
  BY <1>1, <1>2, <1>3, <1>4, RunStep DEF RunFields, Saved

-----------------------------------------------------------------------------
(* The steps that begin a run.                                              *)

(* A run that has nothing indexed.                                          *)
LEMMA BeganType ==
    ASSUME Typed, NEW completed, NEW stats,
           completed \subseteq Sources,
           \A i \in completed : stats[i] \in Stat(i) /\ stats[i].version = archive[i],
           proc' = Began(completed, stats), archive' = archive, IndexShape(store'.index)
    PROVE  RunTyped' /\ RunHeld' /\ ReportExact'
<1>1. /\ DOMAIN proc' = RunFields /\ proc'.cmd = "audit" /\ proc'.pc = "open" /\ proc'.at = 1
      /\ proc'.errors = FALSE /\ proc'.exhausted = FALSE /\ proc'.active = None /\ proc'.out = 1
      /\ proc'.completed = completed /\ proc'.seen = [i \in Sources |-> {archive[i]}]
      /\ proc'.stats = [i \in Sources |-> IF i \in completed THEN stats[i] ELSE None]
  BY DEF Began, RunFields
<1>2. proc'.used \in Nat
  <2>1. completed \in SUBSET Sources /\ \A i \in completed : stats[i] \in Stat(i)
    OBVIOUS
  <2>2. Cardinality(UNION {{i} \X (DOMAIN LinesOf(i, stats)) : i \in completed}) \in Nat
    BY <2>1, UsedType, Zenon
  <2> QED
    BY <2>2 DEF Began
<1>3. Known(proc.completed, proc.stats)'
  BY <1>1 DEF Known
<1>4. /\ DOMAIN proc'.seen = Sources
      /\ \A i \in Sources : archive'[i] \in proc'.seen[i]
      /\ \A i \in proc'.completed : proc'.stats[i].version \in proc'.seen[i]
  BY <1>1
<1>5. RunTyped'
  <2>1. proc'.pc \in {"open", "final", "report", "publish", "manifest"} \union OfSource
    BY <1>1
  <2>2. proc'.at \in Nat \ {0} /\ proc'.out \in 1 .. 3
    BY <1>1
  <2>3. proc'.errors \in BOOLEAN /\ proc'.exhausted \in BOOLEAN
    BY <1>1, Zenon
  <2>4. IndexShape(store.index)'
    BY DEF IndexShape
  <2> QED
    BY <1>1, <1>2, <1>3, <1>4, <2>1, <2>2, <2>3, <2>4, Zenon DEF RunTyped
<1> QED
  BY <1>1, <1>5 DEF RunHeld, SourceHeld, ReadSoFar, ActiveHeld, OfSource, Reading, ReportExact

(* A run of the SQLite audit that keeps sources it may keep: their rows are *)
(* as the checkpoint has them, those of the others are deleted              *)
(* (archive_audit.py:240-277).                                              *)
LEMMA ResumeHolds ==
    ASSUME IInv, Sqlite, NEW completed, completed \subseteq Resumable(store.checkpoint),
           Resume(completed), UNCHANGED <<implementation, archive>>, faults' \in 0 .. MaxFaults
    PROVE  IInv'
<1>1. /\ proc.cmd = "none" /\ store.checkpoint # None /\ IndexShape(store.index)
      /\ Known(store.checkpoint.completed, store.checkpoint.stats)
      /\ DOMAIN store = StoreFields
  BY DEF IInv, Typed, Resume
<1>2. \A i \in completed : i \in store.checkpoint.completed /\ store.checkpoint.stats[i].version = archive[i]
  BY <1>1, ResumableIsKnown
<1>3. /\ DOMAIN store' = StoreFields
      /\ \A f \in StoreFields \ {"index"} : store'[f] = store[f]
      /\ store'.index = Retained(store.index, completed)
  BY <1>1 DEF Resume, StoreFields
<1>4. /\ IndexShape(store'.index)
      /\ store'.index.rows = [i \in Sources |-> IF i \in completed THEN store.index.rows[i] ELSE {}]
  BY <1>1, <1>3 DEF IndexShape, Retained
<1>5. Typed'
  BY <1>1, <1>3, <1>4 DEF IInv, Typed, Known, StoreFields, IndexShape
<1>6. completed \subseteq Sources
      /\ \A i \in completed : /\ store.checkpoint.stats[i] \in Stat(i)
                              /\ store.checkpoint.stats[i].version = archive[i]
  BY <1>1, <1>2 DEF Known
<1>7. RunTyped' /\ RunHeld' /\ ReportExact'
  BY <1>4, <1>6, BeganType DEF IInv, Resume
<1>8. /\ proc'.cmd = "audit" /\ proc'.pc = "open" /\ proc'.completed = completed
      /\ \A i \in completed : proc'.stats[i] = store.checkpoint.stats[i]
  BY <1>6 DEF Resume, Began
<1>9. \A i \in store.checkpoint.completed \ store.orphaned :
         store.index.rows[i] = All(Keep, i, store.checkpoint.stats[i].version)
  BY <1>1 DEF IInv, StoreHeld, SqliteCheckpointHeld, Overdrawn
<1>10. IndexHeld' /\ CheckpointIsOwn'
  BY <1>2, <1>3, <1>4, <1>6, <1>8, <1>9 DEF IndexHeld, RowsAre, CheckpointIsOwn, Saved, Keep, Sqlite, StoreFields
<1>11. SqliteCheckpointHeld'
  <2> SUFFICES ASSUME NEW i \in store.checkpoint.completed \ store.orphaned, i \in completed
               PROVE  store'.index.rows[i] = All(Keep, i, store.checkpoint.stats[i].version)
    BY <1>1, <1>3, <1>8 DEF SqliteCheckpointHeld, Overdrawn, StoreFields, Keep, Sqlite
  <2> QED
    BY <1>4, <1>6, <1>9
<1>12. PartitionedCheckpointHeld' /\ OrphanedIsSqlite'
  BY <1>3 DEF PartitionedCheckpointHeld, OrphanedIsSqlite, Partitioned, Sqlite, StoreFields
<1>13. CompleteAuditIsExact' /\ CoverageIsOfItsAudit'
  BY <1>3 DEF IInv, PublishedHeld, CompleteAuditIsExact, CoverageIsOfItsAudit, StoreFields
<1> QED
  BY <1>5, <1>7, <1>10, <1>11, <1>12, <1>13 DEF IInv, StoreHeld, PublishedHeld

(* A first run, of either implementation.                                   *)
LEMMA FirstRunHolds ==
    ASSUME IInv, store.checkpoint = None, NEW index, IndexShape(index),
           proc' = Began({}, NoStats), store' = [store EXCEPT !.index = index],
           UNCHANGED <<implementation, archive, faults>>
    PROVE  IInv'
<1>1. DOMAIN store = StoreFields
  BY DEF IInv, Typed
<1>2. /\ DOMAIN store' = StoreFields /\ store'.index = index
      /\ \A f \in StoreFields \ {"index"} : store'[f] = store[f]
  BY <1>1 DEF StoreFields
<1>3. Typed'
  BY <1>2 DEF IInv, Typed, StoreFields, IndexShape
<1>4. RunTyped' /\ RunHeld' /\ ReportExact'
  BY <1>2, BeganType DEF IInv
<1>5. proc'.cmd = "audit" /\ proc'.pc = "open" /\ proc'.completed = {}
  BY DEF Began
<1>6. StoreHeld'
  BY <1>2, <1>5 DEF IInv, StoreHeld, IndexHeld, RowsAre, CheckpointIsOwn, Saved,
     SqliteCheckpointHeld, PartitionedCheckpointHeld, OrphanedIsSqlite, StoreFields, Sqlite
<1>7. CompleteAuditIsExact' /\ CoverageIsOfItsAudit'
  BY <1>2 DEF IInv, PublishedHeld, CompleteAuditIsExact, CoverageIsOfItsAudit, StoreFields
<1> QED
  BY <1>3, <1>4, <1>6, <1>7 DEF IInv, PublishedHeld

(* A run keeps of a checkpoint the sources that are resumable, and no       *)
(* others.                                                                  *)
LEMMA StartSqliteHolds == ASSUME IInv, StartSqlite PROVE IInv'
<1>1. CASE store.checkpoint = None
  <2>1. IndexShape(EmptyIndex)
    BY DEF IndexShape, EmptyIndex
  <2> QED
    BY <1>1, <2>1, FirstRunHolds DEF StartSqlite
<1>2. CASE store.checkpoint # None
  <2>1. Resume(Resumable(store.checkpoint)) /\ Sqlite
    BY <1>2 DEF StartSqlite
  <2>2. faults' \in 0 .. MaxFaults
    BY DEF StartSqlite, IInv, Typed
  <2> QED
    BY <2>1, <2>2, ResumeHolds DEF StartSqlite
<1> QED
  BY <1>1, <1>2

(* The sources before the one that cannot be read are kept.                 *)
LEMMA StartUnreadableHolds == ASSUME IInv, StartUnreadable PROVE IInv'
<1>1. PICK i \in Resumable(store.checkpoint) : Resume(1 .. i - 1)
  BY DEF StartUnreadable
<1>2. 1 .. i - 1 \subseteq Resumable(store.checkpoint)
  BY SourcesType DEF Resumable, Sources
<1>3. faults' \in 0 .. MaxFaults
  BY BoundAssumption DEF StartUnreadable, Fault, IInv, Typed
<1> QED
  BY <1>1, <1>2, <1>3, ResumeHolds DEF StartUnreadable

(* A run of the partitioned audit that finds the partitions the checkpoint  *)
(* names (archive_partitioned.py:430-464).                                  *)
LEMMA StartPartitionedHolds == ASSUME IInv, StartPartitioned PROVE IInv'
<1>1. CASE store.checkpoint = None
  <2>1. IndexShape(NoIndex)
    BY DEF IndexShape, NoIndex
  <2> QED
    BY <1>1, <2>1, FirstRunHolds DEF StartPartitioned
<1>2. CASE store.checkpoint # None
  <2> DEFINE completed == Kept(store.checkpoint)
  <2>1. /\ proc.cmd = "none" /\ Partitioned /\ UNCHANGED <<implementation, archive, faults>>
        /\ Files(Index) = Files(store.checkpoint.index)
        /\ proc' = Began(completed, store.checkpoint.stats)
        /\ store' = [store EXCEPT !.index =
              [rows |-> [i \in Sources |-> IF i \in completed THEN Index.rows[i] ELSE None],
               staging |-> None]]
    BY <1>2 DEF StartPartitioned
  <2>2. /\ DOMAIN store = StoreFields
        /\ Known(store.checkpoint.completed, store.checkpoint.stats)
    BY <1>2 DEF IInv, Typed
  <2>3. /\ DOMAIN store' = StoreFields
        /\ \A f \in StoreFields \ {"index"} : store'[f] = store[f]
        /\ store'.index.rows = [i \in Sources |-> IF i \in completed THEN Index.rows[i] ELSE None]
        /\ IndexShape(store'.index)
    BY <2>1, <2>2 DEF StoreFields, IndexShape
  <2>4. ASSUME NEW i \in completed
        PROVE  /\ i \in Sources /\ i \in store.checkpoint.completed
               /\ store.checkpoint.stats[i] \in Stat(i)
               /\ store.checkpoint.stats[i].version = archive[i]
               /\ Index.rows[i] # None
    <3>1. i \in Resumable(store.checkpoint) /\ i \in Present /\ i \in Sources
      BY SourcesType DEF Kept
    <3> QED
      BY <2>2, <3>1, ResumableIsKnown DEF Known, Present
  <2>5. ASSUME NEW i \in completed
        PROVE  Index.rows[i] = All(Keep, i, store.checkpoint.stats[i].version)
    <3>1. Held(Index.rows[i]) = Held(store.checkpoint.index.rows[i])
      BY <2>1, <2>4 DEF Files
    <3>2. store.checkpoint.index.rows[i] = All(Keep, i, store.checkpoint.stats[i].version)
      BY <1>2, <2>1, <2>4 DEF IInv, StoreHeld, PartitionedCheckpointHeld, RowsAre
    <3>3. All(Keep, i, store.checkpoint.stats[i].version) # None
      BY <2>4, KeepType, AllIsHeld DEF Stat
    <3> QED
      BY <2>4, <3>1, <3>2, <3>3 DEF Held
  <2> HIDE DEF completed
  <2>6. Typed'
    BY <2>1, <2>2, <2>3 DEF IInv, Typed, Known, StoreFields, IndexShape
  <2>7. RunTyped' /\ RunHeld' /\ ReportExact'
    BY <2>1, <2>3, <2>4, BeganType DEF IInv
  <2>8. /\ proc'.cmd = "audit" /\ proc'.pc = "open" /\ proc'.completed = completed
        /\ \A i \in completed : proc'.stats[i] = store.checkpoint.stats[i]
    BY <2>1, <2>4 DEF Began
  <2>9. IndexHeld' /\ CheckpointIsOwn'
    BY <2>1, <2>3, <2>4, <2>5, <2>8 DEF IndexHeld, RowsAre, CheckpointIsOwn, Saved, Keep, Sqlite, StoreFields
  <2>10. SqliteCheckpointHeld' /\ PartitionedCheckpointHeld' /\ OrphanedIsSqlite'
    BY <2>1, <2>3 DEF IInv, StoreHeld, SqliteCheckpointHeld, PartitionedCheckpointHeld, RowsAre,
       OrphanedIsSqlite, Partitioned, Sqlite, StoreFields, Keep
  <2>11. CompleteAuditIsExact' /\ CoverageIsOfItsAudit'
    BY <2>3 DEF IInv, PublishedHeld, CompleteAuditIsExact, CoverageIsOfItsAudit, StoreFields
  <2> QED
    BY <2>6, <2>7, <2>9, <2>10, <2>11 DEF IInv, StoreHeld, PublishedHeld
<1> QED
  BY <1>1, <1>2

-----------------------------------------------------------------------------
(* The steps of a run that change the files.                                *)

(* What all of them keep: the published files and the type of the store.    *)
LEMMA FilesStep ==
    ASSUME IInv, UNCHANGED <<implementation, archive>>, faults' \in 0 .. MaxFaults,
           proc.cmd = "audit", DOMAIN store' = StoreFields,
           \A f \in {"manifest", "derived", "doubtful"} : store'[f] = store[f],
           store'.orphaned \subseteq store.orphaned,
           IndexShape(store'.index),
           store'.checkpoint # None =>
               Known(store'.checkpoint.completed, store'.checkpoint.stats)
    PROVE  Typed' /\ OrphanedIsSqlite' /\ CompleteAuditIsExact' /\ CoverageIsOfItsAudit'
<1>1. Typed'
  BY DEF IInv, Typed, Known, IndexShape
<1>2. OrphanedIsSqlite'
  BY DEF IInv, StoreHeld, OrphanedIsSqlite, Sqlite
<1>3. CompleteAuditIsExact' /\ CoverageIsOfItsAudit'
  BY DEF IInv, PublishedHeld, CompleteAuditIsExact, CoverageIsOfItsAudit
<1> QED
  BY <1>1, <1>2, <1>3

(* A source is opened: the SQLite audit deletes its rows, the partitioned   *)
(* one makes its staging directory.                                         *)
LEMMA OpenHolds ==
    ASSUME IInv, SqliteOpen \/ PartitionedOpen
    PROVE  IInv'
<1>1. PICK index : /\ OpenWith(index)
                   /\ \/ Sqlite /\ index = [store.index EXCEPT !.rows[ToOpen] = {}]
                      \/ Partitioned /\ index = [store.index EXCEPT !.staging = {}]
  BY DEF SqliteOpen, PartitionedOpen
<1>2. /\ proc.cmd = "audit" /\ proc.pc = "open" /\ DOMAIN proc = RunFields /\ IndexShape(store.index)
      /\ DOMAIN store = StoreFields /\ faults \in 0 .. MaxFaults
      /\ UNCHANGED <<implementation, archive, faults>>
  BY <1>1 DEF IInv, Typed, RunTyped, OpenWith, Auditing
<1>3. ToOpen \in Sources /\ ToOpen \notin proc.completed
  BY <1>1, ToOpenType DEF OpenWith
<1>4. /\ DOMAIN proc' = RunFields
      /\ \A f \in RunFields \ {"pc", "at", "version", "line", "rows", "errors"} : proc'[f] = proc[f]
      /\ proc'.pc = "scan" /\ proc'.at = ToOpen /\ proc'.version = archive[ToOpen]
      /\ proc'.line = 0 /\ proc'.rows = {}
  BY <1>1, <1>2 DEF OpenWith, RunFields
<1>5. proc'.errors \in BOOLEAN
  BY <1>1, <1>2 DEF OpenWith, RunFields
<1>6. /\ DOMAIN store' = StoreFields /\ store'.index = index
      /\ \A f \in StoreFields \ {"index"} : store'[f] = store[f]
  BY <1>1, <1>2 DEF OpenWith, StoreFields
<1>7. /\ IndexShape(index)
      /\ \A i \in Sources \ {ToOpen} : index.rows[i] = store.index.rows[i]
      /\ index.rows[ToOpen] = {} \/ index.rows[ToOpen] = store.index.rows[ToOpen]
      /\ Partitioned => index.staging = {}
  BY <1>1, <1>2, <1>3 DEF IndexShape, Sqlite, Partitioned
<1> HIDE DEF ToOpen
<1>8. Typed' /\ OrphanedIsSqlite' /\ CompleteAuditIsExact' /\ CoverageIsOfItsAudit'
  BY <1>2, <1>6, <1>7, FilesStep DEF IInv, Typed, StoreFields
<1>9. /\ archive[ToOpen] \in DOMAIN Content[ToOpen] /\ archive[ToOpen] \in Nat
      /\ archive[ToOpen] \in proc.seen[ToOpen]
      /\ ToOpen \in Nat \ {0}
  BY <1>2, <1>3, VersionsType, SourcesType DEF IInv, Typed, RunTyped
<1>10. RunTyped'
  <2>1. \A i \in Sources : archive'[i] \in proc'.seen[i]
    BY <1>2, <1>4 DEF IInv, RunTyped, RunFields
  <2>2. IndexShape(store.index)'
    BY <1>6, <1>7 DEF IndexShape
  <2>3. Known(proc.completed, proc.stats)'
    BY <1>2, <1>4 DEF IInv, RunTyped, Known, RunFields
  <2> QED
    BY <1>2, <1>4, <1>5, <1>9, <2>1, <2>2, <2>3 DEF IInv, RunTyped, OfSource, Reading, RunFields
<1>11. SourceHeld' /\ ActiveHeld'
  BY <1>2, <1>3, <1>4, <1>9 DEF IInv, RunHeld, SourceHeld, ActiveHeld, OfSource, Reading, RunFields
<1>12. ReadSoFar'
  <2>1. Upto(Keep', proc'.at, proc'.version, 0) = {}
    BY UptoNone
  <2>2. proc'.line \in 0 .. Len(Text')
    <3>1. Len(Content[ToOpen][archive[ToOpen]]) \in Nat
      BY <1>3, <1>9, LinesType
    <3>2. Text' = Content[ToOpen][archive[ToOpen]]
      BY <1>4 DEF Text
    <3> QED
      BY <1>4, <3>1, <3>2
  <2>3. proc'.at \notin proc'.completed
    BY <1>3, <1>4 DEF RunFields
  <2>4. Partitioned' => store'.index.staging = proc'.rows
    BY <1>2, <1>4, <1>6, <1>7 DEF Partitioned
  <2> QED
    BY <1>4, <2>1, <2>2, <2>3, <2>4 DEF ReadSoFar
<1>13. IndexHeld' /\ CheckpointIsOwn'
  BY <1>2, <1>3, <1>4, <1>6, <1>7 DEF IInv, RunTyped, Known, StoreHeld, IndexHeld, RowsAre, CheckpointIsOwn,
     Saved, Keep, Sqlite, StoreFields, RunFields
<1>14. SqliteCheckpointHeld'
  <2>1. store.checkpoint # None => store.checkpoint.completed \subseteq Sources
    BY DEF IInv, Typed, Known
  <2> QED
    BY <1>2, <1>3, <1>4, <1>6, <1>7, <2>1 DEF IInv, StoreHeld, SqliteCheckpointHeld, Overdrawn, Keep, Sqlite,
       StoreFields, RunFields
<1>15. PartitionedCheckpointHeld'
  BY <1>2, <1>6 DEF IInv, StoreHeld, PartitionedCheckpointHeld, RowsAre, Keep, Sqlite, Partitioned, StoreFields
<1>16. ReportExact'
  BY <1>4 DEF ReportExact
<1> QED
  BY <1>8, <1>10, <1>11, <1>12, <1>13, <1>14, <1>15, <1>16 DEF IInv, RunHeld, StoreHeld, PublishedHeld

(* Reading a line stages its row, which the run holds too.                  *)
LEMMA PartitionedReadHolds == ASSUME IInv, PartitionedRead PROVE IInv'
<1>1. /\ Partitioned /\ ~Sqlite /\ Keep = Targets /\ ReadLine(Targets)
      /\ UNCHANGED <<implementation, archive, faults>>
      /\ store' = [store EXCEPT !.index.staging = proc'.rows]
  BY DEF PartitionedRead, Partitioned, Sqlite, Keep, ReadLine
<1>2. /\ proc.cmd = "audit" /\ proc.pc = "scan" /\ DOMAIN proc = RunFields /\ IndexShape(store.index)
      /\ DOMAIN store = StoreFields /\ faults \in 0 .. MaxFaults
  BY <1>1 DEF IInv, Typed, RunTyped, ReadLine, Auditing
<1>3. /\ proc'.cmd = "audit" /\ proc'.completed = proc.completed /\ proc'.stats = proc.stats
      /\ proc'.pc \in Reading
  BY <1>1, <1>2 DEF ReadLine, RunFields, Reading
<1>4. /\ DOMAIN store' = StoreFields /\ IndexShape(store'.index)
      /\ store'.index.rows = store.index.rows /\ store'.index.staging = proc'.rows
      /\ \A f \in StoreFields \ {"index"} : store'[f] = store[f]
  BY <1>1, <1>2 DEF StoreFields, IndexShape
<1>5. RunTyped' /\ RunHeld' /\ ReportExact'
  BY <1>1, <1>4, ReadLineRun DEF StoreFields
<1>6. Typed' /\ OrphanedIsSqlite' /\ CompleteAuditIsExact' /\ CoverageIsOfItsAudit'
  BY <1>1, <1>2, <1>4, FilesStep DEF IInv, Typed, StoreFields
<1>7. IndexHeld' /\ CheckpointIsOwn' /\ SqliteCheckpointHeld' /\ PartitionedCheckpointHeld'
  BY <1>1, <1>2, <1>3, <1>4 DEF IInv, StoreHeld, IndexHeld, RowsAre, CheckpointIsOwn, Saved, Reading,
     SqliteCheckpointHeld, PartitionedCheckpointHeld, Keep, Sqlite, Partitioned, StoreFields
<1> QED
  BY <1>5, <1>6, <1>7 DEF IInv, StoreHeld, PublishedHeld

(* A completed source: its rows are in the index when it is counted as      *)
(* completed.                                                               *)
LEMMA AcceptHolds ==
    ASSUME IInv, SqliteAccept \/ PartitionedAccept
    PROVE  IInv'
<1>1. /\ proc.cmd = "audit" /\ proc.pc = "ended" /\ SourceComplete
      /\ DOMAIN proc = RunFields /\ IndexShape(store.index)
      /\ DOMAIN store = StoreFields /\ faults \in 0 .. MaxFaults
      /\ UNCHANGED <<implementation, archive, faults>>
  BY DEF IInv, Typed, RunTyped, SqliteAccept, PartitionedAccept, Auditing
<1>2. /\ proc.at \in Sources /\ proc.version \in DOMAIN Content[proc.at] /\ proc.at \notin proc.completed
      /\ proc.version \in proc.seen[proc.at]
      /\ proc.rows = All(Keep, proc.at, proc.version)
      /\ Partitioned => store.index.staging = proc.rows
  BY <1>1 DEF IInv, RunHeld, SourceHeld, ReadSoFar, OfSource, Reading, SourceComplete
<1>3. /\ DOMAIN proc' = RunFields
      /\ \A f \in RunFields \ {"pc", "completed", "stats"} : proc'[f] = proc[f]
      /\ proc'.pc = "checkpoint" /\ proc'.completed = proc.completed \union {proc.at}
      /\ proc'.stats = [proc.stats EXCEPT ![proc.at] = Report]
  BY <1>1 DEF SqliteAccept, PartitionedAccept, RunFields
<1>4. /\ DOMAIN proc.stats = Sources /\ proc.completed \subseteq Sources
      /\ DOMAIN proc'.stats = Sources
      /\ \A i \in proc.completed : proc'.stats[i] = proc.stats[i]
      /\ proc'.stats[proc.at] = Report
  BY <1>1, <1>2, <1>3 DEF IInv, RunTyped, Known
<1>5. Report \in Stat(proc.at) /\ Report.version = proc.version
  BY <1>2 DEF Report, Stat, SourceComplete
<1>6. /\ DOMAIN store' = StoreFields /\ IndexShape(store'.index)
      /\ \A f \in StoreFields \ {"index", "orphaned"} : store'[f] = store[f]
      /\ store'.orphaned = store.orphaned \ {proc.at}
      /\ \A i \in Sources \ {proc.at} : store'.index.rows[i] = store.index.rows[i]
      /\ store'.index.rows[proc.at] = All(Keep, proc.at, proc.version)
  <2>1. CASE SqliteAccept
    BY <1>1, <1>2, <2>1 DEF SqliteAccept, StoreFields, IndexShape
  <2>2. CASE PartitionedAccept
    <3>1. store.orphaned = {}
      BY <2>2 DEF PartitionedAccept, Partitioned, Sqlite, IInv, StoreHeld, OrphanedIsSqlite
    <3> QED
      BY <1>1, <1>2, <2>2, <3>1 DEF PartitionedAccept, StoreFields, IndexShape
  <2> QED
    BY <2>1, <2>2
<1>7. Typed' /\ OrphanedIsSqlite' /\ CompleteAuditIsExact' /\ CoverageIsOfItsAudit'
  BY <1>1, <1>6, FilesStep DEF IInv, Typed, StoreFields
<1>8. RunTyped'
  <2>1. Known(proc.completed, proc.stats)'
    BY <1>1, <1>2, <1>3, <1>4, <1>5 DEF IInv, RunTyped, Known
  <2>2. \A i \in proc'.completed : proc'.stats[i].version \in proc'.seen[i]
    BY <1>1, <1>2, <1>3, <1>4, <1>5 DEF IInv, RunTyped, RunFields
  <2>3. IndexShape(store.index)'
    BY <1>6 DEF IndexShape
  <2> QED
    BY <1>1, <1>3, <2>1, <2>2, <2>3 DEF IInv, RunTyped, OfSource, Reading, RunFields
<1>9. SourceHeld' /\ ActiveHeld' /\ ReadSoFar' /\ ReportExact'
  BY <1>1, <1>2, <1>3 DEF IInv, RunHeld, SourceHeld, ActiveHeld, ReadSoFar, OfSource, Reading, ReportExact, RunFields
<1>10. IndexHeld' /\ CheckpointIsOwn'
  <2>1. Keep' = Keep
    BY <1>1 DEF Keep, Sqlite
  <2> QED
    BY <1>1, <1>2, <1>3, <1>4, <1>5, <1>6, <2>1 DEF IInv, StoreHeld, IndexHeld, RowsAre, CheckpointIsOwn, Saved,
       StoreFields
<1>11. SqliteCheckpointHeld'
  <2> SUFFICES ASSUME Sqlite, store.checkpoint # None, NEW i \in store.checkpoint.completed,
                      i \notin store'.orphaned, i \notin Overdrawn'
               PROVE  store'.index.rows[i] = All(Keep, i, store.checkpoint.stats[i].version)
    BY <1>1, <1>6 DEF SqliteCheckpointHeld, StoreFields, Keep, Sqlite
  <2>1. i \in Sources
    BY DEF IInv, Typed, Known
  <2>2. i \in proc'.completed /\ proc'.stats[i].version = store.checkpoint.stats[i].version
    BY <1>1, <1>3, <1>6 DEF Overdrawn, Sqlite, RunFields, StoreFields
  <2>3. CASE i = proc.at
    BY <1>4, <1>5, <1>6, <2>2, <2>3
  <2>4. CASE i # proc.at
    <3>1. i \in proc.completed /\ i \notin store.orphaned /\ proc.stats[i] = proc'.stats[i]
      BY <1>3, <1>4, <1>6, <2>2, <2>4
    <3> QED
      BY <1>1, <1>6, <2>1, <2>2, <2>4, <3>1 DEF IInv, StoreHeld, IndexHeld, RowsAre
  <2> QED
    BY <2>3, <2>4
<1>12. PartitionedCheckpointHeld'
  BY <1>1, <1>6 DEF IInv, StoreHeld, PartitionedCheckpointHeld, RowsAre, Keep, Sqlite, Partitioned, StoreFields
<1> QED
  BY <1>7, <1>8, <1>9, <1>10, <1>11, <1>12 DEF IInv, RunHeld, StoreHeld, PublishedHeld

(* A partitioned source that is dropped.                                    *)
LEMMA DropHolds ==
    ASSUME IInv, PartitionedReject \/ PartitionedBudget
    PROVE  IInv'
<1>1. /\ proc.cmd = "audit" /\ proc.pc = "ended" /\ Partitioned
      /\ DOMAIN proc = RunFields /\ IndexShape(store.index)
      /\ DOMAIN store = StoreFields /\ faults' \in 0 .. MaxFaults
      /\ UNCHANGED <<implementation, archive>>
      /\ store' = [store EXCEPT !.index.staging = None]
  BY BoundAssumption DEF IInv, Typed, RunTyped, PartitionedReject, PartitionedBudget, Drop, Auditing, Breach, Fault
<1>2. proc.at \notin proc.completed
  BY <1>1 DEF IInv, RunHeld, ReadSoFar, Reading
<1>3. /\ DOMAIN proc' = RunFields
      /\ \A f \in RunFields \ {"pc", "active", "stats", "exhausted"} : proc'[f] = proc[f]
      /\ proc'.pc = "checkpoint" /\ proc'.active = proc.at /\ proc'.exhausted \in BOOLEAN
      /\ proc'.stats = [proc.stats EXCEPT ![proc.at] = Report]
  BY <1>1 DEF IInv, RunTyped, PartitionedReject, PartitionedBudget, RunFields
<1>4. /\ DOMAIN proc.stats = Sources /\ proc.completed \subseteq Sources
      /\ DOMAIN proc'.stats = Sources
      /\ \A i \in proc.completed : proc'.stats[i] = proc.stats[i]
  BY <1>1, <1>2, <1>3 DEF IInv, RunTyped, Known
<1>5. /\ DOMAIN store' = StoreFields /\ IndexShape(store'.index)
      /\ \A f \in StoreFields \ {"index"} : store'[f] = store[f]
      /\ store'.index.rows = store.index.rows
  BY <1>1 DEF StoreFields, IndexShape
<1>6. Typed' /\ OrphanedIsSqlite' /\ CompleteAuditIsExact' /\ CoverageIsOfItsAudit'
  BY <1>1, <1>5, FilesStep DEF IInv, Typed, StoreFields
<1>7. RunTyped'
  <2>1. Known(proc.completed, proc.stats)'
    BY <1>1, <1>3, <1>4 DEF IInv, RunTyped, Known, RunFields
  <2>2. \A i \in proc'.completed : proc'.stats[i].version \in proc'.seen[i]
    BY <1>1, <1>3, <1>4 DEF IInv, RunTyped, RunFields
  <2>3. IndexShape(store.index)'
    BY <1>5 DEF IndexShape
  <2> QED
    BY <1>1, <1>3, <2>1, <2>2, <2>3 DEF IInv, RunTyped, OfSource, Reading, RunFields
<1>8. SourceHeld' /\ ActiveHeld' /\ ReadSoFar' /\ ReportExact'
  BY <1>1, <1>2, <1>3 DEF IInv, RunHeld, SourceHeld, ActiveHeld, ReadSoFar, OfSource, Reading, ReportExact, RunFields
<1>9. IndexHeld' /\ CheckpointIsOwn' /\ SqliteCheckpointHeld' /\ PartitionedCheckpointHeld'
  BY <1>1, <1>3, <1>4, <1>5 DEF IInv, StoreHeld, IndexHeld, RowsAre, CheckpointIsOwn, Saved, RunFields,
     SqliteCheckpointHeld, PartitionedCheckpointHeld, Keep, Sqlite, Partitioned, StoreFields
<1> QED
  BY <1>6, <1>7, <1>8, <1>9 DEF IInv, RunHeld, StoreHeld, PublishedHeld

(* A checkpoint, after a source or at the end: it names the completed       *)
(* sources, all rows of which are in the index.                             *)
LEMMA SavedHolds ==
    ASSUME IInv, proc.cmd = "audit", proc.pc \in {"checkpoint", "final"}, NEW complete, NEW after,
           after \in {"open", "flush", "final", "report"},
           after = "open" => proc.active = None,
           after = "flush" => proc.pc = "checkpoint" /\ proc.active # None,
           store' = [store EXCEPT !.checkpoint = Checkpoint(complete)],
           proc' = [proc EXCEPT !.pc = after],
           UNCHANGED <<implementation, archive, faults>>
    PROVE  IInv'
<1>1. /\ DOMAIN proc = RunFields /\ IndexShape(store.index)
      /\ DOMAIN store = StoreFields /\ faults \in 0 .. MaxFaults
      /\ Known(proc.completed, proc.stats)
  BY DEF IInv, Typed, RunTyped
<1>2. /\ DOMAIN proc' = RunFields /\ proc'.pc = after
      /\ \A f \in RunFields \ {"pc"} : proc'[f] = proc[f]
  BY <1>1 DEF RunFields
<1>3. /\ DOMAIN store' = StoreFields /\ store'.checkpoint = Checkpoint(complete)
      /\ \A f \in StoreFields \ {"checkpoint"} : store'[f] = store[f]
  BY <1>1 DEF StoreFields
<1>4. /\ store'.checkpoint.completed = proc.completed
      /\ DOMAIN store'.checkpoint.stats = Sources
      /\ \A i \in proc.completed : store'.checkpoint.stats[i] = proc.stats[i]
      /\ store'.checkpoint.index = store.index
  BY <1>1, <1>3 DEF Checkpoint, Known
<1>5. Known(store'.checkpoint.completed, store'.checkpoint.stats)
  BY <1>1, <1>4 DEF Known
<1>6. Typed' /\ OrphanedIsSqlite' /\ CompleteAuditIsExact' /\ CoverageIsOfItsAudit'
  BY <1>1, <1>3, <1>5, FilesStep DEF IInv, Typed, StoreFields
<1>7. RunTyped'
  <2>1. Known(proc.completed, proc.stats)'
    BY <1>1, <1>2 DEF Known, RunFields
  <2>2. IndexShape(store.index)'
    BY <1>1, <1>3 DEF IndexShape, StoreFields
  <2>3. proc'.pc \in {"open", "final", "report", "publish", "manifest"} \union OfSource
    BY <1>2 DEF OfSource
  <2> QED
    BY <1>2, <2>1, <2>2, <2>3 DEF IInv, RunTyped, RunFields
<1>8. SourceHeld' /\ ActiveHeld' /\ ReadSoFar' /\ ReportExact'
  BY <1>2 DEF IInv, RunHeld, SourceHeld, ActiveHeld, ReadSoFar, OfSource, Reading, ReportExact, RunFields
<1>9. IndexHeld' /\ CheckpointIsOwn'
  BY <1>2, <1>3, <1>4 DEF IInv, StoreHeld, IndexHeld, RowsAre, CheckpointIsOwn, RunFields, Keep, Sqlite, StoreFields
<1>10. SqliteCheckpointHeld'
  <2> SUFFICES ASSUME NEW i \in proc.completed \ store.orphaned
               PROVE  store'.index.rows[i] = All(Keep, i, store'.checkpoint.stats[i].version)
    BY <1>3, <1>4 DEF SqliteCheckpointHeld, StoreFields, Keep, Sqlite
  <2> QED
    BY <1>3, <1>4 DEF IInv, StoreHeld, IndexHeld, RowsAre, StoreFields
<1>11. PartitionedCheckpointHeld'
  <2>1. Partitioned => store.orphaned = {}
    BY DEF IInv, StoreHeld, OrphanedIsSqlite, Partitioned, Sqlite
  <2> QED
    BY <1>4, <2>1 DEF IInv, StoreHeld, IndexHeld, PartitionedCheckpointHeld, RowsAre, Keep, Sqlite, Partitioned
<1> QED
  BY <1>6, <1>7, <1>8, <1>9, <1>10, <1>11 DEF IInv, RunHeld, StoreHeld, PublishedHeld

(* A checkpoint names the completed sources, whose rows the index has.      *)
LEMMA CheckpointHolds ==
    ASSUME IInv, SqliteCheckpoint \/ PartitionedCheckpoint \/ FinalCheckpoint
    PROVE  IInv'
<1>1. CASE SqliteCheckpoint
  BY <1>1, SavedHolds DEF SqliteCheckpoint, SaveCheckpoint, Auditing
<1>2. CASE PartitionedCheckpoint
  BY <1>2, SavedHolds DEF PartitionedCheckpoint, SaveCheckpoint, Auditing
<1>3. CASE FinalCheckpoint
  BY <1>3, SavedHolds DEF FinalCheckpoint, Auditing
<1> QED
  BY <1>1, <1>2, <1>3

(* The rows of the source that was rejected are committed: the checkpoint   *)
(* does not name it.                                                        *)
LEMMA FlushHolds == ASSUME IInv, SqliteFlush PROVE IInv'
<1>1. /\ proc.cmd = "audit" /\ proc.pc = "flush" /\ Sqlite
      /\ DOMAIN proc = RunFields /\ IndexShape(store.index)
      /\ DOMAIN store = StoreFields /\ faults \in 0 .. MaxFaults
      /\ UNCHANGED <<implementation, archive, faults>>
      /\ Known(proc.completed, proc.stats)
  BY DEF IInv, Typed, RunTyped, SqliteFlush, Auditing
<1>2. proc.active \in Sources /\ proc.active \notin proc.completed
  BY <1>1 DEF IInv, RunHeld, SourceHeld, ActiveHeld, OfSource
<1>3. /\ DOMAIN proc' = RunFields /\ proc'.pc = "final"
      /\ \A f \in RunFields \ {"pc"} : proc'[f] = proc[f]
  BY <1>1 DEF SqliteFlush, RunFields
<1>4. /\ DOMAIN store' = StoreFields /\ IndexShape(store'.index)
      /\ \A f \in StoreFields \ {"index"} : store'[f] = store[f]
      /\ \A i \in Sources \ {proc.active} : store'.index.rows[i] = store.index.rows[i]
  BY <1>1, <1>2 DEF SqliteFlush, StoreFields, IndexShape
<1>5. Typed' /\ OrphanedIsSqlite' /\ CompleteAuditIsExact' /\ CoverageIsOfItsAudit'
  BY <1>1, <1>4, FilesStep DEF IInv, Typed, StoreFields
<1>6. RunTyped'
  <2>1. Known(proc.completed, proc.stats)'
    BY <1>1, <1>3 DEF Known, RunFields
  <2>2. IndexShape(store.index)'
    BY <1>4 DEF IndexShape
  <2> QED
    BY <1>1, <1>3, <2>1, <2>2 DEF IInv, RunTyped, RunFields
<1>7. SourceHeld' /\ ActiveHeld' /\ ReadSoFar' /\ ReportExact'
  BY <1>3 DEF SourceHeld, ActiveHeld, ReadSoFar, OfSource, Reading, ReportExact
<1>8. IndexHeld' /\ CheckpointIsOwn'
  BY <1>1, <1>2, <1>3, <1>4 DEF IInv, StoreHeld, IndexHeld, RowsAre, CheckpointIsOwn, Known, Saved, RunFields,
     Keep, Sqlite, StoreFields
<1>9. SqliteCheckpointHeld'
  <2> SUFFICES ASSUME store.checkpoint # None, NEW i \in store.checkpoint.completed \ store.orphaned
               PROVE  store'.index.rows[i] = All(Keep, i, store.checkpoint.stats[i].version)
    BY <1>1, <1>4 DEF SqliteCheckpointHeld, StoreFields, Keep, Sqlite
  <2>1. i \in Sources /\ i \in proc.completed /\ store.checkpoint.stats[i] = proc.stats[i]
    BY <1>1 DEF IInv, Typed, Known, StoreHeld, CheckpointIsOwn, Saved
  <2> QED
    BY <1>1, <1>2, <1>4, <2>1 DEF IInv, StoreHeld, IndexHeld, RowsAre
<1>10. PartitionedCheckpointHeld'
  BY <1>1 DEF PartitionedCheckpointHeld, Partitioned, Sqlite
<1> QED
  BY <1>5, <1>6, <1>7, <1>8, <1>9, <1>10 DEF IInv, RunHeld, StoreHeld, PublishedHeld

(* One file of the report is replaced.                                      *)
LEMMA PublishHolds == ASSUME IInv, PublishOutput PROVE IInv'
<1>1. /\ proc.cmd = "audit" /\ proc.pc = "publish" /\ proc.out \in 1 .. 3
      /\ DOMAIN proc = RunFields /\ IndexShape(store.index)
      /\ DOMAIN store = StoreFields /\ faults \in 0 .. MaxFaults
      /\ UNCHANGED <<implementation, archive, faults>>
  BY DEF IInv, Typed, RunTyped, PublishOutput, Auditing
<1>2. Outputs[proc.out] \in {"matches", "coverage", "collisions"}
  BY <1>1 DEF Outputs
<1>3. /\ DOMAIN store' = StoreFields
      /\ \A f \in {"index", "checkpoint", "manifest", "derived", "orphaned", "doubtful"} : store'[f] = store[f]
  BY <1>1, <1>2 DEF PublishOutput, StoreFields
<1>4. /\ DOMAIN proc' = RunFields /\ proc'.pc \in {"publish", "manifest"} /\ proc'.out \in 1 .. 3
      /\ \A f \in RunFields \ {"pc", "out"} : proc'[f] = proc[f]
  <2>1. CASE proc.out < 3
    BY <1>1, <2>1 DEF PublishOutput, RunFields
  <2>2. CASE ~(proc.out < 3)
    BY <1>1, <2>2 DEF PublishOutput, RunFields
  <2> QED
    BY <2>1, <2>2
<1>5. Typed' /\ OrphanedIsSqlite' /\ CompleteAuditIsExact' /\ CoverageIsOfItsAudit'
  BY <1>1, <1>3, FilesStep DEF IInv, Typed, StoreFields
<1>6. RunTyped'
  <2>1. Known(proc.completed, proc.stats)'
    BY <1>1, <1>4 DEF IInv, RunTyped, Known, RunFields
  <2>2. IndexShape(store.index)'
    BY <1>1, <1>3 DEF IndexShape
  <2> QED
    BY <1>1, <1>4, <2>1, <2>2 DEF IInv, RunTyped, RunFields
<1>7. SourceHeld' /\ ActiveHeld' /\ ReadSoFar'
  BY <1>4 DEF SourceHeld, ActiveHeld, ReadSoFar, OfSource, Reading
<1>8. ReportExact'
  BY <1>1, <1>3, <1>4 DEF IInv, PublishedHeld, ReportExact, RunFields
<1>9. IndexHeld' /\ CheckpointIsOwn'
  BY <1>1, <1>3, <1>4 DEF IInv, StoreHeld, IndexHeld, RowsAre, CheckpointIsOwn, Saved, RunFields, Keep, Sqlite
<1>10. SqliteCheckpointHeld'
  BY <1>1, <1>3, <1>4 DEF IInv, StoreHeld, SqliteCheckpointHeld, Overdrawn, RunFields, Keep, Sqlite
<1>11. PartitionedCheckpointHeld'
  BY <1>1, <1>3 DEF IInv, StoreHeld, PartitionedCheckpointHeld, RowsAre, Keep, Sqlite, Partitioned
<1> QED
  BY <1>5, <1>6, <1>7, <1>8, <1>9, <1>10, <1>11 DEF IInv, RunHeld, StoreHeld, PublishedHeld

-----------------------------------------------------------------------------
(* The steps that leave no run behind.                                      *)

(* What every step between and after runs keeps.                            *)
LEMMA NoRunHolds ==
    ASSUME IInv, UNCHANGED implementation, archive' = archive, faults' \in 0 .. MaxFaults,
           proc'.cmd \in {"none", "rematch"},
           DOMAIN store' = StoreFields,
           \A f \in {"index", "checkpoint"} : store'[f] = store[f],
           store'.orphaned \subseteq Sources, store'.doubtful \in BOOLEAN,
           (store'.orphaned # {} \/ store'.doubtful) => Sqlite,
           SqliteCheckpointHeld', CompleteAuditIsExact', CoverageIsOfItsAudit'
    PROVE  IInv'
<1>1. Typed'
  BY DEF IInv, Typed, Known, IndexShape
<1>2. RunTyped' /\ RunHeld' /\ ReportExact' /\ IndexHeld' /\ CheckpointIsOwn'
  BY DEF RunTyped, RunHeld, SourceHeld, ReadSoFar, ActiveHeld, ReportExact, IndexHeld, CheckpointIsOwn
<1>3. PartitionedCheckpointHeld' /\ OrphanedIsSqlite'
  BY DEF IInv, StoreHeld, PartitionedCheckpointHeld, OrphanedIsSqlite, RowsAre, Keep, Sqlite, Partitioned
<1> QED
  BY <1>1, <1>2, <1>3 DEF IInv, StoreHeld, PublishedHeld

(* The manifest of a complete run is that of an exact report; and of the    *)
(* sources the checkpoint names the index has all rows.                     *)
LEMMA ManifestHolds == ASSUME IInv, WriteManifest PROVE IInv'
<1>1. /\ proc.cmd = "audit" /\ proc.pc = "manifest"
      /\ DOMAIN store = StoreFields /\ faults \in 0 .. MaxFaults
      /\ UNCHANGED <<implementation, archive, faults>>
      /\ proc' = Idle /\ proc'.cmd = "none"
      /\ store.orphaned \subseteq Sources
  BY DEF IInv, Typed, RunTyped, WriteManifest, Auditing, Idle
<1>2. /\ DOMAIN store' = StoreFields /\ store'.manifest = ManifestOf(proc.report)
      /\ \A f \in StoreFields \ {"manifest", "doubtful"} : store'[f] = store[f]
  BY <1>1 DEF WriteManifest, StoreFields
<1>3. store'.doubtful = (store.orphaned # {})
  BY <1>1 DEF WriteManifest, StoreFields
<1>4. CompleteAuditIsExact'
  <2> SUFFICES ASSUME store'.manifest.complete, store.orphaned = {}, NEW r \in Rows
               PROVE  store'.manifest.outputs.matches[r] = Occurrences(store'.manifest.stats, r)
    BY <1>3 DEF CompleteAuditIsExact
  <2>1. ~proc.exhausted /\ proc.completed = Sources
    BY <1>2 DEF ManifestOf
  <2>2. proc.report.matches[r] = Occurrences(proc.stats, r)
    BY <1>1, <2>1 DEF IInv, PublishedHeld, ReportExact
  <2> QED
    BY <1>2, <2>2 DEF ManifestOf
<1>5. CoverageIsOfItsAudit'
  BY <1>2 DEF IInv, PublishedHeld, CoverageIsOfItsAudit, StoreFields
<1>6. SqliteCheckpointHeld'
  <2> SUFFICES ASSUME Sqlite, store.checkpoint # None, NEW i \in store.checkpoint.completed \ store.orphaned
               PROVE  store.index.rows[i] = All(Keep, i, store.checkpoint.stats[i].version)
    BY <1>1, <1>2 DEF SqliteCheckpointHeld, StoreFields, Keep, Sqlite
  <2>1. i \in proc.completed /\ store.checkpoint.stats[i] = proc.stats[i]
    BY <1>1 DEF IInv, StoreHeld, CheckpointIsOwn, Saved
  <2> QED
    BY <1>1, <2>1 DEF IInv, StoreHeld, IndexHeld, RowsAre
<1>7. (store'.orphaned # {} \/ store'.doubtful) => Sqlite
  BY <1>2, <1>3 DEF IInv, StoreHeld, OrphanedIsSqlite, StoreFields
<1>8. store'.orphaned \subseteq Sources /\ store'.doubtful \in BOOLEAN
  BY <1>1, <1>2, <1>3 DEF StoreFields
<1> QED
  BY <1>1, <1>2, <1>4, <1>5, <1>6, <1>7, <1>8, NoRunHolds DEF StoreFields

(* A run that is killed: it is recorded which sources the checkpoint names  *)
(* without their rows.                                                      *)
LEMMA InterruptedHolds == ASSUME IInv, Interrupted PROVE IInv'
<1>1. /\ DOMAIN store = StoreFields /\ faults' \in 0 .. MaxFaults
      /\ UNCHANGED <<implementation, archive>> /\ proc'.cmd = "none"
      /\ store.orphaned \subseteq Sources /\ store.doubtful \in BOOLEAN
  BY BoundAssumption DEF IInv, Typed, Interrupted, Crash, Fault, Idle
<1>2. /\ DOMAIN store' = StoreFields /\ store'.orphaned = store.orphaned \union Overdrawn
      /\ \A f \in StoreFields \ {"orphaned"} : store'[f] = store[f]
  BY <1>1 DEF Interrupted, StoreFields
<1>3. Overdrawn \subseteq Sources /\ (Overdrawn # {} => Sqlite)
  BY DEF Overdrawn, IInv, Typed, Known
<1>4. store'.orphaned \subseteq Sources /\ store'.doubtful \in BOOLEAN
  BY <1>1, <1>2, <1>3 DEF StoreFields
<1>5. (store'.orphaned # {} \/ store'.doubtful) => Sqlite
  BY <1>2, <1>3 DEF IInv, StoreHeld, OrphanedIsSqlite, StoreFields
<1>6. CompleteAuditIsExact' /\ CoverageIsOfItsAudit'
  BY <1>2 DEF IInv, PublishedHeld, CompleteAuditIsExact, CoverageIsOfItsAudit, StoreFields
<1>7. SqliteCheckpointHeld'
  <2> SUFFICES ASSUME Sqlite, store.checkpoint # None, NEW i \in store.checkpoint.completed,
                      i \notin store.orphaned, i \notin Overdrawn
               PROVE  store.index.rows[i] = All(Keep, i, store.checkpoint.stats[i].version)
    BY <1>1, <1>2 DEF SqliteCheckpointHeld, StoreFields, Keep, Sqlite
  <2> QED
    BY DEF IInv, StoreHeld, SqliteCheckpointHeld
<1> QED
  BY <1>1, <1>2, <1>4, <1>5, <1>6, <1>7, NoRunHolds DEF StoreFields

(* A run that raises out of the command.                                    *)
LEMMA RaiseHolds == ASSUME IInv, PartitionedRaise PROVE IInv'
<1>1. /\ DOMAIN store = StoreFields /\ faults' \in 0 .. MaxFaults /\ Partitioned
      /\ UNCHANGED <<implementation, archive, store>> /\ proc'.cmd = "none"
      /\ store.orphaned \subseteq Sources /\ store.doubtful \in BOOLEAN
  BY BoundAssumption DEF IInv, Typed, PartitionedRaise, Breach, Fault, Idle
<1>2. CompleteAuditIsExact' /\ CoverageIsOfItsAudit'
  BY <1>1 DEF IInv, PublishedHeld, CompleteAuditIsExact, CoverageIsOfItsAudit
<1>3. SqliteCheckpointHeld'
  BY <1>1 DEF SqliteCheckpointHeld, Partitioned, Sqlite
<1> QED
  BY <1>1, <1>2, <1>3, NoRunHolds DEF IInv, StoreHeld, OrphanedIsSqlite

(* A rematch, which writes its own files.                                   *)
LEMMA RematchHolds ==
    ASSUME IInv, Rematch \/ WriteRematchManifest
    PROVE  IInv'
<1>1. /\ DOMAIN store = StoreFields /\ faults \in 0 .. MaxFaults
      /\ UNCHANGED <<implementation, archive, faults>>
      /\ proc.cmd # "audit" /\ proc'.cmd \in {"none", "rematch"}
      /\ store.orphaned \subseteq Sources /\ store.doubtful \in BOOLEAN
  BY DEF IInv, Typed, Rematch, WriteRematchManifest, Idle
<1>2. /\ DOMAIN store' = StoreFields
      /\ \A f \in StoreFields \ {"rematch", "rematchFiles"} : store'[f] = store[f]
  BY <1>1 DEF Rematch, WriteRematchManifest, StoreFields
<1>3. CompleteAuditIsExact' /\ CoverageIsOfItsAudit'
  BY <1>2 DEF IInv, PublishedHeld, CompleteAuditIsExact, CoverageIsOfItsAudit, StoreFields
<1>4. SqliteCheckpointHeld'
  BY <1>1, <1>2 DEF IInv, StoreHeld, SqliteCheckpointHeld, Overdrawn, StoreFields, Keep, Sqlite
<1> QED
  BY <1>1, <1>2, <1>3, <1>4, NoRunHolds DEF StoreFields, IInv, StoreHeld, OrphanedIsSqlite

(* Coverage is derived from files that are those of the manifest, which is  *)
(* complete.                                                                *)
LEMMA DeriveHolds == ASSUME IInv, Derive PROVE IInv'
<1>1. /\ DOMAIN store = StoreFields /\ faults \in 0 .. MaxFaults
      /\ UNCHANGED <<implementation, archive, faults, proc>>
      /\ proc.cmd = "none" /\ ValidAudit
      /\ store.orphaned \subseteq Sources /\ store.doubtful \in BOOLEAN
  BY DEF IInv, Typed, Derive
<1>2. PICK matches, from :
        /\ DeriveFrom(matches, from)
        /\ from = "audit" => matches = store.matches
  BY DEF Derive
<1>3. /\ DOMAIN store' = StoreFields
      /\ \A f \in StoreFields \ {"derived"} : store'[f] = store[f]
      /\ store'.derived.from = from /\ store'.derived.stats = store.manifest.stats
      /\ store'.derived.unresolved = {r \in Rows : matches[r] = {}}
  BY <1>1, <1>2 DEF DeriveFrom, StoreFields
<1>4. CompleteAuditIsExact'
  BY <1>3 DEF IInv, PublishedHeld, CompleteAuditIsExact, StoreFields
<1>5. CoverageIsOfItsAudit'
  <2> SUFFICES ASSUME from = "audit", NEW r \in Rows
               PROVE  r \in store'.derived.unresolved <=> Occurrences(store'.derived.stats, r) = {}
    BY <1>3 DEF CoverageIsOfItsAudit
  <2>1. store.manifest # None /\ store.manifest.complete /\ ~store.doubtful
        /\ store.manifest.outputs.matches = store.matches
    BY <1>1 DEF ValidAudit, Published, IInv, StoreHeld, OrphanedIsSqlite, Partitioned, Sqlite
  <2>2. store.matches[r] = Occurrences(store.manifest.stats, r)
    BY <2>1 DEF IInv, PublishedHeld, CompleteAuditIsExact
  <2> QED
    BY <1>2, <1>3, <2>2
<1>6. SqliteCheckpointHeld'
  BY <1>1, <1>3 DEF IInv, StoreHeld, SqliteCheckpointHeld, Overdrawn, StoreFields, Keep, Sqlite
<1> QED
  BY <1>1, <1>3, <1>4, <1>5, <1>6, NoRunHolds DEF StoreFields, IInv, StoreHeld, OrphanedIsSqlite

(* An archive is delivered again, or put back: what is on disk is among     *)
(* what the run has seen, and nothing that was indexed is touched.          *)
LEMMA ReplaceHolds == ASSUME IInv, ReplaceArchive PROVE IInv'
<1>1. UNCHANGED <<implementation, store>> /\ faults' \in 0 .. MaxFaults
  BY BoundAssumption DEF ReplaceArchive, Fault, IInv, Typed
<1>2. PICK i, v :
        /\ i \in Sources
        /\ v \in DOMAIN Content[i]
        /\ archive' = [archive EXCEPT ![i] = v]
        /\ proc' = IF proc.cmd = "audit" THEN [proc EXCEPT !.seen[i] = @ \union {v}] ELSE proc
  BY DEF ReplaceArchive
<1>3. DOMAIN archive' = Sources /\ \A j \in Sources : archive'[j] \in DOMAIN Content[j]
  BY <1>2 DEF IInv, Typed
<1>4. proc'.cmd = proc.cmd
  <2>1. CASE proc.cmd = "audit"
    BY <1>2, <2>1 DEF IInv, RunTyped, RunFields
  <2> QED
    BY <1>2, <2>1
<1>5. proc.cmd = "audit" =>
        /\ DOMAIN proc' = RunFields
        /\ \A f \in RunFields \ {"seen"} : proc'[f] = proc[f]
        /\ proc'.seen = [proc.seen EXCEPT ![i] = @ \union {v}]
  BY <1>2 DEF IInv, RunTyped, RunFields
<1>6. Typed'
  BY <1>1, <1>3 DEF IInv, Typed, Known, IndexShape
<1>7. proc.cmd = "audit" =>
        /\ DOMAIN proc'.seen = Sources
        /\ \A j \in Sources : archive'[j] \in proc'.seen[j] /\ proc.seen[j] \subseteq proc'.seen[j]
  BY <1>2, <1>5 DEF IInv, Typed, RunTyped
<1>8. RunTyped'
  <2>1. CASE proc.cmd = "audit"
    <3>1. \A j \in proc.completed : j \in Sources /\ proc.stats[j].version \in proc'.seen[j]
      BY <1>7, <2>1 DEF IInv, RunTyped, Known
    <3>2. Known(proc.completed, proc.stats)'
      BY <1>5, <2>1 DEF IInv, RunTyped, Known, RunFields
    <3>3. IndexShape(store.index)'
      BY <1>1, <2>1 DEF IInv, RunTyped, IndexShape
    <3> QED
      BY <1>4, <1>5, <1>7, <2>1, <3>1, <3>2, <3>3 DEF IInv, RunTyped, RunFields
  <2>2. CASE proc.cmd # "audit"
    BY <1>4, <2>2 DEF IInv, RunTyped
  <2> QED
    BY <2>1, <2>2
<1>9. SourceHeld'
  <2> SUFFICES ASSUME proc.cmd = "audit", proc'.pc \in OfSource
               PROVE  /\ proc'.at \in Sources /\ proc'.version \in DOMAIN Content[proc'.at]
                      /\ proc'.version \in proc'.seen[proc'.at]
    BY <1>4 DEF SourceHeld, OfSource, Reading
  <2>1. /\ proc.at \in Sources /\ proc.version \in DOMAIN Content[proc.at]
        /\ proc.version \in proc.seen[proc.at]
    BY <1>5 DEF IInv, RunHeld, SourceHeld, RunFields
  <2> QED
    BY <1>5, <1>7, <2>1 DEF RunFields
<1>10. ReadSoFar' /\ ActiveHeld' /\ ReportExact'
  BY <1>1, <1>4, <1>5 DEF IInv, RunHeld, PublishedHeld, ReadSoFar, ActiveHeld, ReportExact, Keep, Sqlite,
     Partitioned, Text, RunFields
<1>11. IndexHeld' /\ CheckpointIsOwn' /\ PartitionedCheckpointHeld' /\ OrphanedIsSqlite'
  BY <1>1, <1>4, <1>5 DEF IInv, StoreHeld, IndexHeld, RowsAre, CheckpointIsOwn, PartitionedCheckpointHeld,
     OrphanedIsSqlite, Keep, Sqlite, Partitioned, RunFields
<1>12. SqliteCheckpointHeld'
  <2>1. Overdrawn' = Overdrawn
    <3>1. proc.cmd = "audit" => proc'.completed = proc.completed /\ proc'.stats = proc.stats
      BY <1>5 DEF RunFields
    <3> QED
      BY <1>1, <1>4, <3>1 DEF Overdrawn, Sqlite
  <2> QED
    BY <1>1, <2>1 DEF IInv, StoreHeld, SqliteCheckpointHeld, Keep, Sqlite
<1>13. CompleteAuditIsExact' /\ CoverageIsOfItsAudit'
  BY <1>1 DEF IInv, PublishedHeld, CompleteAuditIsExact, CoverageIsOfItsAudit
<1> QED
  BY <1>6, <1>8, <1>9, <1>10, <1>11, <1>12, <1>13 DEF IInv, RunHeld, StoreHeld, PublishedHeld

-----------------------------------------------------------------------------
(* Every step keeps the invariant.                                          *)
LEMMA StepHolds == IInv /\ [Next]_vars => IInv'
<1> SUFFICES ASSUME IInv, [Next]_vars
             PROVE  IInv'
  OBVIOUS
<1>1. CASE Start \/ StartUnreadable
  BY <1>1, StartSqliteHolds, StartPartitionedHolds, StartUnreadableHolds DEF Start
<1>2. CASE SqliteStep
  BY <1>2, OpenHolds, SqliteReadHolds, AcceptHolds, SqliteRejectHolds, CheckpointHolds, FlushHolds,
     ReportHolds DEF SqliteStep
<1>3. CASE PartitionedStep
  BY <1>3, OpenHolds, PartitionedReadHolds, AcceptHolds, DropHolds, CheckpointHolds, ReportHolds
     DEF PartitionedStep
<1>4. CASE EndOfSource \/ AllOpened \/ FinalCheckpoint \/ PublishOutput \/ WriteManifest
  BY <1>4, EndHolds, AllOpenedHolds, CheckpointHolds, PublishHolds, ManifestHolds
<1>5. CASE SourceReadError \/ SqliteBudget \/ PartitionedBudget \/ PartitionedRaise \/ PartitionedWithhold
  BY <1>5, EndHolds, SqliteRejectHolds, DropHolds, RaiseHolds, WithholdHolds
<1>6. CASE Interrupted \/ ReplaceArchive \/ Rematch \/ WriteRematchManifest \/ Derive
  BY <1>6, InterruptedHolds, ReplaceHolds, RematchHolds, DeriveHolds
<1>7. CASE UNCHANGED vars
  <2> USE <1>7 DEF vars
  <2>1. Typed' /\ RunTyped'
    BY DEF IInv, Typed, RunTyped, Known, IndexShape
  <2>2. SourceHeld' /\ ReadSoFar' /\ ActiveHeld'
    BY DEF IInv, RunHeld, SourceHeld, ReadSoFar, ActiveHeld, Keep, Sqlite, Partitioned, Text
  <2>3. StoreHeld'
    BY DEF IInv, StoreHeld, IndexHeld, CheckpointIsOwn, SqliteCheckpointHeld, PartitionedCheckpointHeld,
       OrphanedIsSqlite, RowsAre, Overdrawn, Keep, Sqlite, Partitioned
  <2>4. PublishedHeld'
    BY DEF IInv, PublishedHeld, ReportExact, CompleteAuditIsExact, CoverageIsOfItsAudit
  <2> QED
    BY <2>1, <2>2, <2>3, <2>4 DEF IInv, RunHeld
<1> QED
  BY <1>1, <1>2, <1>3, <1>4, <1>5, <1>6, <1>7 DEF Next, Step

-----------------------------------------------------------------------------
(* The types of what is indexed and of what is reported.                    *)

(* A source has finitely many lines, and they are numbered.                 *)
LEMMA OwnLinesType ==
    ASSUME NEW i \in Sources
    PROVE  IsFiniteSet(OwnLines(i)) /\ \A h \in OwnLines(i) : h[1] \in Nat
<1> DEFINE Of(v) == {<<n, Content[i][v][n]>> : n \in DOMAIN Content[i][v]}
           V == DOMAIN Content[i]
           T == {Of(v) : v \in V}
           f == [v \in V |-> Of(v)]
<1>1. IsFiniteSet(V)
  BY VersionsType, FS_Interval
<1>2. f \in Surjection(V, T)
  BY DEF Surjection
<1>3. IsFiniteSet(T)
  BY <1>1, <1>2, FS_Surjection
<1>4. ASSUME NEW v \in V
      PROVE  IsFiniteSet(Of(v)) /\ \A h \in Of(v) : h[1] \in Nat
  <2> DEFINE D == DOMAIN Content[i][v]
             g == [n \in D |-> <<n, Content[i][v][n]>>]
  <2>1. D = 1 .. Len(Content[i][v]) /\ Len(Content[i][v]) \in Nat
    BY LinesType
  <2>2. IsFiniteSet(D)
    BY <2>1, FS_Interval
  <2>3. g \in Surjection(D, Of(v))
    BY DEF Surjection
  <2>4. IsFiniteSet(Of(v))
    BY <2>2, <2>3, FS_Surjection
  <2> QED
    BY <2>1, <2>4
<1>5. OwnLines(i) = UNION T
  BY DEF OwnLines
<1>6. IsFiniteSet(UNION T)
  BY <1>3, <1>4, FS_UNION
<1>7. \A h \in UNION T : h[1] \in Nat
  BY <1>4
<1> QED
  BY <1>5, <1>6, <1>7

(* The rows that were read of a source are lines of it.                     *)
LEMMA UptoIsOwn ==
    ASSUME NEW keep, NEW i \in Sources, NEW v \in DOMAIN Content[i],
           NEW n \in 0 .. Len(Content[i][v])
    PROVE  Upto(keep, i, v, n) \subseteq OwnLines(i)
<1>1. 1 .. n \subseteq DOMAIN Content[i][v]
  BY LinesType
<1> QED
  BY <1>1 DEF Upto, OwnLines

(* So are all rows of it.                                                   *)
LEMMA AllIsOwn ==
    ASSUME NEW keep, NEW i \in Sources, NEW v \in DOMAIN Content[i]
    PROVE  All(keep, i, v) \subseteq OwnLines(i)
<1>1. Len(Content[i][v]) \in 0 .. Len(Content[i][v])
  BY LinesType
<1> QED
  BY <1>1, UptoIsOwn DEF All

(* A report over rows of the sources.                                       *)
LEMMA ReportType ==
    ASSUME NEW rows, NEW sources \in SUBSET Sources, NEW stats, IsStats(stats),
           \A i \in sources : rows[i] \subseteq OwnLines(i)
    PROVE  IsReport(ReportOf(rows, sources, stats))
<1> DEFINE report == ReportOf(rows, sources, stats)
<1>1. DOMAIN report = ToSet(Outputs)
  BY DEF ReportOf, ToSet, Outputs
<1>2. \A i \in sources : \A h \in rows[i] : h[1] \in Nat
  BY OwnLinesType
<1>3. \A r \in Rows : Matched(rows, sources, r) \subseteq Sources \X Nat
  BY <1>2 DEF Matched
<1>4. report.matches \in [Rows -> SUBSET (Sources \X Nat)]
  BY <1>3 DEF ReportOf
<1>5. ASSUME NEW i \in Sources
      PROVE  \/ report.coverage[i] = None
             \/ report.coverage[i] \in [stat : Stat(i), matched : Nat]
  <2> DEFINE hits == {h \in rows[i] : h[2] \in Targets}
  <2>1. stats[i] = None => report.coverage[i] = None
    BY DEF ReportOf
  <2>2. stats[i] # None => report.coverage[i] = [stat |-> stats[i],
             matched |-> IF i \in sources THEN Cardinality(hits) ELSE 0]
    BY DEF ReportOf
  <2>3. i \in sources => Cardinality(hits) \in Nat
    <3>1. i \in sources => hits \subseteq OwnLines(i)
      OBVIOUS
    <3>2. IsFiniteSet(OwnLines(i))
      BY OwnLinesType
    <3> HIDE DEF hits
    <3> QED
      BY <3>1, <3>2, FS_Subset, FS_CardinalityType
  <2>4. stats[i] # None => stats[i] \in Stat(i)
    BY DEF IsStats
  <2> HIDE DEF hits, report
  <2> QED
    BY <2>1, <2>2, <2>3, <2>4
<1>6. DOMAIN report.coverage = Sources
  BY DEF ReportOf
<1>7. report.collisions \subseteq Identity
  BY DEF ReportOf
<1> SUFFICES IsReport(report)
  OBVIOUS
<1> HIDE DEF report
<1> QED
  BY <1>1, <1>4, <1>5, <1>6, <1>7 DEF IsReport, IsMatches, IsCoverage, IsCollisions

(* Nothing that is kept or published depends on which command runs.         *)
LEMMA KeptUnchanged ==
    ASSUME IsKept, IsPublished, UNCHANGED <<implementation, store>>
    PROVE  IsKept' /\ IsPublished'
<1>1. \A index : IsIndex(index) => IsIndex(index)'
  BY DEF IsIndex, Partitioned
<1> QED
  BY <1>1 DEF IsKept, IsPublished, IsCheckpoint, IsIndex, Partitioned

(* What is left to show of the types, given the invariant: of the files, of *)
(* an audit, or of no audit.                                                *)
LEMMA TypesFrom ==
    ASSUME IInv', IsKept', IsPublished',
           \/ proc' = Idle
           \/ proc'.cmd = "audit" /\ IsScan' /\ IsResult' /\ IsSeen' /\ IsIndex(store.index)'
           \/ /\ proc' = [cmd |-> "rematch"]
              /\ IsManifest(store.manifest)' /\ IsReport(store.rematchFiles)'
    PROVE  TypeOK'
<1>1. DOMAIN NoStore = StoreFields /\ (DOMAIN Began({}, NoStats))' = RunFields
  BY DEF NoStore, StoreFields, Began, RunFields
<1>2. /\ implementation' \in {"sqlite", "partitioned"}
      /\ DOMAIN archive' = Sources /\ \A i \in Sources : archive'[i] \in DOMAIN Content[i]
      /\ faults' \in 0 .. MaxFaults
      /\ DOMAIN store' = DOMAIN NoStore
      /\ store'.orphaned \subseteq Sources /\ store'.doubtful \in BOOLEAN
  BY <1>1 DEF IInv, Typed
<1>3. CASE proc'.cmd = "audit" /\ IsScan' /\ IsResult' /\ IsSeen' /\ IsIndex(store.index)'
  <2>1. /\ DOMAIN proc' = RunFields
        /\ proc'.pc \in {"open", "final", "report", "publish", "manifest"} \union OfSource
        /\ proc'.used \in Nat /\ proc'.out \in 1 .. 3
        /\ proc'.errors \in BOOLEAN /\ proc'.exhausted \in BOOLEAN
    BY <1>3 DEF IInv, RunTyped
  <2>2. IsAudit'
    BY <1>1, <1>3, <2>1 DEF IsAudit, OfSource, Reading
  <2> QED
    BY <1>2, <1>3, <2>2 DEF TypeOK
<1>4. CASE proc' = Idle
  BY <1>2, <1>4 DEF TypeOK, Idle
<1>5. CASE /\ proc' = [cmd |-> "rematch"]
           /\ IsManifest(store.manifest)' /\ IsReport(store.rematchFiles)'
  BY <1>2, <1>5 DEF TypeOK
<1> QED
  BY <1>3, <1>4, <1>5

(* What is known of an audit before its step.                               *)
LEMMA AuditTypes ==
    ASSUME IInv, TypeOK, proc.cmd = "audit"
    PROVE  /\ IsKept /\ IsPublished
           /\ IsScan /\ IsResult /\ IsSeen /\ IsIndex(store.index)
           /\ DOMAIN proc = RunFields /\ DOMAIN store = StoreFields
<1>1. proc # Idle /\ proc # [cmd |-> "rematch"]
  BY DEF Idle
<1> QED
  BY <1>1 DEF TypeOK, IsAudit, IInv, Typed, RunTyped

(* A step within an audit that leaves the files alone.                      *)
LEMMA QuietTypes ==
    ASSUME IInv, IInv', TypeOK, proc.cmd = "audit", proc'.cmd = "audit",
           UNCHANGED <<implementation, store>>, proc'.seen = proc.seen,
           IsScan', IsResult'
    PROVE  TypeOK'
<1>1. IsKept' /\ IsPublished'
  BY AuditTypes, KeptUnchanged
<1>2. IsSeen' /\ IsIndex(store.index)'
  BY AuditTypes DEF IsSeen, IsIndex, Partitioned
<1> QED
  BY <1>1, <1>2, TypesFrom

(* The rows of a line more are lines of the source.                         *)
LEMMA ReadLineTypes ==
    ASSUME IInv, TypeOK, NEW kept, ReadLine(kept)
    PROVE  IsScan' /\ IsResult' /\ proc'.seen = proc.seen /\ proc'.cmd = "audit"
<1>1. proc.cmd = "audit" /\ proc.pc = "scan"
  BY DEF ReadLine, Auditing
<1>2. /\ IsScan /\ IsResult /\ DOMAIN proc = RunFields
      /\ proc.at \in Sources /\ proc.version \in DOMAIN Content[proc.at]
      /\ proc.line + 1 \in DOMAIN Content[proc.at][proc.version]
  <2>1. proc.at \in Sources /\ proc.version \in DOMAIN Content[proc.at] /\ proc.line \in Nat
    BY <1>1, AuditTypes DEF IsScan, IInv, RunHeld, SourceHeld, OfSource, Reading
  <2> QED
    BY <1>1, <2>1, AuditTypes, LinesType DEF ReadLine, HasLine, Text
<1>3. <<proc.line + 1, Line>> \in OwnLines(proc.at)
  BY <1>2 DEF OwnLines, Line, Text
<1>4. /\ \A f \in RunFields \ {"line", "used", "exhausted", "errors", "rows", "pc"} : proc'[f] = proc[f]
      /\ proc'.line = proc.line + 1 /\ proc'.pc \in Reading
      /\ proc'.rows = proc.rows \/ proc'.rows = proc.rows \union {<<proc.line + 1, Line>>}
  BY <1>1, <1>2 DEF ReadLine, RunFields, Reading
<1>5. IsScan'
  BY <1>2, <1>3, <1>4 DEF IsScan, RunFields
<1>6. IsResult'
  BY <1>1, <1>2, <1>4 DEF IsResult, Reading, RunFields
<1> QED
  BY <1>1, <1>4, <1>5, <1>6 DEF RunFields

(* Steps that read, end, reject or report, without a file being written.    *)
LEMMA ScanTypes ==
    ASSUME IInv, IInv', TypeOK, SqliteRead \/ EndOfSource \/ SourceReadError \/ AllOpened
    PROVE  TypeOK'
<1>1. CASE SqliteRead
  <2>1. proc.cmd = "audit" /\ UNCHANGED <<implementation, store>>
    BY <1>1 DEF SqliteRead, ReadLine, Auditing
  <2> QED
    BY <1>1, <2>1, ReadLineTypes, QuietTypes DEF SqliteRead
<1>2. CASE EndOfSource \/ SourceReadError \/ AllOpened
  <2>1. /\ proc.cmd = "audit" /\ UNCHANGED <<implementation, store>>
        /\ IsScan /\ IsResult /\ DOMAIN proc = RunFields
    BY <1>2, AuditTypes DEF EndOfSource, SourceReadError, AllOpened, Auditing
  <2>2. /\ proc'.pc \in {"ended", "final"}
        /\ \A f \in RunFields \ {"pc", "errors", "exhausted"} : proc'[f] = proc[f]
        /\ proc.pc \notin {"publish", "manifest"}
    BY <1>2, <2>1 DEF EndOfSource, SourceReadError, AllOpened, RunFields, Auditing
  <2>3. IsScan' /\ IsResult' /\ proc'.cmd = "audit" /\ proc'.seen = proc.seen
    BY <2>1, <2>2 DEF IsScan, IsResult, RunFields
  <2> QED
    BY <2>1, <2>3, QuietTypes
<1> QED
  BY <1>1, <1>2

(* The statistics of a source that was read.                                *)
LEMMA NotedTypes ==
    ASSUME IInv, IInv', TypeOK, Auditing("ended"), DOMAIN proc' = RunFields,
           \A f \in RunFields \ {"pc", "active", "stats", "rows", "exhausted", "completed"} : proc'[f] = proc[f],
           proc'.stats = [proc.stats EXCEPT ![proc.at] = Report],
           proc'.active = proc.active \/ proc'.active = proc.at,
           proc'.completed \subseteq proc.completed \union {proc.at},
           proc'.rows = proc.rows \/ proc'.rows = {},
           proc'.pc = "checkpoint"
    PROVE  IsScan' /\ IsResult' /\ proc'.seen = proc.seen /\ proc'.cmd = "audit"
<1>1. /\ IsScan /\ IsResult /\ proc.cmd = "audit"
      /\ proc.at \in Sources /\ proc.version \in DOMAIN Content[proc.at]
  BY AuditTypes DEF Auditing, IInv, RunHeld, SourceHeld, OfSource, Reading
<1>2. Report \in Stat(proc.at)
  <2>1. SourceComplete \in BOOLEAN
    BY Zenon DEF SourceComplete
  <2> QED
    BY <1>1, <2>1 DEF Report, Stat
<1>3. proc.report = None \/ IsReport(proc.report)
  BY <1>1 DEF IsResult
<1>4. IsReport(proc.report) => IsReport(proc.report)'
  BY DEF RunFields
<1>5. IsScan'
  BY <1>1 DEF IsScan, RunFields
<1>6. IsStats(proc.stats)' /\ IsCompleted(proc.completed, proc.stats)'
  BY <1>1, <1>2 DEF IsResult, IsStats, IsCompleted
<1>7. IsResult'
  BY <1>1, <1>3, <1>4, <1>6 DEF IsResult, RunFields
<1> QED
  BY <1>1, <1>5, <1>7 DEF RunFields

(* Steps that reject a source, without a file being written.                *)
LEMMA RejectTypes ==
    ASSUME IInv, IInv', TypeOK, SqliteReject \/ SqliteBudget
    PROVE  TypeOK'
<1>1. /\ Auditing("ended") /\ proc.cmd = "audit" /\ UNCHANGED <<implementation, store>>
      /\ DOMAIN proc = RunFields
  BY AuditTypes DEF SqliteReject, SqliteBudget, Auditing
<1>2. /\ DOMAIN proc' = RunFields
      /\ \A f \in RunFields \ {"pc", "active", "stats", "rows", "exhausted"} : proc'[f] = proc[f]
      /\ proc'.pc = "checkpoint" /\ proc'.active = proc.at
      /\ proc'.rows = proc.rows \/ proc'.rows = {}
      /\ proc'.stats = [proc.stats EXCEPT ![proc.at] = Report]
  BY <1>1 DEF SqliteReject, SqliteBudget, RunFields
<1>3. IsScan' /\ IsResult' /\ proc'.seen = proc.seen /\ proc'.cmd = "audit"
  BY <1>1, <1>2, NotedTypes DEF RunFields
<1> QED
  BY <1>1, <1>3, QuietTypes

(* A report is computed, of the index of either kind, or is withheld.       *)
LEMMA ReportTypes ==
    ASSUME IInv, IInv', TypeOK, SqliteReport \/ PartitionedReport \/ PartitionedWithhold
    PROVE  TypeOK'
<1>1. /\ proc.cmd = "audit" /\ UNCHANGED <<implementation, store>>
      /\ IsScan /\ IsResult /\ IsIndex(store.index) /\ DOMAIN proc = RunFields
  BY AuditTypes DEF SqliteReport, PartitionedReport, ComputeReport, PartitionedWithhold, Auditing
<1>2. \A f \in RunFields \ {"pc", "out", "report", "exhausted"} : proc'[f] = proc[f]
  BY <1>1 DEF SqliteReport, PartitionedReport, ComputeReport, PartitionedWithhold, RunFields
<1>3. IsReport(proc'.report)
  <2>1. CASE SqliteReport
    <3>1. \A i \in Sources : store.index.rows[i] \subseteq OwnLines(i)
      BY <1>1, <2>1 DEF SqliteReport, Sqlite, Partitioned, IsIndex
    <3>2. proc'.report = ReportOf(store.index.rows, Sources, proc.stats)
      BY <1>1, <2>1 DEF SqliteReport, ComputeReport, RunFields
    <3> QED
      BY <1>1, <3>1, <3>2, ReportType DEF IsResult
  <2>2. CASE PartitionedReport
    <3>1. store.orphaned = {}
      BY <2>2 DEF PartitionedReport, Partitioned, Sqlite, IInv, StoreHeld, OrphanedIsSqlite
    <3>2. ASSUME NEW i \in proc.completed
          PROVE  i \in Sources /\ store.index.rows[i] \subseteq OwnLines(i)
      <4>1. i \in Sources /\ proc.stats[i] \in Stat(i)
        BY <1>1 DEF IsResult, IsCompleted
      <4>2. store.index.rows[i] = All(Keep, i, proc.stats[i].version)
        BY <1>1, <3>1 DEF IInv, StoreHeld, IndexHeld, RowsAre
      <4> QED
        BY <4>1, <4>2, AllIsOwn DEF Stat
    <3>3. proc'.report = ReportOf(store.index.rows, proc.completed, proc.stats)
      BY <1>1, <2>2 DEF PartitionedReport, ComputeReport, RunFields
    <3> QED
      BY <1>1, <3>2, <3>3, ReportType DEF IsResult
  <2>3. CASE PartitionedWithhold
    <3>1. proc'.report = Empty
      BY <1>1, <2>3 DEF PartitionedWithhold, RunFields
    <3> QED
      BY <3>1 DEF Empty, IsReport, IsMatches, IsCoverage, IsCollisions, ToSet, Outputs
  <2> QED
    BY <2>1, <2>2, <2>3
<1>4. IsReport(proc.report)'
  BY <1>3 DEF IsReport, IsMatches, IsCoverage, IsCollisions, Stat
<1>5. IsScan' /\ IsResult' /\ proc'.cmd = "audit" /\ proc'.seen = proc.seen
  BY <1>1, <1>2, <1>4 DEF IsScan, IsResult, RunFields
<1> QED
  BY <1>1, <1>5, QuietTypes

(* A step within an audit that writes the index.                            *)
LEMMA IndexTypes ==
    ASSUME IInv, IInv', TypeOK, proc.cmd = "audit", proc'.cmd = "audit",
           implementation' = implementation, IsIndex(store.index)',
           \A f \in StoreFields \ {"index", "orphaned"} : store'[f] = store[f],
           proc'.seen = proc.seen, IsScan', IsResult'
    PROVE  TypeOK'
<1>1. IsKept /\ IsPublished /\ IsSeen
  BY AuditTypes
<1>2. \A index : IsIndex(index) => IsIndex(index)'
  BY DEF IsIndex, Partitioned
<1>3. IsKept'
  <2>1. store'.checkpoint = store.checkpoint
    BY DEF StoreFields
  <2>2. store.checkpoint = None \/ IsCheckpoint(store.checkpoint)'
    BY <1>1, <1>2, <2>1 DEF IsKept, IsCheckpoint
  <2> QED
    BY <2>1, <2>2 DEF IsKept
<1>4. IsPublished'
  BY <1>1 DEF IsPublished, StoreFields
<1>5. IsSeen'
  BY <1>1 DEF IsSeen
<1> QED
  BY <1>3, <1>4, <1>5, TypesFrom

(* The next source is opened.                                               *)
LEMMA OpenTypes ==
    ASSUME IInv, IInv', TypeOK, SqliteOpen \/ PartitionedOpen
    PROVE  TypeOK'
<1>1. PICK index : /\ OpenWith(index)
                   /\ \/ Sqlite /\ index = [store.index EXCEPT !.rows[ToOpen] = {}]
                      \/ Partitioned /\ index = [store.index EXCEPT !.staging = {}]
  BY DEF SqliteOpen, PartitionedOpen
<1>2. /\ proc.cmd = "audit" /\ proc.pc = "open" /\ implementation' = implementation
      /\ IsScan /\ IsResult /\ IsIndex(store.index)
      /\ DOMAIN proc = RunFields /\ DOMAIN store = StoreFields
      /\ archive[ToOpen] \in DOMAIN Content[ToOpen] /\ ToOpen \in Sources /\ ToOpen \in Nat \ {0}
  <2>1. proc.cmd = "audit" /\ proc.pc = "open" /\ implementation' = implementation /\ Pending # {}
    BY <1>1 DEF OpenWith, Auditing
  <2>2. ToOpen \in Sources /\ ToOpen \in Nat \ {0}
    BY <2>1, ToOpenType, SourcesType
  <2>3. \A i \in Sources : archive[i] \in DOMAIN Content[i]
    BY DEF IInv, Typed
  <2> QED
    BY <2>1, <2>2, <2>3, AuditTypes
<1> HIDE DEF ToOpen
<1>3. /\ store'.index = index
      /\ \A f \in StoreFields \ {"index", "orphaned"} : store'[f] = store[f]
  BY <1>1, <1>2 DEF OpenWith, StoreFields
<1>4. IsIndex(store.index)'
  <2>1. DOMAIN index = DOMAIN NoIndex /\ DOMAIN index.rows = Sources
    BY <1>1, <1>2 DEF IsIndex, NoIndex
  <2>2. \A i \in Sources : index.rows[i] = store.index.rows[i] \/ index.rows[i] = {}
    BY <1>1, <1>2 DEF IsIndex, NoIndex
  <2>3. index.staging = store.index.staging \/ index.staging = {}
    BY <1>1, <1>2 DEF IsIndex, NoIndex
  <2> QED
    BY <1>2, <1>3, <2>1, <2>2, <2>3 DEF IsIndex, Partitioned
<1>5. /\ \A f \in RunFields \ {"pc", "at", "version", "line", "rows", "errors"} : proc'[f] = proc[f]
      /\ proc'.pc = "scan" /\ proc'.at = ToOpen /\ proc'.version = archive[ToOpen]
      /\ proc'.line = 0 /\ proc'.rows = {}
  BY <1>1, <1>2 DEF OpenWith, RunFields
<1>6. IsScan'
  BY <1>2, <1>5 DEF IsScan
<1>7. IsResult' /\ proc'.cmd = "audit" /\ proc'.seen = proc.seen
  BY <1>2, <1>5 DEF IsResult, RunFields
<1> QED
  BY <1>2, <1>3, <1>4, <1>6, <1>7, IndexTypes

(* A line more is staged.                                                   *)
LEMMA StageTypes ==
    ASSUME IInv, IInv', TypeOK, PartitionedRead
    PROVE  TypeOK'
<1>1. /\ ReadLine(Targets) /\ proc.cmd = "audit" /\ implementation' = implementation
      /\ store' = [store EXCEPT !.index.staging = proc'.rows]
      /\ IsIndex(store.index) /\ DOMAIN store = StoreFields
      /\ proc.pc = "scan" /\ proc.at \in Sources
  BY AuditTypes DEF PartitionedRead, ReadLine, Auditing, IInv, RunHeld, SourceHeld, OfSource, Reading
<1>2. IsScan' /\ IsResult' /\ proc'.seen = proc.seen /\ proc'.cmd = "audit" /\ proc'.at = proc.at
  <2>1. proc'.at = proc.at
    BY <1>1, AuditTypes DEF ReadLine, RunFields
  <2> QED
    BY <1>1, <2>1, ReadLineTypes
<1>3. /\ store'.index = [store.index EXCEPT !.staging = proc'.rows]
      /\ \A f \in StoreFields \ {"index", "orphaned"} : store'[f] = store[f]
  BY <1>1 DEF StoreFields
<1>4. proc'.rows \subseteq OwnLines(proc.at)
  BY <1>2 DEF IsScan
<1>5. IsIndex(store.index)'
  <2>1. DOMAIN store'.index = DOMAIN NoIndex /\ store'.index.rows = store.index.rows
        /\ store'.index.staging = proc'.rows
    BY <1>1, <1>3 DEF IsIndex, NoIndex
  <2> QED
    BY <1>1, <1>4, <2>1 DEF IsIndex, Partitioned
<1> QED
  BY <1>1, <1>2, <1>3, <1>5, IndexTypes

(* A source is completed, or dropped.                                       *)
LEMMA EndedTypes ==
    ASSUME IInv, IInv', TypeOK,
           SqliteAccept \/ PartitionedAccept \/ PartitionedReject \/ PartitionedBudget
    PROVE  TypeOK'
<1>1. /\ Auditing("ended") /\ proc.cmd = "audit" /\ proc.pc = "ended"
      /\ implementation' = implementation
      /\ IsScan /\ IsIndex(store.index) /\ DOMAIN proc = RunFields /\ DOMAIN store = StoreFields
      /\ proc.at \in Sources
      /\ Partitioned => store.index.staging = proc.rows
  BY AuditTypes DEF SqliteAccept, PartitionedAccept, PartitionedReject, PartitionedBudget, Drop, Auditing,
     IInv, RunHeld, SourceHeld, ReadSoFar, OfSource, Reading
<1>2. /\ DOMAIN proc' = RunFields
      /\ \A f \in RunFields \ {"pc", "active", "stats", "rows", "exhausted", "completed"} : proc'[f] = proc[f]
      /\ proc'.stats = [proc.stats EXCEPT ![proc.at] = Report]
      /\ proc'.active = proc.active \/ proc'.active = proc.at
      /\ proc'.completed \subseteq proc.completed \union {proc.at}
      /\ proc'.rows = proc.rows
      /\ proc'.pc = "checkpoint"
  BY <1>1 DEF SqliteAccept, PartitionedAccept, PartitionedReject, PartitionedBudget, RunFields
<1>3. IsScan' /\ IsResult' /\ proc'.seen = proc.seen /\ proc'.cmd = "audit"
  BY <1>1, <1>2, NotedTypes
<1>4. \A f \in StoreFields \ {"index", "orphaned"} : store'[f] = store[f]
  BY <1>1 DEF SqliteAccept, PartitionedAccept, PartitionedReject, PartitionedBudget, Drop, StoreFields
<1>5. proc.rows \subseteq OwnLines(proc.at)
  BY <1>1 DEF IsScan
<1>6. /\ DOMAIN store'.index = DOMAIN NoIndex /\ DOMAIN store'.index.rows = Sources
      /\ \A i \in Sources \ {proc.at} : store'.index.rows[i] = store.index.rows[i]
      /\ store'.index.rows[proc.at] = proc.rows \/ store'.index.rows[proc.at] = store.index.rows[proc.at]
      /\ store'.index.staging = store.index.staging \/ store'.index.staging = None
  <2> USE <1>1 DEF IsIndex, NoIndex, StoreFields
  <2>1. CASE SqliteAccept
    BY <2>1 DEF SqliteAccept
  <2>2. CASE PartitionedAccept
    BY <2>2 DEF PartitionedAccept
  <2>3. CASE PartitionedReject \/ PartitionedBudget
    BY <2>3 DEF PartitionedReject, PartitionedBudget, Drop
  <2> QED
    BY <2>1, <2>2, <2>3
<1>7. IsIndex(store.index)'
  BY <1>1, <1>5, <1>6 DEF IsIndex, Partitioned
<1> QED
  BY <1>1, <1>3, <1>4, <1>7, IndexTypes

(* The rows of a rejected source are committed.                             *)
LEMMA FlushTypes ==
    ASSUME IInv, IInv', TypeOK, SqliteFlush
    PROVE  TypeOK'
<1>1. /\ proc.cmd = "audit" /\ proc.pc = "flush" /\ implementation' = implementation
      /\ IsScan /\ IsResult /\ IsIndex(store.index) /\ DOMAIN proc = RunFields /\ DOMAIN store = StoreFields
      /\ proc.at \in Sources /\ proc.active = proc.at
  BY AuditTypes DEF SqliteFlush, Auditing, IInv, RunHeld, SourceHeld, ActiveHeld, OfSource
<1>2. proc'.pc = "final" /\ \A f \in RunFields \ {"pc"} : proc'[f] = proc[f]
  BY <1>1 DEF SqliteFlush, RunFields
<1>3. IsScan' /\ IsResult' /\ proc'.seen = proc.seen /\ proc'.cmd = "audit"
  BY <1>1, <1>2 DEF IsScan, IsResult, RunFields
<1>4. /\ \A f \in StoreFields \ {"index", "orphaned"} : store'[f] = store[f]
      /\ DOMAIN store'.index = DOMAIN NoIndex /\ DOMAIN store'.index.rows = Sources
      /\ \A i \in Sources \ {proc.at} : store'.index.rows[i] = store.index.rows[i]
      /\ store'.index.rows[proc.at] = proc.rows
      /\ store'.index.staging = store.index.staging
  BY <1>1 DEF SqliteFlush, IsIndex, NoIndex, StoreFields
<1>5. IsIndex(store.index)'
  BY <1>1, <1>4 DEF IsIndex, IsScan, Partitioned
<1> QED
  BY <1>1, <1>3, <1>4, <1>5, IndexTypes

(* A checkpoint is written.                                                 *)
LEMMA SavedTypes ==
    ASSUME IInv, IInv', TypeOK, SqliteCheckpoint \/ PartitionedCheckpoint \/ FinalCheckpoint
    PROVE  TypeOK'
<1>1. PICK complete \in BOOLEAN : store' = [store EXCEPT !.checkpoint = Checkpoint(complete)]
  <2>1. CASE FinalCheckpoint
    <3>1. (~proc.exhausted /\ proc.completed = Sources) \in BOOLEAN
      BY Zenon
    <3> QED
      BY <2>1, <3>1 DEF FinalCheckpoint
  <2>2. CASE SqliteCheckpoint \/ PartitionedCheckpoint
    BY <2>2 DEF SqliteCheckpoint, PartitionedCheckpoint, SaveCheckpoint
  <2> QED
    BY <2>1, <2>2
<1>2. /\ proc.cmd = "audit" /\ implementation' = implementation /\ proc.pc \notin {"publish", "manifest"}
      /\ IsKept /\ IsPublished /\ IsSeen
      /\ IsScan /\ IsResult /\ IsIndex(store.index) /\ DOMAIN proc = RunFields /\ DOMAIN store = StoreFields
  BY AuditTypes DEF SqliteCheckpoint, PartitionedCheckpoint, SaveCheckpoint, FinalCheckpoint, Auditing
<1>3. /\ \A f \in RunFields \ {"pc"} : proc'[f] = proc[f]
      /\ proc'.pc \in {"open", "flush", "final", "report"}
  BY <1>2 DEF SqliteCheckpoint, PartitionedCheckpoint, SaveCheckpoint, FinalCheckpoint, RunFields
<1>4. IsScan' /\ IsResult' /\ IsSeen' /\ proc'.cmd = "audit"
  BY <1>2, <1>3 DEF IsScan, IsResult, IsSeen, RunFields
<1>5. /\ \A f \in StoreFields \ {"checkpoint"} : store'[f] = store[f]
      /\ store'.checkpoint = Checkpoint(complete)
  BY <1>1, <1>2 DEF StoreFields
<1>6. IsIndex(store.index)'
  BY <1>2, <1>5 DEF IsIndex, Partitioned, StoreFields
<1>7. IsCheckpoint(store.checkpoint)'
  <2> DEFINE c == store'.checkpoint
  <2>1. /\ DOMAIN c = {"completed", "complete", "stats", "index"}
        /\ c.completed = proc.completed /\ c.complete = complete /\ c.index = store.index
        /\ c.stats = [i \in Sources |-> IF i \in proc.completed THEN proc.stats[i] ELSE None]
    BY <1>5 DEF Checkpoint
  <2>2. IsStats(c.stats) /\ IsCompleted(c.completed, c.stats)
    BY <1>2, <2>1 DEF IsResult, IsStats, IsCompleted
  <2>3. IsIndex(store.checkpoint.index)'
    BY <1>5, <1>6, <2>1 DEF StoreFields
  <2>4. IsStats(store.checkpoint.stats)' /\ IsCompleted(store.checkpoint.completed, store.checkpoint.stats)'
    BY <2>2 DEF IsStats, IsCompleted
  <2>5. complete \in BOOLEAN
    BY <1>1
  <2>6. store'.checkpoint.complete \in BOOLEAN
    BY <2>1, <2>5
  <2> QED
    BY <2>1, <2>3, <2>4, <2>6 DEF IsCheckpoint
<1>8. IsKept' /\ IsPublished'
  BY <1>2, <1>5, <1>6, <1>7 DEF IsKept, IsPublished, StoreFields
<1> QED
  BY <1>4, <1>6, <1>8, TypesFrom

(* One file of the report is replaced.                                      *)
LEMMA PublishTypes ==
    ASSUME IInv, IInv', TypeOK, PublishOutput
    PROVE  TypeOK'
<1>1. /\ proc.cmd = "audit" /\ implementation' = implementation /\ proc.pc = "publish"
      /\ IsKept /\ IsPublished /\ IsSeen
      /\ IsScan /\ IsResult /\ IsIndex(store.index) /\ DOMAIN proc = RunFields /\ DOMAIN store = StoreFields
      /\ Outputs[proc.out] \in {"matches", "coverage", "collisions"}
  <2>1. proc.out \in 1 .. 3 => Outputs[proc.out] \in {"matches", "coverage", "collisions"}
    BY DEF Outputs
  <2> QED
    BY <2>1, AuditTypes DEF PublishOutput, Auditing, IInv, RunTyped
<1>2. /\ proc'.pc \in {"publish", "manifest"}
      /\ \A f \in RunFields \ {"pc", "out"} : proc'[f] = proc[f]
  <2>1. CASE proc.out < 3
    BY <1>1, <2>1 DEF PublishOutput, RunFields
  <2>2. CASE ~(proc.out < 3)
    BY <1>1, <2>2 DEF PublishOutput, RunFields
  <2> QED
    BY <2>1, <2>2
<1>3. IsScan' /\ IsResult' /\ IsSeen' /\ proc'.cmd = "audit"
  BY <1>1, <1>2 DEF IsScan, IsResult, IsSeen, RunFields
<1>4. /\ \A f \in StoreFields \ {"matches", "coverage", "collisions"} : store'[f] = store[f]
      /\ store'.matches = store.matches \/ store'.matches = proc.report.matches
      /\ store'.coverage = store.coverage \/ store'.coverage = proc.report.coverage
      /\ store'.collisions = store.collisions \/ store'.collisions = proc.report.collisions
  BY <1>1 DEF PublishOutput, StoreFields
<1>5. IsReport(proc.report)
  BY <1>1 DEF IsResult
<1>6. IsIndex(store.index)' /\ IsKept'
  <2>1. \A index : IsIndex(index) => IsIndex(index)'
    BY <1>1 DEF IsIndex, Partitioned
  <2>2. store'.index = store.index /\ store'.checkpoint = store.checkpoint
    BY <1>4 DEF StoreFields
  <2> QED
    BY <1>1, <2>1, <2>2 DEF IsKept, IsCheckpoint
<1>7. IsPublished'
  <2>1. IsMatches(store.matches)' /\ IsCoverage(store.coverage)' /\ IsCollisions(store.collisions)'
    BY <1>1, <1>4, <1>5 DEF IsPublished, IsReport, IsMatches, IsCoverage, IsCollisions
  <2> QED
    BY <1>1, <1>4, <2>1 DEF IsPublished, StoreFields
<1> QED
  BY <1>3, <1>6, <1>7, TypesFrom

(* A run that begins with sources of a checkpoint.                          *)
LEMMA BeganTypes ==
    ASSUME IInv, IInv', TypeOK, NEW completed \in SUBSET Sources, NEW stats,
           \A i \in completed : stats[i] \in Stat(i),
           proc' = Began(completed, stats), UNCHANGED <<implementation, archive>>,
           NEW index, store' = [store EXCEPT !.index = index], IsIndex(index)
    PROVE  TypeOK'
<1>1. /\ proc'.cmd = "audit" /\ proc'.pc = "open" /\ proc'.at = 1 /\ proc'.line = 0
      /\ proc'.version = None /\ proc'.rows = {} /\ proc'.active = None /\ proc'.report = None
      /\ proc'.completed = completed
      /\ proc'.stats = [i \in Sources |-> IF i \in completed THEN stats[i] ELSE None]
      /\ proc'.seen = [i \in Sources |-> {archive[i]}]
  BY DEF Began
<1>2. IsScan' /\ IsResult' /\ IsSeen'
  <2>1. \A i \in Sources : archive[i] \in DOMAIN Content[i]
    BY DEF IInv, Typed
  <2>2. IsStats(proc.stats)' /\ IsCompleted(proc.completed, proc.stats)'
    BY <1>1 DEF IsStats, IsCompleted
  <2> QED
    BY <1>1, <2>1, <2>2 DEF IsScan, IsResult, IsSeen
<1>3. DOMAIN store = StoreFields /\ IsKept /\ IsPublished
  BY DEF IInv, Typed, TypeOK
<1>4. store'.index = index /\ \A f \in StoreFields \ {"index"} : store'[f] = store[f]
  BY <1>3 DEF StoreFields
<1>5. \A any : IsIndex(any) => IsIndex(any)'
  BY DEF IsIndex, Partitioned
<1>6. IsIndex(store.index)'
  BY <1>4, <1>5
<1>7. IsKept' /\ IsPublished'
  <2>1. store'.checkpoint = store.checkpoint
    BY <1>4 DEF StoreFields
  <2>2. store'.checkpoint = None \/ IsCheckpoint(store.checkpoint)'
    BY <1>3, <1>5, <2>1 DEF IsKept, IsCheckpoint
  <2> QED
    BY <1>3, <1>4, <1>6, <2>2 DEF IsKept, IsPublished, StoreFields
<1> QED
  BY <1>1, <1>2, <1>6, <1>7, TypesFrom

(* A run that resumes a SQLite audit.                                       *)
LEMMA ResumeTypes ==
    ASSUME IInv, IInv', TypeOK, Sqlite, NEW completed, completed \subseteq Resumable(store.checkpoint),
           Resume(completed), UNCHANGED <<implementation, archive>>
    PROVE  TypeOK'
<1>1. IsKept /\ store.checkpoint # None /\ IndexShape(store.index)
      /\ Known(store.checkpoint.completed, store.checkpoint.stats)
  BY DEF IInv, Typed, Resume, TypeOK
<1>2. completed \subseteq Sources /\ \A i \in completed : store.checkpoint.stats[i] \in Stat(i)
  BY <1>1, ResumableIsKnown DEF Known
<1>3. DOMAIN Retained(store.index, completed) = DOMAIN NoIndex
      /\ Retained(store.index, completed).rows =
           [i \in Sources |-> IF i \in completed THEN store.index.rows[i] ELSE {}]
      /\ Retained(store.index, completed).staging = store.index.staging
  BY <1>1 DEF Retained, IndexShape, NoIndex
<1>4. IsIndex(Retained(store.index, completed))
  BY <1>1, <1>3 DEF IsKept, IsIndex, Sqlite, Partitioned
<1> QED
  BY <1>2, <1>4, BeganTypes DEF Resume

(* Every way a run begins.                                                  *)
LEMMA StartTypes ==
    ASSUME IInv, IInv', TypeOK, Start \/ StartUnreadable
    PROVE  TypeOK'
<1>1. \A i \in {} : NoStats[i] \in Stat(i)
  OBVIOUS
<1>2. CASE StartSqlite /\ store.checkpoint = None
  <2>1. IsIndex(EmptyIndex)
    BY DEF IsIndex, EmptyIndex, NoIndex
  <2> QED
    BY <1>1, <1>2, <2>1, BeganTypes DEF StartSqlite
<1>3. CASE StartSqlite /\ store.checkpoint # None
  BY <1>3, ResumeTypes DEF StartSqlite
<1>4. CASE StartUnreadable
  <2>1. PICK i \in Resumable(store.checkpoint) : Resume(1 .. i - 1)
    BY <1>4 DEF StartUnreadable
  <2>2. 1 .. i - 1 \subseteq Resumable(store.checkpoint)
    BY SourcesType DEF Resumable, Sources
  <2> QED
    BY <1>4, <2>1, <2>2, ResumeTypes DEF StartUnreadable
<1>5. CASE StartPartitioned /\ store.checkpoint = None
  <2>1. IsIndex(NoIndex)
    BY <1>5 DEF IsIndex, NoIndex, StartPartitioned
  <2> QED
    BY <1>1, <1>5, <2>1, BeganTypes DEF StartPartitioned
<1>6. CASE StartPartitioned /\ store.checkpoint # None
  <2> DEFINE kept == Kept(store.checkpoint)
             index == [rows |-> [i \in Sources |-> IF i \in kept THEN Index.rows[i] ELSE None],
                       staging |-> None]
  <2>1. /\ Partitioned /\ proc' = Began(kept, store.checkpoint.stats)
        /\ store' = [store EXCEPT !.index = index] /\ UNCHANGED <<implementation, archive>>
    BY <1>6 DEF StartPartitioned
  <2>2. IsKept /\ Known(store.checkpoint.completed, store.checkpoint.stats)
    BY <1>6 DEF IInv, Typed, TypeOK
  <2>3. kept \subseteq Sources /\ \A i \in kept : i \in Resumable(store.checkpoint)
    BY SourcesType DEF Kept
  <2> HIDE DEF kept
  <2>4. \A i \in kept : store.checkpoint.stats[i] \in Stat(i)
    BY <2>2, <2>3, ResumableIsKnown DEF Known
  <2>5. IsIndex(Index)
    BY <1>6, <2>1, <2>2 DEF IsKept, Index, IsIndex, NoIndex
  <2>6. IsIndex(index)
    BY <2>1, <2>5 DEF IsIndex, NoIndex
  <2> HIDE DEF index
  <2> QED
    BY <2>1, <2>3, <2>4, <2>6, BeganTypes
<1> QED
  BY <1>2, <1>3, <1>4, <1>5, <1>6 DEF Start

(* A step that ends a run, or is of no run, and leaves the index.           *)
LEMMA IdleTypes ==
    ASSUME IInv, IInv', TypeOK, implementation' = implementation,
           \A f \in {"index", "checkpoint"} : store'[f] = store[f], IsPublished',
           store'.manifest = store.manifest \/ IsIndex(store.index),
           \/ proc' = Idle
           \/ /\ proc' = [cmd |-> "rematch"]
              /\ IsManifest(store.manifest)' /\ IsReport(store.rematchFiles)'
    PROVE  TypeOK'
<1>1. \A index : IsIndex(index) => IsIndex(index)'
  BY DEF IsIndex, Partitioned
<1>2. IsKept'
  BY <1>1 DEF TypeOK, IsKept, IsCheckpoint
<1> QED
  BY <1>2, TypesFrom

(* A manifest, of an audit and of a rematch.                                *)
LEMMA ManifestTypes ==
    ASSUME IInv, IInv', TypeOK, WriteManifest
    PROVE  TypeOK'
<1>1. /\ proc.cmd = "audit" /\ proc.pc = "manifest" /\ IsResult /\ IsPublished /\ IsIndex(store.index)
      /\ DOMAIN store = StoreFields
      /\ implementation' = implementation /\ proc' = Idle
  BY AuditTypes DEF WriteManifest, Auditing
<1>2. /\ \A f \in StoreFields \ {"manifest", "doubtful"} : store'[f] = store[f]
      /\ store'.manifest = ManifestOf(proc.report)
  BY <1>1 DEF WriteManifest, StoreFields
<1>3. ManifestOf(proc.report).complete \in BOOLEAN
  BY Zenon DEF ManifestOf
<1>4. IsManifest(ManifestOf(proc.report))
  BY <1>1, <1>3 DEF IsResult, ManifestOf, IsManifest
<1>5. IsManifest(store.manifest)'
  BY <1>2, <1>4 DEF IsManifest, IsStats, IsReport, IsMatches, IsCoverage, IsCollisions, Stat
<1>6. IsPublished'
  BY <1>1, <1>2, <1>5 DEF IsPublished, StoreFields
<1> QED
  BY <1>1, <1>2, <1>6, IdleTypes DEF StoreFields

(* A rematch: its files and its manifest.                                   *)
LEMMA RematchTypes ==
    ASSUME IInv, IInv', TypeOK, Rematch \/ WriteRematchManifest
    PROVE  TypeOK'
<1>1. DOMAIN store = StoreFields /\ IsKept /\ IsPublished /\ implementation' = implementation
  BY DEF IInv, Typed, TypeOK, Rematch, WriteRematchManifest
<1>2. CASE Rematch
  <2>1. /\ store.manifest # None /\ Partitioned /\ IsManifest(store.manifest)
        /\ proc' = [cmd |-> "rematch"]
    BY <1>1, <1>2 DEF Rematch, ValidAudit, IsPublished
  <2>2. /\ \A f \in StoreFields \ {"rematchFiles"} : store'[f] = store[f]
        /\ store'.rematchFiles = ReportOf(Files(store.index).rows, Sources, store.manifest.stats)
    BY <1>1, <1>2 DEF Rematch, StoreFields
  <2>3. \A i \in Sources : Files(store.index).rows[i] \subseteq OwnLines(i)
    <3>1. IsIndex(store.index)
      BY <1>1, <2>1 DEF IsKept
    <3> QED
      BY <3>1 DEF IsIndex, Files, Held
  <2>4. IsReport(store'.rematchFiles)
    BY <2>1, <2>2, <2>3, ReportType DEF IsManifest
  <2>5. IsReport(store.rematchFiles)' /\ IsManifest(store.manifest)'
    BY <2>1, <2>2, <2>4 DEF IsManifest, IsStats, IsReport, IsMatches, IsCoverage, IsCollisions, Stat, StoreFields
  <2>6. IsPublished'
    BY <1>1, <2>2, <2>5 DEF IsPublished, StoreFields
  <2> QED
    BY <1>1, <2>1, <2>2, <2>5, <2>6, IdleTypes DEF StoreFields
<1>3. CASE WriteRematchManifest
  <2>1. IsManifest(store.manifest) /\ IsReport(store.rematchFiles)
    BY <1>3 DEF TypeOK, WriteRematchManifest, Idle
  <2>2. /\ \A f \in StoreFields \ {"rematch"} : store'[f] = store[f]
        /\ store'.rematch = [audit |-> store.manifest, outputs |-> store.rematchFiles]
    BY <1>1, <1>3 DEF WriteRematchManifest, StoreFields
  <2>3. IsRematch(store'.rematch)
    BY <2>1, <2>2 DEF IsRematch
  <2>4. IsRematch(store.rematch)'
    BY <2>2, <2>3 DEF IsRematch, IsManifest, IsStats, IsReport, IsMatches, IsCoverage, IsCollisions, Stat
  <2>5. IsPublished'
    BY <1>1, <2>2, <2>4 DEF IsPublished, StoreFields
  <2> QED
    BY <1>1, <1>3, <2>2, <2>5, IdleTypes DEF StoreFields, WriteRematchManifest
<1> QED
  BY <1>2, <1>3

(* Coverage that is derived.                                                *)
LEMMA DeriveTypes ==
    ASSUME IInv, IInv', TypeOK, Derive
    PROVE  TypeOK'
<1>1. /\ DOMAIN store = StoreFields /\ IsKept /\ IsPublished /\ implementation' = implementation
      /\ proc.cmd = "none" /\ proc' = proc /\ proc = Idle
      /\ store.manifest # None
  BY DEF IInv, Typed, TypeOK, Derive, ValidAudit
<1>2. PICK matches, from : DeriveFrom(matches, from) /\ from \in {"audit", "rematch"} /\ IsMatches(matches)
  <2>1. IsMatches(store.matches)
    BY <1>1 DEF IsPublished
  <2>2. ValidRematch => IsMatches(store.rematch.outputs.matches)
    BY <1>1 DEF IsPublished, ValidRematch, IsRematch, IsReport
  <2> QED
    BY <2>1, <2>2 DEF Derive
<1>3. /\ \A f \in StoreFields \ {"derived"} : store'[f] = store[f]
      /\ store'.derived = [from |-> from, stats |-> store.manifest.stats, matches |-> matches,
                           unresolved |-> {r \in Rows : matches[r] = {}}]
  BY <1>1, <1>2 DEF DeriveFrom, StoreFields
<1>4. IsDerived(store'.derived)
  BY <1>1, <1>2, <1>3 DEF IsDerived, IsPublished, IsManifest
<1>5. IsDerived(store.derived)'
  BY <1>3, <1>4 DEF IsDerived, IsStats, IsMatches, Stat
<1>6. IsPublished'
  BY <1>1, <1>3, <1>5 DEF IsPublished, StoreFields
<1> QED
  BY <1>1, <1>3, <1>6, IdleTypes DEF StoreFields

(* Nothing but an archive is changed.                                       *)
LEMMA SameTypes ==
    ASSUME IInv, IInv', TypeOK, UNCHANGED <<implementation, store, proc>>
    PROVE  TypeOK'
<1>1. IsKept' /\ IsPublished'
  BY KeptUnchanged DEF TypeOK
<1>2. CASE proc = Idle
  BY <1>1, <1>2, TypesFrom
<1>3. CASE proc.cmd = "audit"
  <2>1. IsScan' /\ IsResult'
    BY <1>3, AuditTypes DEF IsScan, IsResult, IsStats, IsCompleted, IsReport, IsMatches, IsCoverage, IsCollisions
  <2> QED
    BY <1>3, <2>1, QuietTypes
<1>4. CASE proc = [cmd |-> "rematch"] /\ IsManifest(store.manifest) /\ IsReport(store.rematchFiles)
  <2>1. IsManifest(store.manifest)' /\ IsReport(store.rematchFiles)'
    BY <1>4 DEF IsManifest, IsStats, IsReport, IsMatches, IsCoverage, IsCollisions
  <2> QED
    BY <1>1, <1>4, <2>1, TypesFrom
<1> QED
  BY <1>2, <1>3, <1>4 DEF TypeOK

(* A run that is killed or raises, and an archive that is replaced.         *)
LEMMA AbortTypes ==
    ASSUME IInv, IInv', TypeOK, Interrupted \/ PartitionedRaise \/ ReplaceArchive
    PROVE  TypeOK'
<1>1. DOMAIN store = StoreFields /\ IsKept /\ IsPublished /\ implementation' = implementation
  BY DEF IInv, Typed, TypeOK, Interrupted, Crash, PartitionedRaise, ReplaceArchive
<1>2. \A f \in StoreFields \ {"orphaned"} : store'[f] = store[f]
  BY <1>1 DEF Interrupted, PartitionedRaise, ReplaceArchive, StoreFields
<1>3. IsPublished'
  BY <1>1, <1>2 DEF IsPublished, StoreFields
<1>4. CASE Interrupted \/ PartitionedRaise
  BY <1>1, <1>2, <1>3, <1>4, IdleTypes DEF Interrupted, Crash, PartitionedRaise, StoreFields
<1>5. CASE ReplaceArchive
  <2>1. PICK i, v :
          /\ i \in Sources /\ v \in DOMAIN Content[i]
          /\ proc' = IF proc.cmd = "audit" THEN [proc EXCEPT !.seen[i] = @ \union {v}] ELSE proc
    BY <1>5 DEF ReplaceArchive
  <2>2. CASE proc.cmd = "audit"
    <3>1. /\ IsScan /\ IsResult /\ IsSeen /\ IsIndex(store.index) /\ DOMAIN proc = RunFields
      BY <2>2, AuditTypes
    <3>2. /\ \A f \in RunFields \ {"seen"} : proc'[f] = proc[f]
          /\ proc'.seen = [proc.seen EXCEPT ![i] = @ \union {v}]
      BY <2>1, <2>2, <3>1 DEF RunFields
    <3>3. IsScan' /\ IsResult' /\ proc'.cmd = "audit"
      BY <2>2, <3>1, <3>2 DEF IsScan, IsResult, RunFields
    <3>4. IsSeen'
      BY <2>1, <3>1, <3>2 DEF IsSeen
    <3>5. IsKept' /\ IsIndex(store.index)'
      <4>1. store' = store
        BY <1>5 DEF ReplaceArchive
      <4> QED
        BY <1>1, <3>1, <4>1, KeptUnchanged DEF IsIndex, Partitioned
    <3> QED
      BY <1>3, <3>3, <3>4, <3>5, TypesFrom
  <2>3. CASE proc.cmd # "audit"
    BY <1>1, <1>5, <2>1, <2>3, SameTypes DEF ReplaceArchive
  <2> QED
    BY <2>2, <2>3
<1> QED
  BY <1>4, <1>5

(* Every step keeps the types.                                              *)
LEMMA TypesHold ==
    ASSUME IInv, IInv', TypeOK, [Next]_vars
    PROVE  TypeOK'
<1>1. CASE Start \/ StartUnreadable
  BY <1>1, StartTypes
<1>2. CASE SqliteStep
  BY <1>2, OpenTypes, ScanTypes, EndedTypes, RejectTypes, SavedTypes, FlushTypes, ReportTypes DEF SqliteStep
<1>3. CASE PartitionedStep
  BY <1>3, OpenTypes, StageTypes, EndedTypes, SavedTypes, ReportTypes DEF PartitionedStep
<1>4. CASE EndOfSource \/ AllOpened \/ FinalCheckpoint \/ PublishOutput \/ WriteManifest
  BY <1>4, ScanTypes, SavedTypes, PublishTypes, ManifestTypes
<1>5. CASE SourceReadError \/ SqliteBudget \/ PartitionedBudget \/ PartitionedRaise \/ PartitionedWithhold
  BY <1>5, ScanTypes, RejectTypes, EndedTypes, AbortTypes, ReportTypes
<1>6. CASE Interrupted \/ ReplaceArchive \/ Rematch \/ WriteRematchManifest \/ Derive
  BY <1>6, AbortTypes, RematchTypes, DeriveTypes
<1>7. CASE UNCHANGED vars
  BY <1>7, SameTypes DEF vars
<1> QED
  BY <1>1, <1>2, <1>3, <1>4, <1>5, <1>6, <1>7 DEF Next, Step

-----------------------------------------------------------------------------
(* THE INVARIANT HOLDS.  In every reachable state the index has, of each    *)
(* source the run in progress completed and of each source the checkpoint   *)
(* names, the rows of exactly the version recorded; or this run deleted     *)
(* them, or the history says that a run did which was killed before it      *)
(* saved a checkpoint (archive_audit.py:219-277,                            *)
(* archive_partitioned.py:430-464).                                         *)
THEOREM Invariance == Spec => []IInv
<1>1. Init => IInv
  BY InitHolds
<1>2. IInv /\ [Next]_vars => IInv'
  BY StepHolds
<1> QED
  BY <1>1, <1>2, PTL DEF Spec

(* THE TYPES HOLD, whatever is interrupted or put back: a checkpoint names  *)
(* only sources it has statistics of, and the rows and directories of a     *)
(* source hold lines of that source only (archive_audit.py:446-500,         *)
(* archive_partitioned.py:517-600).                                         *)
THEOREM TypeCorrect == Spec => []TypeOK
<1>1. Init => TypeOK
  <2> SUFFICES ASSUME Init PROVE TypeOK
    OBVIOUS
  <2>1. IsKept /\ IsPublished /\ DOMAIN store = DOMAIN NoStore
        /\ store.orphaned \subseteq Sources /\ store.doubtful \in BOOLEAN
    BY DEF Init, AuditInit, NoStore, IsKept, IsPublished, IsMatches, IsCoverage, IsCollisions
  <2>2. DOMAIN archive = Sources /\ \A i \in Sources : archive[i] \in DOMAIN Content[i]
    BY VersionsType DEF Init, AuditInit
  <2> QED
    BY <2>1, <2>2, BoundAssumption DEF Init, AuditInit, TypeOK
<1>2. IInv /\ IInv' /\ TypeOK /\ [Next]_vars => TypeOK'
  BY TypesHold
<1> QED
  BY <1>1, <1>2, Invariance, PTL DEF Spec

(* A COMPLETE AUDIT IS EXACT, for any archives, redeliveries, interruptions *)
(* and resumed runs: it names for each exposed row the lines that hold it,  *)
(* no more and no fewer, unless the single index lost rows of a source that *)
(* its checkpoint still named (archive_audit.py:446-577, 642;               *)
(* archive_partitioned.py:517-655, 691).                                    *)
THEOREM Exact == Spec => []CompleteAuditIsExact
<1>1. IInv => CompleteAuditIsExact
  BY DEF IInv, PublishedHeld
<1> QED
  BY <1>1, Invariance, PTL

(* COVERAGE IS OF ITS AUDIT: derived coverage calls a row unresolved only   *)
(* when no archive held it (archive_coverage.py:138-200, 324-360).          *)
THEOREM CoverageExact == Spec => []CoverageIsOfItsAudit
<1>1. IInv => CoverageIsOfItsAudit
  BY DEF IInv, PublishedHeld
<1> QED
  BY <1>1, Invariance, PTL

(* A COMPLETE AUDIT IS FRESH: a run that says it is complete names every    *)
(* archive in a version that was there when the run began, or since         *)
(* (archive_audit.py:240-261, archive_partitioned.py:441-452).              *)
THEOREM Fresher == Spec => CompleteAuditIsFresh
<1>1. ASSUME IInv, WriteManifest, store'.manifest.complete, NEW i \in Sources
      PROVE  store'.manifest.stats[i].version \in proc.seen[i]
  <2>1. proc.cmd = "audit" /\ DOMAIN store = StoreFields
    BY <1>1 DEF IInv, Typed, WriteManifest, Auditing
  <2>2. store'.manifest = ManifestOf(proc.report)
    BY <1>1, <2>1 DEF WriteManifest, StoreFields
  <2>3. i \in proc.completed /\ store'.manifest.stats = proc.stats
    BY <1>1, <2>2 DEF ManifestOf
  <2> QED
    BY <1>1, <2>1, <2>3 DEF IInv, RunTyped
<1>2. IInv => [(WriteManifest /\ store'.manifest.complete) =>
                 \A i \in Sources : store'.manifest.stats[i].version \in proc.seen[i]]_vars
  BY <1>1
<1> QED
  BY <1>2, Invariance, PTL DEF CompleteAuditIsFresh
=============================================================================
