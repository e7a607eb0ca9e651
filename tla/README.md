# TLA+ models of reddit-search

reddit-search builds a searchable corpus out of local Reddit dumps, and has to
take messages out of it again when they are deleted. These modules model both
halves: the ingest commands, the audits of the archives, the dense index and the
review workspace on the way in; the durable deletion outbox and its operators, the
lexical store that keeps deleted messages out, and the purge of a published
artifact on the way out. TLC checks each model on a small instance; TLAPS proves
the type invariants, every safety invariant and action property the passing runs
check, and both refinements, for every value of the constants.

Run everything in this directory:

    tlc -config OutboxSafety.cfg MCTombstoneOutbox
    tlapm TombstoneOutbox_proofs.tla

Paths below are relative to `src/src/reddit_search/`.

## 1. Inventory

| Component | Files | State | Operations | Hard behaviour | What makes it correct |
|---|---|---|---|---|---|
| Tombstone outbox | `operations/outbox.py` | SQLite table `tombstone_outbox` | register, replay, replay_pending, recover_stale, complete, fail | several processes on one file; every statement its own transaction; a process that ends while it holds a claim | one claimant a row; applied means propagated; no one else undoes an applied row; retries are possible |
| Configured operation | `operations/operator.py`, `operations/wiring.py` | one derivative, its manifest, the reconciliation manifest | `tombstones operate`, `tombstones replay` | hash, row and manifest are read and written apart | a reconciliation manifest describes what is on disk |
| Lexical store | `corpus/sqlite_store.py`, `corpus/units.py` | `search_units`, `unit_fts`, `tombstones` | open and migrate, index_units, consume_tombstone_projection | re-indexing after deletion; context that quotes a deleted message, found by markers that text can imitate; DDL that is not transactional | nothing deleted comes back; the FTS table equals the rows |
| Projection and ledger | `ingest/invalidation.py` | none | ledger to records; audit of persisted outputs | NULL revision, NULL unit; an audit reads identities, not context | what a record covers |
| Artifact purge | `operations/artifact_purge.py` | published database and manifest, backups, outbox rows | `tombstones purge` | crash between two renames, rollback, retry of an applied claim, two purges at once | backed up before replaced; one whole generation published; reports are true |
| Dense index | `retrieval/dense.py`, `retrieval/indexing.py` | Qdrant collection, job ledger | build and resume, upsert batches, delete | upsert and mark are two stores; lost answers; deletion that does not reach the ledger | the collection holds exactly the live units; a deletion that reports "covered" removed all |
| Dense migration, repair, reconciliation | `retrieval/dense_migration.py`, `retrieval/dense_repair.py`, `operations/reconciliation.py` | two collections, checkpoint | copy, repair, compare | stop half way | running again converges |
| Corpus build | `corpus/baseline.py`, `ingest/hydrate.py` | staging database, database, build manifest | build, reuse by run identity | a staging database left by a kill; database replaced before its manifest | a corpus is the units of its inputs; nothing deleted |
| Hydration | `ingest/hydration.py` | checkpoint, two shards, manifest | read sources, retain the lowest ranks, publish | resume; three files published one by one; zero limits | a resumed run equals an uninterrupted one |
| Discovery and sources | `ingest/discovery.py`, `pilot.py`, `shard.py`, `sources.py` | registry, selection shard, manifest | register, validate, sample, retain, write | limits and budgets that end a scan; ties of rank | the selection is the lowest ranks |
| Review workspace | `review/workspace.py` | worksheet in memory and on disk | snapshot, save_annotation | threads of an HTTP server; a write that fails | what a reviewer was told is what is saved |
| Retrieval | `retrieval/pipeline.py`, `fusion.py`, `feedback.py`, `rerank.py`, `qwen.py`, `comparison*.py` | none | rank and fuse | ties, cut-offs | order is total and deterministic |
| Archive audits | `evaluation/archive_audit.py`, `archive_partitioned.py`, `archive_rematch.py`, `archive_coverage.py` | index (one SQLite file, or a directory a source), checkpoint, reports, manifests | audit, resume, rematch, derive coverage | archives replaced between runs; an index published in several renames; a checkpoint without its rows | a complete manifest is about the archives it names; coverage is of its audit |
| Evaluation, the rest | `evaluation/*` | files in, files out | splits, pooling, metrics, grouping, diagnostics | groups, boundaries | no leakage between splits |
| Review preparation | `review/*` except the workspace | files in, files out | blind, queue, triage, export | none concurrent | nothing revealing is exported |
| Readers, reports, CLI | `ingest/reader.py`, `normalize.py`, `sources.py`, `operations/purge.py`, `preflight.py`, `artifact_package.py`, `cli.py`, ... | none shared | parse, validate, report | none concurrent | per-record validation |

How they interact. A ledger is projected to records (`project_tombstone_identities`).
`tombstones operate` registers the projection in the outbox and replays it: the
SQLite boundary publishes a new derivative with `propagate_tombstone_projection`,
the Qdrant boundary deletes context and direct points, and only then the row is
applied. `tombstones purge` uses the same outbox and the same propagation, but on
the database that is published, which it backs up and replaces. Upstream, the
sources of the registry are scanned twice: discovery publishes a selection shard,
hydration reads it and adds a shard of context, and the corpus build indexes the
first with the help of the second through `LexicalStore`; all three are given the
same ledger. The dense index is built from the corpus, unit by unit, and remembers
in a SQLite ledger of jobs what it wrote to Qdrant; migration, repair and
reconciliation work on the same collections. The archive audits read the same
registry, and the review server the worksheets prepared from the selection.

`PROJECT.json` lists the hazards one by one, at the line where each bites, with
the property that covers it or the reason why none does.

## 2. Modules

| Module | What it is |
|---|---|
| `TombstoneRequest` | abstract: a deletion request is opened, its copies go, then it is settled and may be certified |
| `TombstoneOutbox` | `outbox.py` and the tail of `run_configured_operation`, statement by statement |
| `MCTombstoneOutbox` | symmetry of the workers |
| `TombstoneOutbox_proofs` | its invariant, safety theorems and refinement |
| `LexicalStore` | `LexicalStore` of `sqlite_store.py` for one snapshot |
| `MCLexicalStore` | three units, four records, bodies that imitate markers |
| `LexicalStore_proofs` | its invariant and safety theorems |
| `ManagedArtifact` | abstract: a published pair of database and manifest is replaced at once, backed up, by one ledger more |
| `ArtifactPurge` | `run_artifact_purge` and `_publish_generation`, operation by operation, with every failure path |
| `MCArtifactPurge` | three overlapping ledgers |
| `ArtifactPurge_proofs` | its invariant, safety theorems and refinement |
| `DenseIndex` | `dense.py` and `indexing.py`: points, job ledger, build, deletion of a projection |
| `DenseMaintenance` | adds migration, repair and reconciliation; the specification of all commands together |
| `MCDenseMaintenance` | three units, three states of the corpus, one of which changes a context, two records |
| `DenseMaintenance_proofs` | its invariant and safety theorems |
| `DensePaging_proofs` | what repair and migration reach page by page |
| `Ingest` | what the ingest commands share: archives, registry, ledger, retention, the files |
| `Discovery`, `Hydration`, `CorpusBuild` | one command each, extending `Ingest` |
| `IngestPipeline` | the three commands and the operator together, and their properties |
| `MCIngest` | two archives, two tombstones |
| `IngestPipeline_proofs` | retention, resume and context: their invariants and theorems |
| `ArchiveAudit` | what both audits share: archives, index, checkpoint, report, manifest |
| `SQLiteAudit`, `PartitionedAudit` | the steps in which the two implementations differ |
| `ArchiveCoverage` | both audits, rematch and coverage together, and their properties |
| `MCArchiveAudit` | three archives in up to three versions |
| `ArchiveCoverage_proofs` | the audits' invariant and safety theorems |
| `ReviewWorkspace` | the review server: its threads, memory, lock and file |
| `MCReviewWorkspace` | three rows, one candidate in two scenarios |
| `ReviewWorkspace_proofs` | its invariant and safety theorems |

Definitions commented "Seeded fault" are not part of any specification: they are
mutations of the definition that follows them, used to confirm that a property
can fail.

### TombstoneOutbox

The table is kept by column (`status`, `attempts`, `requestedAt`, `claimedAt`,
`results`); `now` is the clock behind the timestamps. A worker is a process that
runs `replay` of one row, `replay_pending`, or `operate`; its program counter names
the next statement. `Register`, `Claim`/`ClaimRefused`, `SqliteBoundary`,
`QdrantContext`, `QdrantDirect`, `Complete`, `ReadBack`, `ReadBackRaises`, `Fail`,
`Verify` and `Reconcile` are the statements; `Stop` is a process that ends between any
two; `RecoverStale` is the library call. A backend may raise before or after it took
effect, so lost answers are included.

A derivative is named by the claim that wrote it (the code names it by its sha256);
the points of Qdrant are the two classes the two delete requests remove.

Assumptions. Each outbox identity has one derivative and one collection (the same
paths at each run). A loopback Qdrant is configured: without one, `reject_live_qdrant`
raises and no row is ever applied. Recovery in `Spec` uses a threshold older than
the claim of every running worker (`Quiesced`): `recover_stale` without an argument
does not, and nothing in `src/` calls it; `SourceSpec` is the program without it.

`complete` commits and then reads the row back inside the `try` of `replay`
(`outbox.py:151`). When that read raises (`ReadBackRaises`), the `except` branch makes
the applied row a failed one: `Fail` is enabled there as after a boundary, and
`undone` (history) remembers the row. `AppliedIsFinal` therefore says that no other
actor undoes an applied row, and that its own worker, on that path only, leaves its
results, derivative and points as they are; `CertifiedIsCurrent` is about rows not in
`undone`, since an operator may have read the row as applied in between.

### LexicalStore

One snapshot, one connection at a time. `index_units` and
`consume_tombstone_projection` are one transaction each and one step each. The
schema migration is not: `Open`, `RenameTable`, `CreateTable` and `CopyRows` follow
its statements, because Python's `sqlite3` commits DDL by itself. `Blocked` is
`_is_blocked`, `Covers` the direct clause of the deletion, `Inserted` the insertion
that is NULL-safe for the revision only.

A row is abstracted to its context: the referenced messages, the two context fields,
and the messages recorded as missing. A field is the paragraphs the code splits it
into, in order; each has its true author and its mark, that is, what the two patterns
of the scrub make of it: a contributor marker of a message, a focus marker, or
neither. `Joined` is how `_build_unit` puts blocks together: the head of a block
carries its label, the paragraphs of the body (`Body`) may carry any mark, and a label
that follows a text with a trailing newline is not recognised (`Newline`). `Survives`
is the scan of `_scrub_context_blocks`, said of one paragraph: it is kept when the last
contributor marker at or before it names another message and no focus marker of the
unit came before, and the focus marker is kept where the caller preserves it. The code
scrubs one name after the other; a segment that survives one scan is the same segment
in the next, so the model scrubs all at once.

### ArtifactPurge

`db` and `manifest` are the two published files, `tmp` the copies beside them,
`backups` the complete pairs in the backup directory, `rows` the outbox rows by
identity (a ledger and the published hash). A generation is its tombstone rows:
`LexicalStore` shows that a recorded tombstone keeps its units out, so a ledger is
purged when the generation suppresses it. A file hash, and the hash a manifest
binds, are the generation itself; two orders of the same ledgers, which one purge
at a time cannot produce, would be one generation here and two hashes in the code.

`Start` goes up to the precheck and the no-op report; `Backup`, `Register`, `Claim`,
`Stage`, `Complete`, `Verify`, `Copy`, `ReplaceManifest`, `ReplaceDb`, `Check` and
`Reconcile` follow. Both branches are there: the claim path, which stages from
whatever is published at that moment, and the retry of an applied row, which checks
the hash first. Every failure path is an action: a backup that is half written, an
exception that leaves the row, one that fails it (`FailRow`, where `outbox.fail` may
itself raise), and a read-back that raises after the replacement and leaves the new
files (`CheckRaises`). The two rollbacks of `_publish_generation` go file by file, in
the code's two orders: `UndoManifest`, `UndoDb` after a replace that raised,
`RevertDb`, `RevertManifest` after a verification that failed. `RollbackRaises` is a
write of theirs that raises, `Crash` the end of the process at any step at all; both
may leave the file that is being written in place half written (`None`). `torn`
(history) says that what was cut short in this way left a manifest that does not bind
the database; from then on `_load_published_manifest` refuses every purge (`Refuse`).

With two purgers `OverwrittenIsBackedUp` does not hold: a generation is overwritten
that was never backed up. The runs and the theorems are about one at a time.

Left out: path, alias and containment checks; claims of other snapshots or roots
(`_reject_conflicting_claims`); the contents of the reconciliation manifest.

### DenseIndex and DenseMaintenance

`points` are the two collections the commands use ("main", and "ctx2" that a
migration creates): a point is the content it embeds, its snapshot label and its
`context_message_refs`, which may be missing from the payload. `jobs` is the table
`dense_index_jobs`, `manifest` the dense index manifest, `corpus` the units of the
lexical corpus at this moment. `run` has one entry a command (build, delete,
migrate, repair) with its phase and its locals, so that commands interleave,
request by request; `Ends` is the end of a command at any of them, by
an exception, a lost answer or a kill. `result` is what the command that finished
last reported, together with the state it read: the properties are about that.
`lost` and `deleted` (history) are the units whose point a deletion took out of
"main", and the records of those deletions.

The messages a unit quotes depend on its content: `unit_id` leaves the context out
(`units.py:150-163`), so the same unit may quote a message in one corpus and not in
the next (`Quotes`, `Corpus`). `StartMigration` takes the references of the corpus of
that moment, `CopyPage` puts them on points of whatever content; `mixed` (history) are
the units of "ctx2" whose references are of another content than the one they embed.

Build: `StartBuild`, `Prepare` (the resume: which units need work), `UpsertBatch`,
`MarkIndexed` (the second store), `CountPoints`/`AssertCount`, `WriteManifest`.
Deletion: `Probe`, then for the context and for the direct points `CountSelected`,
`RemoveSelected`, `CheckRemoved`. Migration: `Validate`, `CopyPage`, `Verify` with
the sample of vectors. Repair: `Preflight`, `RelabelPage`, `CheckRepair`.
Reconciliation reads corpus, jobs and manifest in one step: it writes nothing and
asks Qdrant nothing. `ReplaceCorpus` is a corpus build beside them. A page of a scroll
and the write that follows it are one step. An embedding is the content it was made from: vectors and search change no state.

### Ingest, Discovery, Hydration, CorpusBuild

`disk` has a field a file: selection shard and manifest; hydration checkpoint, two
shards and manifest; staging database, corpus and its manifest. `registry` is the
status of each source, `ledger` the tombstones. `proc` is the command that runs,
with its locals; a `Crash` drops it and leaves the files. Commands run one at a
time. A sha256 is modelled by what it is of, so the identity of a run is the record
of its inputs. A line of an archive is a message (name, revision, thread, parent),
malformed or quarantined. `Offer` is the bounded heap of lowest ranks.

`Discovery` is `run_discovery` line by line with its scan limit and its budget.
`Hydration` is `run_hydration`: records, checkpoints every few records and after
each source, sources that cannot be read, the two shards, the manifest, the
registry, the removal of the checkpoint, and every early return. `CorpusBuild`
stages into `<output>.tmp`, which it opens if it is there, replaces the output and
writes its manifest. `UnitOf` is what `ContextBuilder` and `build_message_units` say
of a message: the ancestors it quotes, the missing ones, whether the way up was cut.
`AuditTombstoneOutputs` is the tombstone audit of the persisted files.

Left out: decompression and field validation, rule matching (a name is selected or
not), the text of units. `max_context_messages = 0` is excluded by an assumption:
the first offer raises IndexError before any state changes. The discovery and
context limits are constants.

### ArchiveAudit, SQLiteAudit, PartitionedAudit, ArchiveCoverage

`archive` is the version of each source on disk; `ReplaceArchive` puts any other
version there at any time, an earlier one included. A fingerprint or a checksum is
the version. `store` has the index, the
checkpoint, the published reports and manifests; `proc` the running command.
`implementation` is chosen at the start. The SQLite audit keeps all rows in one
file and commits them with a flush; the partitioned one gives each source a
directory it first fills aside. `Resumable` is the prefix of sources a checkpoint
still vouches for. `Rematch` and `Derive` are the two commands that start from a
published index or audit. `StartUnreadable` is a run that cannot take the fingerprint
of an archive. History: `seen`, the versions on disk since the run began; `orphaned`,
the sources a checkpoint still names although a run that was killed had deleted their
rows (`Overdrawn`); `doubtful`, a manifest published over such an index. Registry, corpus, exposure files and limits do not change
while a run's files are there; the corpus holds the exposed identities once each.

### ReviewWorkspace

A row of the worksheet is its task; of its annotation only the place in the order
of all annotations is kept. `rows` is the server's memory, `file` the worksheet,
`lock` the workspace's lock, `req` the request of each page with its locals. `Post`,
`SetAnnotation` (under the lock), `WriteWorksheet` or `WriteFails`, `Release`,
`AnswerSaved` are a save; `Get`, `Snapshot`, `DumpRow` (row by row, outside the
lock, while the answer is put into JSON), `AnswerRows` a load. `StopServer` is the
end of the server at any moment; `StartServer` reads the file and leaves out of the
queue what the ledger blocks and what is not selected. One server runs at a time; the status file beside the worksheet is left
out, and so is the validation of the fields the page sends.

## 3. Runs

| Run | Instance | Shows |
|---|---|---|
| `outbox_safety` | 2 rows, 2 workers, 2 claims a row; 2.6 M states | an applied row went through both boundaries and describes the derivative; one claimant; a reconciliation manifest is about what is on disk; nobody undoes an applied row but the worker whose own read-back raised; the outbox implements `TombstoneRequest` |
| `outbox_progress` | the same without faults, 1 claim a row | workers that collide, or drop the rest of their list, still get every row applied |
| `outbox_stranded` | the program without `recover_stale` | **violated**: an interrupted replay leaves a row no command can retry |
| `lexical_safety` | 3 units (two revisions of a message, a reply), 4 records (wide, exact, of one unit, of a context-only message), batches of 2, bodies with markers; 4.8 k states | deleted units and entries stay out whatever is indexed later, and so does deleted context but for what the scan misreads; the FTS table equals the rows; the migration keeps the records |
| `purge_safety` | 1 purge at a time, 3 overlapping ledgers, 3 faults anywhere; 98 k states | the purge implements `ManagedArtifact`, database and manifest together; the manifest binds the database unless the replacement was cut short; reports stay true; each ledger asked for is purged in the end |
| `purge_crash` | 2 ledgers, 1 fault: an end of the process between the two replaces | **violated**: manifest and database belong to different generations, and every later purge refuses them |
| `dense_safety` | 3 units in 2 contents, 3 corpora, 3 commands; 1.3 M states | a job is called indexed only for a point that is there; a ready build, an exact deletion, a verified migration, a repair and a reconciliation are true of the collections |
| `dense_coverage` | 2 commands, the code's probe of 8 points | **violated**: on a collection of `build_dense_index` a deletion reports its context contributors covered and leaves a unit that quotes the deleted message |
| `ingest` | 2 archives of 9 lines with a cycle of parents, 2 tombstones, 2 faults; 533 k states | selections are the lowest ranks; a resumed hydration is an uninterrupted one and finishes; units are honest about missing context; a clean build holds nothing deleted |
| `corpus_staging` | the same | **violated**: a build killed after it staged leaves units its successor publishes under other inputs |
| `archive_audit` | 3 archives in 2 or 4 versions, replaced and put back, 3 faults; 252 k states | a complete audit, in both implementations, describes exactly the archives it names; coverage is of the audit it names; repeated runs end |
| `review_safety` | 2 pages, 3 rows, 3 saves, 2 faults; 395 k states | an acknowledged annotation is on disk and stays; a page load is no older than it; every request is answered |

Bounds.

- Outbox. Two workers are the fewest that collide, two rows the fewest that make a
  list, and two claims give one failed or stopped attempt and its retry; what a third
  claim could do is covered by the theorems, where `MaxAttempts` is arbitrary.
  `outbox_progress` needs one claim only, since nothing fails in it.
- Lexical. The records cover each kind `_is_blocked` and the deletion tell apart,
  `MaxCopies = 2` lets the repeated row of an exact record appear, and two units a
  batch is the smallest batch in which one unit is blocked and another is not. The root's
  body imitates the marker of its reply and its own and ends in a newline, the reply's
  body imitates the focus marker of the unit below. Paragraphs that start a segment of
  another message and a hidden label both occur, and so does deleted text that survives
  by either; the theorem is about any bodies.
- Purge. The wide ledger suppresses a part of the others and not the reverse, so that
  no-op, partly suppressed and fresh purges all occur; three faults allow a failure
  inside the rollback of a failure, after an earlier run that failed. A generation needs no bound: a ledger is propagated only while it is not
  suppressed.
- Dense. Two revisions of a message and a reply that quotes it are the fewest units
  in which a direct and a context deletion select different points; the corpora add
  a unit, or drop the message from the reply's context under the same identifier.
  `BatchSize = 1` makes every loop have several pages.
  `MaxCommands = 3` is a build, something beside or between, and what reports on it.
  `ProbeSize = 1` stands for the 8 of the code, which looks at fewer points than
  there are; the theorems hold for any.
- Ingest. The first archive is for discovery, the second for context only; they
  contain each outcome of a line, more messages than each retainer keeps, and an edited
  message whose new parent makes a cycle. Depending on which revision is read and what
  is retained, a climb ends at the root, at a missing parent, at a missing root, at the
  cap (`MaxParents = 2`) or in the cycle. Every retainer keeps one message per
  selection (`Target = 1`, `ControlTarget = 1`; three of context): ties and capacity
  are settled by the theorems, for any capacity. The limits (`RecordLimits`,
  `ScanLimits`) have a value that ends a scan and one that does not, and
  `CheckpointInterval = 2` puts checkpoints inside a source. Two faults are an
  interruption and one of its resume.
- Audit. The first versions are sound and fill `MaxRecords = 3`; another version fails
  its checksum, exceeds the limit, lacks a message, repeats one another archive has, or
  has lines that cannot be used. A replacement counts as a fault, so that three faults
  are an archive replaced, a kill, and the archive put back.
  `CommitEvery = 1` makes the partitioned audit commit and check its budget at each
  row, the most points to be stopped at.
- Review. Two pages save the same or different rows, one candidate being in two
  scenarios; three saves are one, one that overtakes it, and one after a restart.

Deadlock is checked in the outbox, lexical and purge runs. In the dense, ingest,
audit and review runs it is not: every command may have been given, every bound be
reached, and the system simply stop.

Fairness. `UndisturbedSpec` (outbox): a worker that runs goes on (WF of each worker's
step); nothing is assumed about who starts work. `FairSpec` (purge): a command that
runs goes on (WF), and a purge is asked for again and again (SF of `Start` for each
ledger: the docstring's "retryable via this same command" is about that).
`EveryLedgerIsPurged` excepts the two states that block it for good: a claim left
in_progress on the generation that stays published (purge refuses such a row with
"recover stale claims before purging", and no command recovers stale claims), and a
torn pair. Ingest: a command that runs goes on, and the operator runs hydration again
(WF of `StartHydration` and of `Step`); `HydrationFinishes` excepts what the code refuses
for good, and counts a run as finished that skipped a source it could not read, as the
code does. Audit: the same for `Start` and `Step`; `AuditFinishes` asks in addition that
the archives are sound, match their checksums, fit the limits and are no longer replaced
from some time on; it excepts an index the next run refuses, and a rematch that never
ends, for which no fairness is assumed. Review: a request
the server has is worked on (WF of `Respond` for each page: its thread is scheduled).

Exceptions written into the properties. Each is a path the code has, and the model
reaches it.

- `AppliedIsFinal`, `CertifiedIsCurrent`: the failing read-back of `complete`, above.
- `NoDeletedContext`: a paragraph of the deleted message that itself reads as a marker,
  with what continues it, and a block whose label the scan does not recognise
  (`Misread`). All other text goes, whatever the bodies of the other messages imitate.
  Records of one unit are left out, as `_is_blocked` leaves them out.
- `GenerationBound`, `PublishesAtomically`, `EveryLedgerIsPurged`: a replacement or a
  rollback that was cut short (`torn`). `PriorRemainsPublished` has no exception, and
  is violated (`purge_crash`).
- `MigratedIsCovered`: points whose references were joined from a corpus that holds
  another content of the unit (`mixed`): nothing in `dense_migration.py` compares the
  two.
- `LedgerIsBehind`, `ReadyIsComplete`: the job ledger is not told of deletions (`lost`).
  `ReconciledIsIndexed` has no such exception: it asks instead that the reconciliation
  is given a tombstone ledger that holds the records of all deletions of the
  collection, and is false of an older ledger.
- `DeletionIsExact`, `MigratedIsCovered`, `MigrationIsExact`, `RepairIsTotal`: a command
  during which another one wrote.
- `CompleteAuditIsExact`: the single index lost rows of a source that its checkpoint
  still names. A run that finds another fingerprint, or none, deletes the rows of that
  source and of all after it at its start (`archive_audit.py:256-258`, 331-340); a kill
  before its next checkpoint leaves the old one, and once the archive is put back, or
  can be read again, the following run trusts it. No line of the repository promises
  otherwise.
- `CleanBuildHoldsNothingDeleted`: builds that found a staging file; `corpus_staging` is
  about those.

## 4. Proofs

`tlapm` checks them from nothing; no step is taken on trust. Assumptions are the
named ASSUMEs of the modules only.

**Outbox** (`TombstoneOutbox_proofs`). `AppliedIsPropagated` is not inductive: it
needs that a worker between claim and complete still owns the row (`ClaimHeld`,
`OneOwner`), that its program counter tells what the backends hold
(`StageReached`), that the tail of `operate` reads a row that stays as it is
(`TailReached`), and that a derivative is never newer than the last claim
(`OutputOfAClaim`). Recovery preserves ownership because of `Quiesced`. From the
invariant, which is about the rows in `undone` too, follow `AppliedSafe`,
`ClaimExclusive`, `CertifiedSafe`, the action property `AppliedFinal`, and `Refinement`: each statement maps to a step of
`TombstoneRequest` or to a stutter.

**Lexical store** (`LexicalStore_proofs`). `NothingDeletedIsIndexed` needs that each
consumed record is held by the table that counts, at every step of the migration
(`RecordsHeld`). `NoDeletedContext` needs three facts: no row references a deleted
message (`NoDeletedReference`), a block that is headed by its own label is of a message
the row references (`LabelIsReferenced`), and every paragraph follows, within its block,
a head or a marked paragraph that is still there (`TextIsAnchored`); so what is left of
an author without a reference begins at a paragraph that is misread. The proof that a
scrub keeps them goes through the scan: the segment of a labelled head is dropped or
kept as a whole. `BodyAssumption` allows any marks in any body.

**Purge** (`ArtifactPurge_proofs`), for one purge at a time (`OnePurger`, a hypothesis
of each theorem, which is needed: see the module's note above). The invariant says,
step by step, that the generation read first is still published and backed up, that
the staged one is it with the ledger propagated, and what the rollback would write
back, and for each step of the replacement and of both rollbacks which part of which
generation the root holds (`Bound`). Exceptions and ends of the process are possible at
every step of it. `Refinement` maps the published pair to the generation read before the
replacement until a run has left it, and then to what both files hold: a rollback is a
stutter, and a replacement that is cut short is the one step `Break`, after which
`ManagedArtifact` allows nothing. `TypeCorrect` alone is for any number of purgers: the
locals of a run stay typed whatever the other runs publish under it.

**Dense index** (`DenseMaintenance_proofs`), with all commands interleaved and for any
sizes. `LedgerIsBehind` (a job is indexed only for a point that is there with that
content, or that a deletion removed) is inductive only together with where the build
is: the units it has still to do have pending jobs, all others are indexed, the batch
it wrote is in the collection or was lost (`BuildReached`), and a count that was
accepted was of the build's units (`Counted`). The other commands leave all of that
alone but for `lost`; `Spared` is that lemma, used once a command. A second
invariant, `DeletionReached`, follows a deletion that is alone: the points removed are the context ones plus the
direct ones, and those selected by the records are gone phase by phase. A third,
`Quoted` with `TrueReferences`, says that references in "ctx2" are the quotes of the
content the point embeds, but for the units in `mixed`; with it
`MigratedCovered` is the counterpart of `dense_coverage`: on a migrated collection a
context deletion really covers its contributors. A fourth, `LossesNamed`, says that
a record of some deletion names each unit that was lost, or a message it quotes; it
turns `LedgerIsBehind` into `ReconciledIndexed`: a tombstone ledger that holds the
records keeps the lost units out of what is reported.

**Repair and migration** (`DensePaging_proofs`). Both walk a collection in pages by
point id, and the argument is about the offset. While a repair is alone, the points
up to its offset are labelled and no others are (`RepairReached`); while a migration
is alone, the target holds the points of the source up to its offset with the payload
they were given (`MigrationReached`); what an earlier migration left there and the
source has no longer is ruled out by the count of the target in `Verify`.
A scroll that returns no offset has returned the last point. With that,
`RepairTotal` and `MigrationExact` hold for any size of page. `UnitAssumption` asks that ids are
positive: the first offset, None in the code, is 0 in the model.

**Review workspace** (`ReviewWorkspace_proofs`). The annotation of each row lags along
its way: `acked <= file`, and `file <= rows` while a server runs (`Ordered`). The lock
is held exactly by a request between its change of the row and the end of its write
(`LockHeld`), and the phase of a request tells where its annotation has arrived
(`SaveReached`), or that what a page saw is no older than what had been acknowledged
when it asked (`FloorReached`). `Durable`, `Fresh` and `Kept` follow, failed writes
included: a row such a write leaves changed is in the file after the next one.

**Archive audits** (`ArchiveCoverage_proofs`), both implementations in one invariant.
`CompleteAuditIsExact` is not inductive: it needs that the index has all rows of the
sources the run completed (`IndexHeld`), that what was read of the source being read
is what its first lines hold and that nothing newer was indexed of it (`ReadSoFar`),
that the checkpoint is the run's own when it is saved (`CheckpointIsOwn`), and what a
checkpoint that is left behind still vouches for: in the SQLite audit the sources that are
`Resumable`, or rows already deleted to be read again (`SqliteCheckpointHeld`), in
the partitioned one the index it carries (`PartitionedCheckpointHeld`). A line is
never counted twice since rows are places, not messages. `Exact`, `CoverageExact` and
`Fresher` follow, with archives replaced by any version at any time: a checkpoint is
about the versions it names, not about the latest. `orphaned` and `doubtful` are the
exception stated above, and the invariant says only the SQLite audit has them. Assumed are the constants' types (`ContentAssumption`,
`BoundAssumption`) and that the mark of what is absent is no set of rows
(`NoneAssumption`).

**Ingest** (`IngestPipeline_proofs`). A run's reading is a set of places (source,
line), so that what a scan has done is a statement about sets and not an induction
over the lines. `IsLowest` says what a bounded heap holds of the messages met at a set
of places: of each name the message met first, of the lowest-ranked names, all of
them unless it is full. `OfferLowest` shows an offer keeps that, for any capacity above zero,
and `LowestIsUnique` that it determines the heap, the ranks of names being different
(`RankAssumption`, sha256 in the code); this is why a resumed run has no choice but
to end where an uninterrupted one does. `DiscoveryReached` and `SelectionHeld` give
`SelectionLowest`. For hydration, `ProgressExact` describes a progress at any line: both heaps, the candidates, the
counters, the report of each source passed. It is claimed only of a progress that
skipped no source, because a source that was read in part and is skipped after a
resume leaves what it had contributed: the manifest says "skipped", and
`HydrationResumes` is about manifests that do not. Checkpoint, running command and
complete manifest carry it (`CheckpointHeld`, `HydrationReached`, `HydrationHeld`),
and `Resumes` follows. For the corpus a climb's state (`Up`, one ancestor) is shown to
be a chain of known parents (`Climbing`) that leaves a mark when it stops early;
`UnitsAreHonest` lifts it to units and `ContextHonest` to any corpus, one with the leftovers of
an interrupted build included. `ThreadAssumption` is used there: a thread is named
after a submission, whose thread is its own name (`normalize.py:51`). `CleanBuild` has one hypothesis, `NoneIsNoSet`: the mark of an absent file is no
set of messages or of units. It is not an ASSUME since it ranges over all sets,
which TLC cannot enumerate.

Only model-checked: the liveness properties (`EveryRequestIsApplied`,
`EveryLedgerIsPurged`, `HydrationFinishes`, `AuditFinishes`, `RequestsEnd`), which
need ENABLED. The violations are found by TLC and not proved. Nothing is
proved about two purges at once but their types, or about an interrupted schema
migration (`LexicalStore!CrashSpec`), under which `TombstonesKept` does not hold.

## 5. Not modelled, and why

- Retrieval: ranking, embeddings, reranking and prompts are model inference and
  arithmetic over lists; FTS queries are left to SQLite.
- Purge inventory, package and preflight: read-only reports and one archive writer;
  they change no state other parts read.
- Evaluation but for the archive audits (labels, pooling, metrics, splits, grouping,
  diagnostics): batch computations, one file into another.
- Readers' decompression and parsing, review preparation and export, validation,
  reports and the CLI hold no state another part reads while it changes.
- Two connections that write one lexical store, two review servers on one worksheet,
  and two ingest commands at once are excluded by the models, not by the code.
- One derivative and one collection per outbox identity: operating an applied row
  against another collection (`operator.py:357`) is outside the model.

Read while modelling, and not checked by any run: a discovery that breaks its budget
writes a manifest without a shard, which later runs refuse (`pilot.py:246`); a row of
the context shard replaces the selected revision of the same message
(`baseline.py:148`); exact records without a unit are inserted again at each
consumption, NULLs being distinct in the primary key (`sqlite_store.py:300`); a record
that names one unit scrubs the context of every row (`sqlite_store.py:536`); the
grouping audit joins through its message-to-shingle edges, so messages that share one
shingle form a group whatever its Jaccard threshold (`grouping_audit.py:263`);
duplicate links with an end outside the pool are counted and not used
(`splits.py:376`); the label report hashes the worksheet after it has read it
(`labels.py`).

## 6. Plan

Done, in this order: deletion that must not be undone (TombstoneRequest,
TombstoneOutbox, LexicalStore, ManagedArtifact, ArtifactPurge), what deletion has to
reach (DenseIndex, DenseMaintenance), what fills it (Ingest to IngestPipeline),
what judges it (ArchiveAudit to ArchiveCoverage, ReviewWorkspace).

Next:

1. `GroupSplit` and `GroupingAudit`: the union of groups and the splits as functions,
   checked against a reference definition of a partition without leakage.
2. Label collection composed with `ReviewWorkspace`: a worksheet that is saved while
   it is collected.
3. `LexicalStore` with two connections, the block check before the transaction.
4. Proofs: `CorpusIsItsInputs` for builds that found no staging file; what two purges
   at once keep besides their types.
