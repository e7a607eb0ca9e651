----------------------------- MODULE ArtifactPurge -----------------------------
(***************************************************************************)
(* "tombstones purge" (operations/artifact_purge.py): validate, back up,   *)
(* register a claim, stage a scrubbed generation, replace the published    *)
(* manifest and database, reconcile.                                       *)
(*                                                                         *)
(* One artifact root and one snapshot.  A generation is abstracted to its  *)
(* tombstone rows: LexicalStore shows that a recorded tombstone keeps its  *)
(* units out.  The file hash of a generation, and the hash a manifest      *)
(* binds, are the generation itself.  A purger is one run of the command   *)
(* after another; each step below is one file or outbox operation of it,   *)
(* which may raise, and between and within any two the process may end.    *)
(***************************************************************************)
EXTENDS Naturals, FiniteSets

CONSTANTS
    Purger,       \* processes that run the command
    Record,       \* tombstones: a message and a revision
    AnyRevision,  \* revision NULL: all revisions of the message
    Ledger,       \* ledgers that are purged: non-empty sets of records
    MaxFaults,    \* bound on raised exceptions and ends of the process
    None          \* nothing, or a file that is no generation: half written

ASSUME LedgerAssumption == Ledger \subseteq (SUBSET Record) \ {{}}

ASSUME FaultAssumption == MaxFaults \in Nat

ASSUME NoneAssumption == None \notin [Record -> Nat]

VARIABLES
    db,        \* the published database
    manifest,  \* the generation its sidecar manifest is bound to
    tmp,       \* <db>.purge-tmp and <manifest>.purge-tmp, or None
    backups,   \* generations with a database and a manifest in backup_dir
    rows,      \* status of the outbox row of each registered identity
    reported,  \* ledgers with a reconciliation manifest
    pc,        \* the next step of each purger
    job,       \* its ledger, the generation it read first, publication_retry
    staged,    \* its staged generation
    old,       \* the database and manifest it read before replacing them
    torn,      \* a replacement or a rollback was cut short, and the manifest
               \* left in the root does not bind the database
    faults     \* exceptions and ends of the process so far

vars == <<db, manifest, tmp, backups, rows, reported, pc, job, staged, old, torn, faults>>

-----------------------------------------------------------------------------
Generation == [Record -> Nat]

(* consume_tombstone_projection inserts a wide record once, an exact one at *)
(* every propagation.                                                       *)
Propagated(g, l) ==
    [r \in Record |-> IF r \in l /\ (r.revision = AnyRevision => g[r] = 0)
                        THEN g[r] + 1 ELSE g[r]]

(* suppression_precheck: every identity of the ledger has a tombstone row,  *)
(* fullname-wide or of its very revision.                                   *)
Suppresses(g, l) ==
    \A r \in l : \E s \in Record :
        /\ g[s] > 0
        /\ s.message = r.message
        /\ s.revision \in {AnyRevision, r.revision}

Unpurged == [r \in Record |-> 0]

(* The manifest binds the database that is published. *)
Whole == db \in Generation /\ manifest = db

Init ==
    /\ db = Unpurged
    /\ manifest = Unpurged
    /\ tmp = [db |-> None, manifest |-> None]
    /\ backups = {}
    /\ rows = [id \in {} |-> None]
    /\ reported = {}
    /\ pc = [p \in Purger |-> "idle"]
    /\ job = [p \in Purger |-> None]
    /\ staged = [p \in Purger |-> None]
    /\ old = [p \in Purger |-> None]
    /\ torn = FALSE
    /\ faults = 0

(* An outbox identity covers the records and the published database hash.   *)
Id(p) == <<job[p].ledger, job[p].prior>>

StatusOf(id) == IF id \in DOMAIN rows THEN rows[id] ELSE None

Marked(id, status) ==
    [i \in DOMAIN rows \union {id} |-> IF i = id THEN status ELSE rows[i]]

Goto(p, label) == pc' = [pc EXCEPT ![p] = label]

(* The command ends; the staging directory is removed. *)
Return(p) ==
    /\ Goto(p, "idle")
    /\ job' = [job EXCEPT ![p] = None]
    /\ staged' = [staged EXCEPT ![p] = None]
    /\ old' = [old EXCEPT ![p] = None]

-----------------------------------------------------------------------------
(* Seeded fault: an applied row is taken for a published generation. *)
StartTrustingOutbox(p, l) ==
    /\ pc[p] = "idle"
    /\ Whole
    /\ IF Suppresses(db, l) \/ StatusOf(<<l, db>>) = "applied"
         THEN /\ reported' = reported \union {l}
              /\ UNCHANGED <<pc, job>>
         ELSE /\ Goto(p, "backup")
              /\ job' = [job EXCEPT ![p] = [ledger |-> l, prior |-> db, retry |-> FALSE]]
              /\ UNCHANGED reported
    /\ UNCHANGED <<db, manifest, tmp, backups, rows, staged, old, torn, faults>>

(* Up to the precheck: a published database that its manifest does not bind *)
(* is refused; one that suppresses the ledger, with no claim to finish, is  *)
(* reported purged at once.                                                 *)
Start(p, l) ==
    /\ pc[p] = "idle"
    /\ Whole
    /\ IF Suppresses(db, l) /\ StatusOf(<<l, db>>) \notin {"pending", "in_progress"}
         THEN /\ reported' = reported \union {l}
              /\ UNCHANGED <<pc, job>>
         ELSE /\ Goto(p, "backup")
              /\ job' = [job EXCEPT ![p] = [ledger |-> l, prior |-> db, retry |-> FALSE]]
              /\ UNCHANGED reported
    /\ UNCHANGED <<db, manifest, tmp, backups, rows, staged, old, torn, faults>>

(* _load_published_manifest raises: nothing is done. *)
Refuse(p) == pc[p] = "idle" /\ ~Whole /\ UNCHANGED vars

(* Seeded fault: the manifest is verified, the database was never copied. *)
BackupNothing(p) ==
    /\ pc[p] = "backup"
    /\ Goto(p, "register")
    /\ UNCHANGED <<db, manifest, tmp, backups, rows, reported, job, staged, old, torn, faults>>

(* _backup_generation, with its readback. *)
Backup(p) ==
    /\ pc[p] = "backup" /\ db \in Generation
    /\ backups' = backups \union {db}
    /\ Goto(p, "register")
    /\ UNCHANGED <<db, manifest, tmp, rows, reported, job, staged, old, torn, faults>>

(* register, and the branch on the status it returns. *)
Register(p) ==
    /\ pc[p] = "register"
    /\ IF StatusOf(Id(p)) = None
         THEN rows' = Marked(Id(p), "pending")
         ELSE UNCHANGED rows
    /\ IF StatusOf(Id(p)) = "in_progress"
         THEN Return(p)
         ELSE /\ Goto(p, IF StatusOf(Id(p)) = "applied" THEN "stage" ELSE "claim")
              /\ job' = [job EXCEPT ![p].retry = StatusOf(Id(p)) = "applied"]
              /\ UNCHANGED <<staged, old>>
    /\ UNCHANGED <<db, manifest, tmp, backups, reported, torn, faults>>

(* Seeded fault: a failed row cannot be claimed again. *)
ClaimPending(p) ==
    /\ pc[p] = "claim"
    /\ IF StatusOf(Id(p)) = "pending"
         THEN /\ rows' = Marked(Id(p), "in_progress")
              /\ Goto(p, "stage")
              /\ UNCHANGED <<job, staged, old>>
         ELSE /\ Return(p)
              /\ UNCHANGED rows
    /\ UNCHANGED <<db, manifest, tmp, backups, reported, torn, faults>>

(* TombstoneOperator.replay up to its claim.  A row that another purger     *)
(* claims or applies first ends the run: nothing was staged for it.         *)
Claim(p) ==
    /\ pc[p] = "claim"
    /\ IF StatusOf(Id(p)) \in {"pending", "failed"}
         THEN /\ rows' = Marked(Id(p), "in_progress")
              /\ Goto(p, "stage")
              /\ UNCHANGED <<job, staged, old>>
         ELSE /\ Return(p)
              /\ UNCHANGED rows
    /\ UNCHANGED <<db, manifest, tmp, backups, reported, torn, faults>>

(* propagate_tombstone_projection of the database published now; only the   *)
(* retry holds it against the hash read first.                              *)
Stage(p) ==
    /\ pc[p] = "stage"
    /\ IF job[p].retry /\ db # job[p].prior
         THEN Return(p)
         ELSE /\ db \in Generation
              /\ staged' = [staged EXCEPT ![p] = Propagated(db, job[p].ledger)]
              /\ Goto(p, "complete")
              /\ UNCHANGED <<job, old>>
    /\ UNCHANGED <<db, manifest, tmp, backups, rows, reported, torn, faults>>

Complete(p) ==
    /\ pc[p] = "complete"
    /\ rows' = Marked(Id(p), "applied")
    /\ Goto(p, "verify")
    /\ UNCHANGED <<db, manifest, tmp, backups, reported, job, staged, old, torn, faults>>

(* The semantic fingerprints decide whether there is anything to publish. *)
Verify(p) ==
    /\ pc[p] = "verify" /\ db \in Generation
    /\ Goto(p, IF staged[p] = db THEN "reconcile" ELSE "copy")
    /\ UNCHANGED <<db, manifest, tmp, backups, rows, reported, job, staged, old, torn, faults>>

-----------------------------------------------------------------------------
(* _publish_generation. *)

(* Both files are copied into the root, then the present ones are read.     *)
Copy(p) ==
    /\ pc[p] = "copy"
    /\ tmp' = [db |-> staged[p], manifest |-> staged[p]]
    /\ old' = [old EXCEPT ![p] = [db |-> db, manifest |-> manifest]]
    /\ Goto(p, "manifest")
    /\ UNCHANGED <<db, manifest, backups, rows, reported, job, staged, torn, faults>>

ReplaceManifest(p) ==
    /\ pc[p] = "manifest"
    /\ tmp.manifest # None
    /\ manifest' = tmp.manifest
    /\ tmp' = [tmp EXCEPT !.manifest = None]
    /\ Goto(p, "db")
    /\ UNCHANGED <<db, backups, rows, reported, job, staged, old, torn, faults>>

ReplaceDb(p) ==
    /\ pc[p] = "db"
    /\ tmp.db # None
    /\ db' = tmp.db
    /\ tmp' = [tmp EXCEPT !.db = None]
    /\ Goto(p, "check")
    /\ UNCHANGED <<manifest, backups, rows, reported, job, staged, old, torn, faults>>

Check(p) ==
    /\ pc[p] = "check"
    /\ db = staged[p] /\ manifest = staged[p]
    /\ Goto(p, "reconcile")
    /\ UNCHANGED <<db, manifest, tmp, backups, rows, reported, job, staged, old, torn, faults>>

Reconcile(p) ==
    /\ pc[p] = "reconcile"
    /\ reported' = reported \union {job[p].ledger}
    /\ Return(p)
    /\ UNCHANGED <<db, manifest, tmp, backups, rows, torn, faults>>

-----------------------------------------------------------------------------
(* The rollbacks of _publish_generation.  Both write the two files in place, *)
(* one after the other: the handler of a replace that raised the manifest    *)
(* first, the failed verification the database first.                        *)

(* Seeded fault: the handler forgets the manifest. *)
UndoNothing(p) ==
    /\ pc[p] = "undo_manifest"
    /\ Goto(p, "undo_db")
    /\ UNCHANGED <<db, manifest, tmp, backups, rows, reported, job, staged, old, torn, faults>>

UndoManifest(p) ==
    /\ pc[p] = "undo_manifest"
    /\ manifest' = old[p].manifest
    /\ Goto(p, "undo_db")
    /\ UNCHANGED <<db, tmp, backups, rows, reported, job, staged, old, torn, faults>>

RevertDb(p) ==
    /\ pc[p] = "revert_db"
    /\ db' = old[p].db
    /\ Goto(p, "revert_manifest")
    /\ UNCHANGED <<manifest, tmp, backups, rows, reported, job, staged, old, torn, faults>>

(* Seeded fault: a status the outbox does not know. *)
FailRowAsError(p) == rows' \in {Marked(Id(p), "error"), rows}

(* outbox.fail, which can itself raise and leave the row as it is. *)
FailRow(p) == rows' \in {Marked(Id(p), "failed"), rows}

UndoDb(p) ==
    /\ pc[p] = "undo_db"
    /\ db' = old[p].db
    /\ tmp' = [db |-> None, manifest |-> None]
    /\ FailRow(p)
    /\ Return(p)
    /\ UNCHANGED <<manifest, backups, reported, torn, faults>>

(* Seeded fault: the verification restores the database alone. *)
RevertDatabaseOnly(p) ==
    /\ pc[p] = "revert_manifest"
    /\ FailRow(p)
    /\ Return(p)
    /\ UNCHANGED <<db, manifest, tmp, backups, reported, torn, faults>>

RevertManifest(p) ==
    /\ pc[p] = "revert_manifest"
    /\ manifest' = old[p].manifest
    /\ FailRow(p)
    /\ Return(p)
    /\ UNCHANGED <<db, tmp, backups, reported, torn, faults>>

Rollback(p) == UndoManifest(p) \/ UndoDb(p) \/ RevertDb(p) \/ RevertManifest(p)

-----------------------------------------------------------------------------
(* What goes wrong. *)
Fault == faults < MaxFaults /\ faults' = faults + 1

(* The database that another purger left cannot be read. *)
Unreadable(p) == pc[p] \in {"backup", "stage", "verify"} /\ db \notin Generation

Trouble(p) == Fault \/ (Unreadable(p) /\ UNCHANGED faults)

(* The manifest is written in place over that of an earlier backup. *)
HalfBackup == backups' \in {backups, backups \ {db}}

BackupRaises(p) ==
    /\ pc[p] = "backup"
    /\ Trouble(p)
    /\ HalfBackup
    /\ Return(p)
    /\ UNCHANGED <<db, manifest, tmp, rows, reported, torn>>

(* Exceptions no handler turns into a failed row. *)
Raises(p) ==
    /\ \/ pc[p] \in {"register", "claim", "verify", "reconcile"}
       \/ pc[p] \in {"stage", "complete"} /\ job[p].retry
    /\ Trouble(p)
    /\ Return(p)
    /\ UNCHANGED <<db, manifest, tmp, backups, rows, reported, torn>>

(* replay: a boundary or complete raises. *)
ReplayFails(p) ==
    /\ pc[p] \in {"stage", "complete"}
    /\ ~job[p].retry
    /\ Trouble(p)
    /\ FailRow(p)
    /\ Return(p)
    /\ UNCHANGED <<db, manifest, tmp, backups, reported, torn>>

(* The copies are removed when writing them fails, not when reading the     *)
(* present files does.                                                      *)
CopyFails(p) ==
    /\ pc[p] = "copy"
    /\ Fault
    /\ tmp' \in {[db |-> None, manifest |-> None],
                 [db |-> staged[p], manifest |-> staged[p]]}
    /\ FailRow(p)
    /\ Return(p)
    /\ UNCHANGED <<db, manifest, backups, reported, torn>>

(* The files could not be read back: the new generation stays. *)
CheckRaises(p) ==
    /\ pc[p] = "check"
    /\ Fault
    /\ FailRow(p)
    /\ Return(p)
    /\ UNCHANGED <<db, manifest, tmp, backups, reported, torn>>

(* A copy is gone (another purger took it), or the files do not verify. *)
Unpublishable(p) ==
    \/ pc[p] = "manifest" /\ tmp.manifest = None
    \/ pc[p] = "db" /\ tmp.db = None
    \/ pc[p] = "check" /\ ~(db = staged[p] /\ manifest = staged[p])

(* A replace raises, or the verification fails: the rollback begins. *)
PublishFails(p) ==
    /\ pc[p] \in {"manifest", "db", "check"}
    /\ Fault \/ (Unpublishable(p) /\ UNCHANGED faults)
    /\ Goto(p, IF pc[p] = "check" THEN "revert_db" ELSE "undo_manifest")
    /\ UNCHANGED <<db, manifest, tmp, backups, rows, reported, job, staged, old, torn>>

(* The steps at which the root may hold parts of two generations. *)
Replacing == {"db", "check", "undo_manifest", "undo_db", "revert_db", "revert_manifest"}

(* A write in place that does not end: the file is untouched, half written, *)
(* or written.                                                              *)
HalfWritten(p) ==
    /\ db' \in IF pc[p] \in {"undo_db", "revert_db"} THEN {db, None, old[p].db} ELSE {db}
    /\ manifest' \in IF pc[p] \in {"undo_manifest", "revert_manifest"}
                        THEN {manifest, None, old[p].manifest} ELSE {manifest}
    /\ torn' = (torn \/ (pc[p] \in Replacing /\ ~Whole'))

(* A write of a rollback raises, or the removal of the copies after it: the *)
(* rest of the rollback is not done.                                        *)
RollbackRaises(p) ==
    /\ pc[p] \in {"undo_manifest", "undo_db", "revert_db", "revert_manifest"}
    /\ Fault
    /\ HalfWritten(p)
    /\ FailRow(p)
    /\ Return(p)
    /\ UNCHANGED <<tmp, backups, reported>>

(* The process ends, wherever it is. *)
Crash(p) ==
    /\ pc[p] # "idle"
    /\ Fault
    /\ IF pc[p] = "backup" THEN HalfBackup ELSE UNCHANGED backups
    /\ HalfWritten(p)
    /\ Return(p)
    /\ UNCHANGED <<tmp, rows, reported>>

-----------------------------------------------------------------------------
Progress(p) ==
    \/ Backup(p) \/ Register(p) \/ Claim(p) \/ Stage(p)
    \/ Complete(p) \/ Verify(p) \/ Copy(p) \/ ReplaceManifest(p) \/ ReplaceDb(p)
    \/ Check(p) \/ Reconcile(p) \/ Rollback(p)

Failure(p) ==
    \/ BackupRaises(p) \/ Raises(p) \/ ReplayFails(p) \/ CopyFails(p)
    \/ CheckRaises(p) \/ PublishFails(p) \/ RollbackRaises(p) \/ Crash(p)

Next ==
    \E p \in Purger :
        \/ \E l \in Ledger : Start(p, l)
        \/ Refuse(p) \/ Progress(p) \/ Failure(p)

(* A command that runs goes on; each purge is asked for again and again. *)
Fairness ==
    \A p \in Purger :
        /\ WF_vars(Progress(p))
        /\ \A l \in Ledger : SF_vars(Start(p, l))

Spec == Init /\ [][Next]_vars

FairSpec == Spec /\ Fairness

-----------------------------------------------------------------------------
Status == {"pending", "in_progress", "applied", "failed"}

Job == [ledger : Ledger, prior : Generation, retry : BOOLEAN]

Label == {"idle", "backup", "register", "claim", "stage", "complete", "verify",
          "copy", "manifest", "db", "check", "reconcile",
          "undo_manifest", "undo_db", "revert_db", "revert_manifest"}

File == Generation \union {None}

TypeOK ==
    /\ db \in File /\ manifest \in File
    /\ tmp \in [db : File, manifest : File]
    /\ backups \subseteq Generation
    /\ DOMAIN rows \subseteq Ledger \X Generation
    /\ \A id \in DOMAIN rows : rows[id] \in Status
    /\ reported \subseteq Ledger
    /\ pc \in [Purger -> Label]
    /\ job \in [Purger -> Job \union {None}]
    /\ staged \in [Purger -> File]
    /\ old \in [Purger -> [db : File, manifest : File] \union {None}]
    /\ torn \in BOOLEAN
    /\ faults \in 0 .. MaxFaults

(* Whatever raises or ends the process, the manifest binds the published    *)
(* database when no replacement or rollback is under way, so that the next  *)
(* purge is not refused: replaces that raise, verifications that fail and   *)
(* rollbacks leave one whole generation.  The one exception is the end that *)
(* cuts the replacement or its rollback short, or the write of the rollback *)
(* that raises (_publish_generation).                                       *)
GenerationBound == (\A p \in Purger : pc[p] \notin Replacing) => Whole \/ torn

(* The same without the exception: when no purge runs, what is published is *)
(* one whole generation (run_artifact_purge: "On any failure the prior      *)
(* generation remains the published one").                                  *)
PriorRemainsPublished == (\A p \in Purger : pc[p] = "idle") => Whole

(* A reconciliation manifest stays true: what it reports purged, by a       *)
(* publication or as a no-op, is suppressed by the published generation     *)
(* then and ever after, through every rollback, unless the database is left *)
(* half written.                                                            *)
ReportedIsPurged == db \in Generation => \A l \in reported : Suppresses(db, l)

(* A generation is backed up, database and manifest, before another one     *)
(* takes its place (module docstring, step 3), in spite of half-written     *)
(* backups and retries.                                                     *)
OverwrittenIsBackedUp == [][\A p \in Purger : ReplaceDb(p) /\ db' # db => db \in backups]_vars

(* The published generation: the prior one while it is being replaced, and  *)
(* afterwards the one both files hold, if they do.                          *)
Published ==
    IF \E p \in Purger : pc[p] \in Replacing
      THEN old[CHOOSE p \in Purger : pc[p] \in Replacing].db
      ELSE IF Whole THEN db ELSE None

Promise == INSTANCE ManagedArtifact
    WITH published <- Published, kept <- backups, broken <- torn, Initial <- Unpurged

(* The purge is the replacement ManagedArtifact describes: database and     *)
(* manifest are those of the prior generation or both those of the next,    *)
(* however a run fails, unless it is cut short inside the replacement.      *)
PublishesAtomically == Promise!Spec

(* A purge that is asked for again after each failure is carried out, from  *)
(* whatever row and generation the failure left: unless an end of the       *)
(* process, or of outbox.fail, left its claim in_progress on the generation *)
(* that stays published, or the pair was torn and every purge is refused.   *)
EveryLedgerIsPurged ==
    \A l \in Ledger :
        \/ <>(l \in reported)
        \/ <>[](StatusOf(<<l, db>>) = "in_progress")
        \/ <>[]torn
-----------------------------------------------------------------------------
(* The inductive invariant, for one purger.                                 *)

(* The part of a run in which the generation it read first is backed up and *)
(* still published.                                                         *)
BackedUp == {"register", "claim", "stage", "complete", "verify", "copy", "manifest", "db"}

(* The staged generation is the published one with the ledger propagated.   *)
StagedFromPublished(p) ==
    pc[p] \in {"complete", "verify", "copy", "manifest", "db"} =>
        staged[p] = Propagated(db, job[p].ledger)

(* What the rollback writes back, and what it replaces.                     *)
RollbackReady(p) ==
    /\ pc[p] \in {"manifest"} \union Replacing => old[p] \in [db : Generation, manifest : Generation]
    /\ pc[p] \in {"manifest"} \union Replacing =>
         /\ old[p].manifest = old[p].db
         /\ old[p].db \in backups
         /\ \A l \in reported : Suppresses(old[p].db, l)
    /\ pc[p] \in {"manifest", "db", "undo_manifest", "undo_db", "revert_manifest"} => db = old[p].db
    /\ pc[p] \in {"check", "revert_db"} => db = Propagated(old[p].db, job[p].ledger)

Copied(p) ==
    /\ pc[p] = "manifest" => tmp = [db |-> staged[p], manifest |-> staged[p]]
    /\ pc[p] = "db" => tmp = [db |-> staged[p], manifest |-> None]

(* Which parts of which generation the root holds. *)
Bound(p) ==
    /\ pc[p] = "db" => manifest = staged[p]
    /\ pc[p] = "undo_db" => manifest = old[p].manifest
    /\ pc[p] \in {"check", "revert_db"} => Whole
    /\ pc[p] \notin Replacing => Whole \/ torn
    /\ torn => pc[p] = "idle" /\ ~Whole

IInv ==
    /\ TypeOK
    /\ ReportedIsPurged
    /\ \A p \in Purger :
        /\ pc[p] # "idle" => job[p] \in Job
        /\ pc[p] \in BackedUp => db \in backups
        /\ pc[p] = "reconcile" => Suppresses(db, job[p].ledger)
        /\ StagedFromPublished(p)
        /\ RollbackReady(p)
        /\ Copied(p)
        /\ Bound(p)
=============================================================================
