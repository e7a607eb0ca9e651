------------------------- MODULE ArtifactPurge_proofs -------------------------
(***************************************************************************)
(* Theorems about ArtifactPurge when one purge runs at a time, for every   *)
(* set of records and ledgers and every number of failures.                *)
(***************************************************************************)
EXTENDS ArtifactPurge, TLAPS

OnePurger == \E p : Purger = {p}

(* What IInv says of one purger. *)
Local(p) ==
    /\ pc[p] # "idle" => job[p] \in Job
    /\ pc[p] \in BackedUp => db \in backups
    /\ pc[p] = "reconcile" => Suppresses(db, job[p].ledger)
    /\ StagedFromPublished(p)
    /\ RollbackReady(p)
    /\ Copied(p)
    /\ Bound(p)

-----------------------------------------------------------------------------
(* A generation of the artifact stays one when a ledger is propagated.      *)
LEMMA PropagatedType ==
    ASSUME NEW g \in Generation, NEW l
    PROVE  Propagated(g, l) \in Generation
  BY DEF Propagated, Generation

(* Propagation suppresses the ledger it propagates. *)
LEMMA PropagatedSuppresses ==
    ASSUME NEW g \in Generation, NEW l \in Ledger
    PROVE  Suppresses(Propagated(g, l), l)
<1> SUFFICES ASSUME NEW r \in l
             PROVE  \E s \in Record :
                       /\ Propagated(g, l)[s] > 0
                       /\ s.message = r.message
                       /\ s.revision \in {AnyRevision, r.revision}
  BY DEF Suppresses
<1>1. r \in Record
  BY LedgerAssumption
<1>2. g[r] \in Nat /\ Propagated(g, l)[r] > 0
  BY <1>1 DEF Propagated, Generation
<1> QED
  BY <1>1, <1>2

(* Propagation takes no tombstone away. *)
LEMMA SuppressesKept ==
    ASSUME NEW g \in Generation, NEW k \in Ledger, NEW l, Suppresses(g, k)
    PROVE  Suppresses(Propagated(g, l), k)
<1>1. \A s \in Record : g[s] > 0 => Propagated(g, l)[s] > 0
  BY DEF Propagated, Generation
<1> QED
  BY <1>1 DEF Suppresses

-----------------------------------------------------------------------------
(* Marking a row keeps the rows typed.                                      *)
LEMMA MarkedType ==
    ASSUME TypeOK, NEW id \in Ledger \X Generation, NEW s \in Status
    PROVE  /\ DOMAIN Marked(id, s) \subseteq Ledger \X Generation
           /\ \A i \in DOMAIN Marked(id, s) : Marked(id, s)[i] \in Status
  BY DEF TypeOK, Marked

(* A request names a ledger and a generation.                               *)
LEMMA IdType ==
    ASSUME NEW p \in Purger, job[p] \in Job
    PROVE  Id(p) \in Ledger \X Generation
  BY DEF Id, Job

(* While a purge runs nothing is torn, and the database can be read.        *)
LEMMA Running ==
    ASSUME NEW p \in Purger, IInv, pc[p] # "idle"
    PROVE  /\ torn = FALSE /\ db \in Generation
           /\ job[p] \in Job /\ Id(p) \in Ledger \X Generation
           /\ pc[p] \notin Replacing => manifest = db
           /\ \A l \in reported : Suppresses(db, l)
<1>1. torn = FALSE /\ job[p] \in Job
  BY DEF IInv, TypeOK, Bound
<1>2. db \in Generation /\ (pc[p] \notin Replacing => manifest = db)
  BY <1>1 DEF IInv, Bound, RollbackReady, Replacing, Whole
<1> QED
  BY <1>1, <1>2, IdType DEF IInv, ReportedIsPurged

(* The first state is typed.                                                *)
LEMMA InitTyped == Init => TypeOK
<1> SUFFICES ASSUME Init PROVE TypeOK
  OBVIOUS
<1>1. Unpurged \in File /\ None \in File
  BY DEF Unpurged, Generation, File
<1>2. DOMAIN rows = {}
  BY DEF Init
<1> HIDE DEF File, Unpurged
<1>3. /\ db \in File /\ manifest \in File /\ tmp \in [db : File, manifest : File]
      /\ backups = {} /\ reported = {} /\ torn = FALSE /\ faults \in 0 .. MaxFaults
  BY <1>1, FaultAssumption DEF Init
<1>4. /\ pc \in [Purger -> Label] /\ job \in [Purger -> Job \union {None}]
      /\ staged \in [Purger -> File] /\ old \in [Purger -> [db : File, manifest : File] \union {None}]
  BY <1>1 DEF Init, Label
<1> QED BY <1>2, <1>3, <1>4 DEF TypeOK

(* The invariant holds before any purge.                                    *)
LEMMA InitHolds == Init => IInv
<1> SUFFICES ASSUME Init PROVE IInv
  OBVIOUS
<1>1. Unpurged \in Generation
  BY DEF Unpurged, Generation
<1>2. TypeOK
  BY InitTyped
<1>3. ReportedIsPurged
  BY DEF Init, ReportedIsPurged
<1>4. \A p \in Purger : Local(p)
  BY <1>1 DEF Init, Local, BackedUp, StagedFromPublished, RollbackReady, Copied, Bound, Replacing,
     Whole
<1> QED BY <1>2, <1>3, <1>4 DEF IInv, Local

(* A run that ends with the files and rows in order. *)
LEMMA ReturnHolds ==
    ASSUME OnePurger, NEW p \in Purger, IInv, Return(p),
           db' \in File, manifest' \in File, torn' \in BOOLEAN,
           torn' = ~Whole', tmp' \in [db : File, manifest : File],
           backups' \subseteq Generation,
           DOMAIN rows' \subseteq Ledger \X Generation,
           \A id \in DOMAIN rows' : rows'[id] \in Status,
           reported' \subseteq Ledger, ReportedIsPurged',
           faults' \in 0 .. MaxFaults
    PROVE  IInv'
<1>1. TypeOK'
  BY DEF IInv, TypeOK, Return, Goto, Label, File
<1>2. \A q \in Purger : q = p /\ pc'[q] = "idle"
  BY DEF OnePurger, IInv, TypeOK, Return, Goto
<1> QED
  BY <1>1, <1>2 DEF IInv, BackedUp, StagedFromPublished, RollbackReady, Copied, Bound, Replacing, Whole, Replacing

(* The backup is a copy of the published derivative.                        *)
LEMMA BackupHolds ==
    ASSUME OnePurger, NEW p \in Purger, IInv, Backup(p)
    PROVE  IInv'
<1>1. TypeOK'
  BY DEF IInv, TypeOK, Backup, Goto, Label
<1>2. ReportedIsPurged'
  BY DEF IInv, ReportedIsPurged, Backup
<1>3. Local(p)'
  BY DEF IInv, BackedUp, StagedFromPublished, RollbackReady, Copied, Bound, Replacing, Whole, Local, TypeOK, Backup, Goto
<1> QED
  BY <1>1, <1>2, <1>3 DEF OnePurger, IInv, Local

(* A row is marked applied for the staged copy, before it is published.     *)
LEMMA CompleteHolds ==
    ASSUME OnePurger, NEW p \in Purger, IInv, Complete(p)
    PROVE  IInv'
<1>1. Id(p) \in Ledger \X Generation
  BY IdType DEF IInv, Complete
<1>2. TypeOK'
  BY <1>1, MarkedType DEF IInv, TypeOK, Complete, Goto, Label, Status
<1>3. ReportedIsPurged'
  BY DEF IInv, ReportedIsPurged, Complete
<1>4. Local(p)'
  BY <1>1, MarkedType DEF IInv, BackedUp, StagedFromPublished, RollbackReady, Copied, Bound, Replacing, Whole, Local, TypeOK, Complete, Goto, Status
<1> QED
  BY <1>2, <1>3, <1>4 DEF OnePurger, IInv, Local

(* What a rollback would restore is what is published.                      *)
LEMMA CopyHolds ==
    ASSUME OnePurger, NEW p \in Purger, IInv, Copy(p)
    PROVE  IInv'
<1>1. TypeOK'
  BY DEF IInv, TypeOK, Copy, Goto, Label, Generation
<1>2. ReportedIsPurged'
  BY DEF IInv, ReportedIsPurged, Copy
<1>3. Local(p)'
  <2>1. /\ torn = FALSE /\ Whole /\ pc[p] = "copy" /\ pc'[p] = "manifest"
        /\ old'[p] = [db |-> db, manifest |-> manifest]
        /\ \A l \in reported : Suppresses(db, l)
    BY Running DEF IInv, TypeOK, Copy, Goto, Replacing, Whole
  <2> QED
    BY <2>1 DEF IInv, BackedUp, StagedFromPublished, RollbackReady, Copied, Bound, Replacing,
       Whole, Local, TypeOK, Copy
<1> QED
  BY <1>1, <1>2, <1>3 DEF OnePurger, IInv, Local

(* The manifest is replaced first, from its copy.                           *)
LEMMA ReplaceManifestHolds ==
    ASSUME OnePurger, NEW p \in Purger, IInv, ReplaceManifest(p)
    PROVE  IInv'
<1>1. TypeOK'
  BY DEF IInv, TypeOK, ReplaceManifest, Goto, Label, File
<1>2. ReportedIsPurged'
  BY DEF IInv, ReportedIsPurged, ReplaceManifest
<1>3. Local(p)'
  BY DEF IInv, BackedUp, StagedFromPublished, RollbackReady, Copied, Bound, Replacing, Whole, Local, TypeOK, ReplaceManifest, Goto
<1> QED
  BY <1>1, <1>2, <1>3 DEF OnePurger, IInv, Local

(* The check passes when both files are the staged ones.                    *)
LEMMA CheckHolds ==
    ASSUME OnePurger, NEW p \in Purger, IInv, Check(p)
    PROVE  IInv'
<1>1. TypeOK'
  BY DEF IInv, TypeOK, Check, Goto, Label
<1>2. ReportedIsPurged'
  BY DEF IInv, ReportedIsPurged, Check
<1>3. Suppresses(db, job[p].ledger)
  BY PropagatedSuppresses DEF IInv, Check, RollbackReady, Job, Replacing
<1>4. Local(p)'
  BY <1>3 DEF IInv, BackedUp, StagedFromPublished, RollbackReady, Copied, Bound, Replacing, Whole, Local, TypeOK, Check, Goto
<1> QED
  BY <1>1, <1>2, <1>4 DEF OnePurger, IInv, Local

(* A backup that fails leaves the artifact as it was.                       *)
LEMMA BackupRaisesHolds ==
    ASSUME OnePurger, NEW p \in Purger, IInv, BackupRaises(p)
    PROVE  IInv'
<1> USE DEF IInv, TypeOK, BackupRaises, Trouble, Fault, File
<1>1. Return(p)
  OBVIOUS
<1>2. /\ db' = db /\ manifest' = manifest /\ reported' = reported
      /\ torn' = FALSE /\ Whole /\ Whole'
  BY Running DEF Whole, Bound, Replacing
<1>3. ReportedIsPurged' /\ faults' \in 0 .. MaxFaults
  BY <1>2, FaultAssumption DEF ReportedIsPurged
<1>4. /\ backups' \subseteq Generation
      /\ tmp' \in [db : File, manifest : File]
  BY <1>1 DEF HalfBackup
<1>5. /\ DOMAIN rows' \subseteq Ledger \X Generation
      /\ \A id \in DOMAIN rows' : rows'[id] \in Status
  BY MarkedType, Running DEF FailRow, Status
<1> QED
  BY <1>1, <1>2, <1>3, <1>4, <1>5, ReturnHolds

(* So does a step that raises before the replace.                           *)
LEMMA RaisesHolds ==
    ASSUME OnePurger, NEW p \in Purger, IInv, Raises(p)
    PROVE  IInv'
<1> USE DEF IInv, TypeOK, Raises, Trouble, Fault, File
<1>1. Return(p)
  OBVIOUS
<1>2. /\ db' = db /\ manifest' = manifest /\ reported' = reported
      /\ torn' = FALSE /\ Whole /\ Whole'
  BY Running DEF Whole, Bound, Replacing
<1>3. ReportedIsPurged' /\ faults' \in 0 .. MaxFaults
  BY <1>2, FaultAssumption DEF ReportedIsPurged
<1>4. /\ backups' \subseteq Generation
      /\ tmp' \in [db : File, manifest : File]
  BY <1>1 DEF HalfBackup
<1>5. /\ DOMAIN rows' \subseteq Ledger \X Generation
      /\ \A id \in DOMAIN rows' : rows'[id] \in Status
  BY MarkedType, Running DEF FailRow, Status
<1> QED
  BY <1>1, <1>2, <1>3, <1>4, <1>5, ReturnHolds

(* So does a replay that fails.                                             *)
LEMMA ReplayFailsHolds ==
    ASSUME OnePurger, NEW p \in Purger, IInv, ReplayFails(p)
    PROVE  IInv'
<1> USE DEF IInv, TypeOK, ReplayFails, Trouble, Fault, File
<1>1. Return(p)
  OBVIOUS
<1>2. /\ db' = db /\ manifest' = manifest /\ reported' = reported
      /\ torn' = FALSE /\ Whole /\ Whole'
  BY Running DEF Whole, Bound, Replacing
<1>3. ReportedIsPurged' /\ faults' \in 0 .. MaxFaults
  BY <1>2, FaultAssumption DEF ReportedIsPurged
<1>4. /\ backups' \subseteq Generation
      /\ tmp' \in [db : File, manifest : File]
  BY <1>1 DEF HalfBackup
<1>5. /\ DOMAIN rows' \subseteq Ledger \X Generation
      /\ \A id \in DOMAIN rows' : rows'[id] \in Status
  BY MarkedType, Running DEF FailRow, Status
<1> QED
  BY <1>1, <1>2, <1>3, <1>4, <1>5, ReturnHolds

(* So does a copy that fails.                                               *)
LEMMA CopyFailsHolds ==
    ASSUME OnePurger, NEW p \in Purger, IInv, CopyFails(p)
    PROVE  IInv'
<1> USE DEF IInv, TypeOK, CopyFails, Fault, File
<1>1. Return(p)
  OBVIOUS
<1>2. /\ db' = db /\ manifest' = manifest /\ reported' = reported
      /\ torn' = FALSE /\ Whole /\ Whole'
  BY Running DEF Whole, Bound, Replacing
<1>3. ReportedIsPurged' /\ faults' \in 0 .. MaxFaults
  BY <1>2, FaultAssumption DEF ReportedIsPurged
<1>4. /\ backups' \subseteq Generation
      /\ tmp' \in [db : File, manifest : File]
  BY <1>1 DEF HalfBackup
<1>5. /\ DOMAIN rows' \subseteq Ledger \X Generation
      /\ \A id \in DOMAIN rows' : rows'[id] \in Status
  BY MarkedType, Running DEF FailRow, Status
<1> QED
  BY <1>1, <1>2, <1>3, <1>4, <1>5, ReturnHolds

(* A check that raises leaves both files replaced.                          *)
LEMMA CheckRaisesHolds ==
    ASSUME OnePurger, NEW p \in Purger, IInv, CheckRaises(p)
    PROVE  IInv'
<1> USE DEF IInv, TypeOK, CheckRaises, Fault, File
<1>1. Return(p)
  OBVIOUS
<1>2. /\ db' = db /\ manifest' = manifest /\ reported' = reported
      /\ torn' = FALSE /\ Whole /\ Whole'
  BY Running DEF Whole, Bound, Replacing
<1>3. ReportedIsPurged' /\ faults' \in 0 .. MaxFaults
  BY <1>2, FaultAssumption DEF ReportedIsPurged
<1>4. /\ backups' \subseteq Generation
      /\ tmp' \in [db : File, manifest : File]
  BY <1>1 DEF HalfBackup
<1>5. /\ DOMAIN rows' \subseteq Ledger \X Generation
      /\ \A id \in DOMAIN rows' : rows'[id] \in Status
  BY MarkedType, Running DEF FailRow, Status
<1> QED
  BY <1>1, <1>2, <1>3, <1>4, <1>5, ReturnHolds

(* A new purge claims nothing of the artifact.                              *)
LEMMA StartHolds ==
    ASSUME OnePurger, NEW p \in Purger, IInv, NEW l \in Ledger, Start(p, l)
    PROVE  IInv'
<1>1. ReportedIsPurged' /\ reported' \subseteq Ledger
  BY DEF IInv, TypeOK, ReportedIsPurged, Start, Suppresses
<1>2. CASE UNCHANGED <<pc, job>>
  <2>1. TypeOK'
    BY <1>1, <1>2 DEF IInv, TypeOK, Start
  <2>2. Local(p)'
    BY <1>2 DEF IInv, BackedUp, StagedFromPublished, RollbackReady, Copied, Bound, Replacing, Whole, Local,
       TypeOK, Start
  <2> QED
    BY <1>1, <2>1, <2>2 DEF OnePurger, IInv, Local
<1>3. CASE ~UNCHANGED <<pc, job>>
  <2> DEFINE new == [ledger |-> l, prior |-> db, retry |-> FALSE]
  <2>1. /\ pc' = [pc EXCEPT ![p] = "backup"] /\ manifest = db
        /\ job' = [job EXCEPT ![p] = new]
        /\ UNCHANGED <<db, manifest, tmp, backups, rows, staged, old, torn, faults>>
    BY <1>3 DEF Start, Goto, Whole
  <2>2. new \in Job
    BY DEF IInv, TypeOK, Job, Start, Whole
  <2> HIDE DEF new
  <2>3. TypeOK'
    BY <1>1, <2>1, <2>2 DEF IInv, TypeOK, Label
  <2>4. Local(p)'
    <3>1. torn = FALSE /\ Whole
      BY DEF IInv, TypeOK, Bound, Start
    <3> QED
      BY <2>1, <2>2, <3>1 DEF IInv, BackedUp, StagedFromPublished, RollbackReady, Copied, Bound,
         Replacing, Whole, Local, TypeOK
  <2> QED
    BY <1>1, <2>3, <2>4 DEF OnePurger, IInv, Local
<1> QED
  BY <1>2, <1>3

(* A row that is registered is not applied.                                 *)
LEMMA RegisterHolds ==
    ASSUME OnePurger, NEW p \in Purger, IInv, Register(p)
    PROVE  IInv'
<1>1. /\ DOMAIN rows' \subseteq Ledger \X Generation
      /\ \A id \in DOMAIN rows' : rows'[id] \in Status
  BY MarkedType, IdType DEF IInv, TypeOK, Register, Status
<1>2. CASE Return(p)
  <2>1. torn = FALSE /\ Whole /\ Whole' /\ UNCHANGED <<db, manifest, tmp, backups, reported, torn, faults>>
    BY <1>2, Running DEF Register, Whole, Replacing
  <2> QED BY <1>1, <1>2, <2>1, ReturnHolds DEF IInv, TypeOK, ReportedIsPurged
<1>3. CASE ~Return(p)
  <2>1. /\ pc' = [pc EXCEPT ![p] = IF StatusOf(Id(p)) = "applied" THEN "stage" ELSE "claim"]
        /\ job' = [job EXCEPT ![p].retry = StatusOf(Id(p)) = "applied"]
        /\ UNCHANGED <<db, manifest, tmp, backups, reported, faults, staged, old, torn>>
    BY <1>3 DEF Register, Goto
  <2>2. job'[p] \in Job /\ job'[p].ledger = job[p].ledger /\ pc[p] = "register"
    BY <2>1 DEF IInv, TypeOK, Register, Job
  <2>3. TypeOK'
    BY <1>1, <2>1, <2>2 DEF IInv, TypeOK, Label
  <2>4. ReportedIsPurged'
    BY <2>1 DEF IInv, ReportedIsPurged
  <2>5. Local(p)'
    BY <2>1, <2>2 DEF IInv, BackedUp, StagedFromPublished, RollbackReady, Copied, Bound, Replacing, Whole,
       Local, TypeOK
  <2> QED
    BY <2>3, <2>4, <2>5 DEF OnePurger, IInv, Local
<1> QED
  BY <1>2, <1>3

(* A row that is claimed is not applied.                                    *)
LEMMA ClaimHolds ==
    ASSUME OnePurger, NEW p \in Purger, IInv, Claim(p)
    PROVE  IInv'
<1>1. /\ DOMAIN rows' \subseteq Ledger \X Generation
      /\ \A id \in DOMAIN rows' : rows'[id] \in Status
  BY MarkedType, IdType DEF IInv, TypeOK, Claim, Status
<1>2. CASE Return(p)
  <2>1. torn = FALSE /\ Whole /\ Whole' /\ UNCHANGED <<db, manifest, tmp, backups, reported, torn, faults>>
    BY <1>2, Running DEF Claim, Whole, Replacing
  <2> QED BY <1>1, <1>2, <2>1, ReturnHolds DEF IInv, TypeOK, ReportedIsPurged
<1>3. CASE ~Return(p)
  <2>1. /\ pc' = [pc EXCEPT ![p] = "stage"] /\ pc[p] = "claim"
        /\ UNCHANGED <<db, manifest, tmp, backups, reported, faults, job, staged, old, torn>>
    BY <1>3 DEF Claim, Goto
  <2>2. TypeOK' /\ ReportedIsPurged'
    BY <1>1, <2>1 DEF IInv, TypeOK, Label, ReportedIsPurged
  <2>3. Local(p)'
    BY <2>1 DEF IInv, BackedUp, StagedFromPublished, RollbackReady, Copied, Bound, Replacing, Whole,
       Local, TypeOK
  <2> QED
    BY <2>2, <2>3 DEF OnePurger, IInv, Local
<1> QED
  BY <1>2, <1>3

(* The staged files come from the published ones.                           *)
LEMMA StageHolds ==
    ASSUME OnePurger, NEW p \in Purger, IInv, Stage(p)
    PROVE  IInv'
<1>1. CASE Return(p)
  <2>1. /\ torn = FALSE /\ Whole /\ Whole'
        /\ UNCHANGED <<db, manifest, tmp, backups, rows, reported, torn, faults>>
    BY <1>1, Running DEF Stage, Whole, Replacing
  <2> QED BY <1>1, <2>1, ReturnHolds DEF IInv, TypeOK, ReportedIsPurged
<1>2. CASE ~Return(p)
  <2>1. /\ pc' = [pc EXCEPT ![p] = "complete"] /\ pc[p] = "stage"
        /\ staged' = [staged EXCEPT ![p] = Propagated(db, job[p].ledger)]
        /\ UNCHANGED <<db, manifest, tmp, backups, rows, reported, faults, job, old, torn>>
    BY <1>2 DEF Stage, Goto
  <2>2. TypeOK' /\ ReportedIsPurged'
    BY <2>1, Running, PropagatedType DEF IInv, TypeOK, Label, ReportedIsPurged, File
  <2>3. Local(p)'
    BY <2>1 DEF IInv, BackedUp, StagedFromPublished, RollbackReady, Copied, Bound, Replacing, Whole,
       Local, TypeOK
  <2> QED
    BY <2>2, <2>3 DEF OnePurger, IInv, Local
<1> QED
  BY <1>1, <1>2

(* Verification changes no file.                                            *)
LEMMA VerifyHolds ==
    ASSUME OnePurger, NEW p \in Purger, IInv, Verify(p)
    PROVE  IInv'
<1>1. TypeOK' /\ ReportedIsPurged'
  BY DEF IInv, TypeOK, Verify, Goto, Label, ReportedIsPurged
<1>2. Suppresses(Propagated(db, job[p].ledger), job[p].ledger)
  BY PropagatedSuppresses DEF IInv, TypeOK, Verify, Job
<1>3. Local(p)'
  BY <1>2 DEF IInv, BackedUp, StagedFromPublished, RollbackReady, Copied, Bound, Replacing, Whole, Local,
     TypeOK, Verify, Goto
<1> QED
  BY <1>1, <1>3 DEF OnePurger, IInv, Local

(* The derivative that replaces the published one was purged.               *)
LEMMA ReplaceDbHolds ==
    ASSUME OnePurger, NEW p \in Purger, IInv, ReplaceDb(p)
    PROVE  IInv'
<1>1. /\ db' = Propagated(db, job[p].ledger) /\ job[p].ledger \in Ledger
      /\ db \in Generation /\ db' \in Generation
  <2>1. pc[p] = "db" /\ db' = tmp.db
    BY DEF ReplaceDb
  <2>2. tmp.db = staged[p] /\ staged[p] = Propagated(db, job[p].ledger)
    BY <2>1 DEF IInv, Copied, StagedFromPublished
  <2>3. db \in Generation /\ job[p].ledger \in Ledger
    BY <2>1, Running DEF Job
  <2> QED BY <2>1, <2>2, <2>3, PropagatedType
<1>2. TypeOK'
  BY <1>1 DEF IInv, TypeOK, ReplaceDb, Goto, Label, File
<1>3. ReportedIsPurged'
  BY <1>1, SuppressesKept DEF IInv, TypeOK, ReportedIsPurged, ReplaceDb
<1>4. Local(p)'
  BY <1>1 DEF IInv, ReportedIsPurged, BackedUp, StagedFromPublished, RollbackReady, Copied,
     Bound, Replacing, Whole, Local, TypeOK, ReplaceDb, Goto
<1> QED
  BY <1>2, <1>3, <1>4 DEF OnePurger, IInv, Local

(* What is reported was purged when it was reported.                        *)
LEMMA ReconcileHolds ==
    ASSUME OnePurger, NEW p \in Purger, IInv, Reconcile(p)
    PROVE  IInv'
<1>1. /\ job[p].ledger \in Ledger /\ Suppresses(db, job[p].ledger)
      /\ db' = db /\ reported' = reported \union {job[p].ledger}
  BY DEF IInv, Reconcile, Job
<1>2. ReportedIsPurged' /\ reported' \subseteq Ledger
  BY <1>1 DEF IInv, TypeOK, ReportedIsPurged, Suppresses
<1> QED
  <2>1. /\ torn = FALSE /\ Whole /\ Whole'
        /\ UNCHANGED <<db, manifest, tmp, backups, rows, torn, faults>>
    BY Running DEF Reconcile, Whole, Replacing
  <2> QED BY <1>2, <2>1, ReturnHolds DEF IInv, TypeOK, Reconcile

(* The handler of a replace that raised writes the manifest back first.     *)
LEMMA UndoManifestHolds ==
    ASSUME OnePurger, NEW p \in Purger, IInv, UndoManifest(p)
    PROVE  IInv'
<1>1. old[p] \in [db : Generation, manifest : Generation]
  BY DEF IInv, RollbackReady, UndoManifest, Replacing
<1>2. TypeOK' /\ ReportedIsPurged'
  BY <1>1 DEF IInv, TypeOK, UndoManifest, Goto, Label, File, ReportedIsPurged
<1>3. Local(p)'
  BY <1>1 DEF IInv, BackedUp, StagedFromPublished, RollbackReady, Copied, Bound, Replacing, Whole, Local,
     TypeOK, UndoManifest, Goto
<1> QED
  BY <1>2, <1>3 DEF OnePurger, IInv, Local

(* Then the database, and the prior generation is whole again.              *)
LEMMA UndoDbHolds ==
    ASSUME OnePurger, NEW p \in Purger, IInv, UndoDb(p)
    PROVE  IInv'
<1>1. /\ torn' = FALSE /\ Whole' /\ db' \in File /\ manifest' \in File
      /\ db' = db /\ reported' = reported /\ UNCHANGED faults /\ UNCHANGED backups
      /\ tmp' \in [db : File, manifest : File]
  BY Running DEF IInv, RollbackReady, Bound, UndoDb, Replacing, Whole, File
<1>2. /\ DOMAIN rows' \subseteq Ledger \X Generation
      /\ \A id \in DOMAIN rows' : rows'[id] \in Status
  BY MarkedType, Running DEF IInv, TypeOK, UndoDb, FailRow, Status
<1>3. Return(p) /\ ReportedIsPurged' /\ reported' \subseteq Ledger
  BY <1>1 DEF IInv, TypeOK, UndoDb, ReportedIsPurged
<1> QED
  BY <1>1, <1>2, <1>3, ReturnHolds DEF IInv, TypeOK

(* After a failed verification it is the database that is written first.    *)
LEMMA RevertDbHolds ==
    ASSUME OnePurger, NEW p \in Purger, IInv, RevertDb(p)
    PROVE  IInv'
<1>1. /\ old[p] \in [db : Generation, manifest : Generation]
      /\ \A l \in reported : Suppresses(old[p].db, l)
  BY DEF IInv, RollbackReady, RevertDb, Replacing
<1>2. TypeOK' /\ ReportedIsPurged'
  BY <1>1 DEF IInv, TypeOK, RevertDb, Goto, Label, File, ReportedIsPurged
<1>3. Local(p)'
  BY <1>1 DEF IInv, BackedUp, StagedFromPublished, RollbackReady, Copied, Bound, Replacing, Whole, Local,
     TypeOK, RevertDb, Goto
<1> QED
  BY <1>2, <1>3 DEF OnePurger, IInv, Local

(* Then the manifest.                                                       *)
LEMMA RevertManifestHolds ==
    ASSUME OnePurger, NEW p \in Purger, IInv, RevertManifest(p)
    PROVE  IInv'
<1>1. /\ torn' = FALSE /\ Whole' /\ db' \in File /\ manifest' \in File
      /\ db' = db /\ reported' = reported /\ UNCHANGED <<faults, backups, tmp>>
  BY Running DEF IInv, RollbackReady, Bound, RevertManifest, Replacing, Whole, File
<1>2. /\ DOMAIN rows' \subseteq Ledger \X Generation
      /\ \A id \in DOMAIN rows' : rows'[id] \in Status
  BY MarkedType, Running DEF IInv, TypeOK, RevertManifest, FailRow, Status
<1>3. Return(p) /\ ReportedIsPurged' /\ reported' \subseteq Ledger
  BY <1>1 DEF IInv, TypeOK, RevertManifest, ReportedIsPurged
<1> QED
  BY <1>1, <1>2, <1>3, ReturnHolds DEF IInv, TypeOK

(* A rollback that begins has the prior generation to write back.           *)
LEMMA PublishFailsHolds ==
    ASSUME OnePurger, NEW p \in Purger, IInv, PublishFails(p)
    PROVE  IInv'
<1>1. faults' \in 0 .. MaxFaults
  BY FaultAssumption DEF IInv, TypeOK, PublishFails, Fault
<1>2. TypeOK' /\ ReportedIsPurged'
  BY <1>1 DEF IInv, TypeOK, PublishFails, Goto, Label, ReportedIsPurged
<1>3. torn = FALSE
  BY Running DEF PublishFails
<1>4. CASE pc[p] = "check" /\ pc'[p] = "revert_db"
  BY <1>2, <1>3, <1>4 DEF IInv, BackedUp, StagedFromPublished, RollbackReady, Copied, Bound, Replacing, Whole, Local,
     TypeOK, PublishFails, OnePurger
<1>5. CASE pc[p] \in {"manifest", "db"} /\ pc'[p] = "undo_manifest"
  BY <1>2, <1>3, <1>5 DEF IInv, BackedUp, StagedFromPublished, RollbackReady, Copied, Bound, Replacing, Whole,
     Local, TypeOK, PublishFails, OnePurger
<1>6. \/ pc[p] = "check" /\ pc'[p] = "revert_db"
      \/ pc[p] \in {"manifest", "db"} /\ pc'[p] = "undo_manifest"
  BY DEF IInv, TypeOK, PublishFails, Goto
<1> QED
  BY <1>4, <1>5, <1>6

(* A write in place that does not end leaves a file, and says whether the   *)
(* pair is torn.                                                            *)
LEMMA HalfWrittenHolds ==
    ASSUME NEW p \in Purger, IInv, pc[p] # "idle", HalfWritten(p)
    PROVE  /\ db' \in File /\ manifest' \in File
           /\ torn' \in BOOLEAN /\ torn' = ~Whole'
           /\ db' \in Generation => \A l \in reported : Suppresses(db', l)
<1>1. /\ torn = FALSE /\ db \in Generation
      /\ \A l \in reported : Suppresses(db, l)
      /\ pc[p] \notin Replacing => manifest = db
  BY Running
<1>2. pc[p] \in Replacing =>
        /\ old[p] \in [db : Generation, manifest : Generation]
        /\ \A l \in reported : Suppresses(old[p].db, l)
  BY DEF IInv, RollbackReady
<1>3. db' \in {db, None, old[p].db} /\ (db' = db \/ pc[p] \in Replacing)
  BY DEF HalfWritten, Replacing
<1>4. /\ manifest' \in {manifest, None, old[p].manifest}
      /\ manifest' = manifest \/ pc[p] \in Replacing
  BY DEF HalfWritten, Replacing
<1>5. torn' = (torn \/ (pc[p] \in Replacing /\ ~Whole'))
  BY DEF HalfWritten
<1>6. db' \in File /\ manifest' \in File
  BY <1>1, <1>2, <1>3, <1>4 DEF IInv, TypeOK, File
<1>7. pc[p] \notin Replacing => Whole'
  BY <1>1, <1>3, <1>4 DEF Whole
<1>8. db' \in Generation => \A l \in reported : Suppresses(db', l)
  <2>1. CASE db' = db
    BY <1>1, <2>1
  <2>2. CASE pc[p] \in Replacing /\ db' = old[p].db
    BY <1>2, <2>2
  <2>3. CASE pc[p] \in Replacing /\ db' = None
    BY <1>2, <2>3, NoneAssumption DEF Generation
  <2> QED
    BY <1>3, <2>1, <2>2, <2>3
<1> QED
  BY <1>1, <1>5, <1>6, <1>7, <1>8

(* A rollback that raises.                                                  *)
LEMMA RollbackRaisesHolds ==
    ASSUME OnePurger, NEW p \in Purger, IInv, RollbackRaises(p)
    PROVE  IInv'
<1>1. pc[p] # "idle" /\ HalfWritten(p) /\ Return(p) /\ UNCHANGED <<tmp, backups, reported>>
  BY DEF RollbackRaises
<1>2. faults' \in 0 .. MaxFaults
  BY FaultAssumption DEF IInv, TypeOK, RollbackRaises, Fault
<1>3. /\ DOMAIN rows' \subseteq Ledger \X Generation
      /\ \A id \in DOMAIN rows' : rows'[id] \in Status
  BY <1>1, MarkedType, Running DEF IInv, TypeOK, RollbackRaises, FailRow, Status
<1>4. ReportedIsPurged'
  BY <1>1, HalfWrittenHolds DEF ReportedIsPurged
<1> QED
  BY <1>1, <1>2, <1>3, <1>4, HalfWrittenHolds, ReturnHolds DEF IInv, TypeOK

(* The process ends.                                                        *)
LEMMA CrashHolds ==
    ASSUME OnePurger, NEW p \in Purger, IInv, Crash(p)
    PROVE  IInv'
<1>1. pc[p] # "idle" /\ HalfWritten(p) /\ Return(p) /\ UNCHANGED <<tmp, rows, reported>>
  BY DEF Crash
<1>2. faults' \in 0 .. MaxFaults
  BY FaultAssumption DEF IInv, TypeOK, Crash, Fault
<1>3. backups' \subseteq Generation
  BY DEF IInv, TypeOK, Crash, HalfBackup
<1>4. ReportedIsPurged'
  BY <1>1, HalfWrittenHolds DEF ReportedIsPurged
<1> QED
  BY <1>1, <1>2, <1>3, <1>4, HalfWrittenHolds, ReturnHolds DEF IInv, TypeOK

-----------------------------------------------------------------------------
(* Every step of a single purger keeps the invariant.                       *)
LEMMA StepHolds ==
    ASSUME OnePurger, IInv, [Next]_vars
    PROVE  IInv'
<1>1. CASE UNCHANGED vars
  BY <1>1 DEF vars, IInv, TypeOK, ReportedIsPurged, Suppresses, StagedFromPublished,
     Propagated, RollbackReady, Copied, Bound, Replacing, Whole
<1>2. CASE Next
  BY <1>1, <1>2, StartHolds, BackupHolds, RegisterHolds, ClaimHolds, StageHolds, CompleteHolds,
     VerifyHolds, CopyHolds, ReplaceManifestHolds, ReplaceDbHolds, CheckHolds,
     ReconcileHolds, BackupRaisesHolds, RaisesHolds, ReplayFailsHolds, CopyFailsHolds,
     CheckRaisesHolds, UndoManifestHolds, UndoDbHolds, RevertDbHolds, RevertManifestHolds,
     PublishFailsHolds, RollbackRaisesHolds, CrashHolds
  DEF Next, Refuse, Progress, Rollback, Failure
<1> QED
  BY <1>1, <1>2

(* The inductive invariant: whatever the ledgers, the exceptions and the    *)
(* ends of the process, inside the two replaces and the rollbacks too.      *)
THEOREM Invariance == OnePurger => (Spec => []IInv)
<1> SUFFICES ASSUME OnePurger PROVE Spec => []IInv
  OBVIOUS
<1>1. IInv /\ [Next]_vars => IInv'
  BY StepHolds
<1> QED
  BY <1>1, InitHolds, PTL DEF Spec

-----------------------------------------------------------------------------
(* The types, for any number of purgers.                                    *)
LocalsTyped ==
    /\ TypeOK
    /\ \A p \in Purger :
        /\ pc[p] # "idle" => job[p] \in Job
        /\ pc[p] \in {"manifest"} \union Replacing => old[p] \in [db : File, manifest : File]

(* A run that ends leaves every other run's locals as they are.             *)
LEMMA ReturnTyped ==
    ASSUME LocalsTyped, NEW p \in Purger, Return(p)
    PROVE  /\ pc' \in [Purger -> Label]
           /\ job' \in [Purger -> Job \union {None}]
           /\ staged' \in [Purger -> File]
           /\ old' \in [Purger -> [db : File, manifest : File] \union {None}]
           /\ \A q \in Purger :
               /\ pc'[q] # "idle" => job'[q] \in Job
               /\ pc'[q] \in {"manifest"} \union Replacing =>
                    old'[q] \in [db : File, manifest : File]
  BY DEF LocalsTyped, TypeOK, Return, Goto, Label, File, Replacing

(* One step of a purger that goes on.                                       *)
LEMMA ProgressTyped ==
    ASSUME LocalsTyped, NEW p \in Purger, Progress(p)
    PROVE  LocalsTyped'
<1> USE DEF LocalsTyped, TypeOK, Goto, Replacing
<1>1. CASE Backup(p)
  BY <1>1 DEF Backup, Label
<1>2. CASE Register(p)
  <2>1. Id(p) \in Ledger \X Generation
    BY <1>2, IdType DEF Register
  <2>2. rows' = Marked(Id(p), "pending") \/ rows' = rows
    BY <1>2 DEF Register
  <2>3. /\ DOMAIN rows' \subseteq Ledger \X Generation
        /\ \A id \in DOMAIN rows' : rows'[id] \in Status
    BY <2>1, <2>2, MarkedType DEF Status
  <2>4. UNCHANGED <<db, manifest, tmp, backups, reported, torn, faults>>
    BY <1>2 DEF Register
  <2>5. CASE Return(p)
    BY <2>3, <2>4, <2>5, ReturnTyped
  <2>6. CASE ~Return(p)
    <3>1. /\ pc' \in {[pc EXCEPT ![p] = "stage"], [pc EXCEPT ![p] = "claim"]}
          /\ job' = [job EXCEPT ![p].retry = StatusOf(Id(p)) = "applied"]
          /\ UNCHANGED <<staged, old>> /\ pc[p] = "register"
      BY <1>2, <2>6 DEF Register
    <3>2. job[p] \in Job
      BY <3>1
    <3>3. [job[p] EXCEPT !.retry = StatusOf(Id(p)) = "applied"] \in Job
      BY <3>2 DEF Job
    <3>4. job' = [job EXCEPT ![p] = [job[p] EXCEPT !.retry = StatusOf(Id(p)) = "applied"]]
      BY <3>1
    <3>5. job' \in [Purger -> Job \union {None}] /\ \A q \in Purger : q # p => job'[q] = job[q]
      BY <3>3, <3>4
    <3>6. job'[p] \in Job
      BY <3>3, <3>4
    <3> QED
      BY <2>3, <2>4, <3>1, <3>5, <3>6 DEF Label
  <2> QED
    BY <2>5, <2>6
<1>3. CASE Claim(p)
  <2>1. Id(p) \in Ledger \X Generation
    BY <1>3, IdType DEF Claim
  <2>2. rows' = Marked(Id(p), "in_progress") \/ rows' = rows
    BY <1>3 DEF Claim
  <2>3. /\ DOMAIN rows' \subseteq Ledger \X Generation
        /\ \A id \in DOMAIN rows' : rows'[id] \in Status
    BY <2>1, <2>2, MarkedType DEF Status
  <2>4. UNCHANGED <<db, manifest, tmp, backups, reported, torn, faults>>
    BY <1>3 DEF Claim
  <2>5. CASE Return(p)
    BY <2>3, <2>4, <2>5, ReturnTyped
  <2>6. CASE ~Return(p)
    BY <1>3, <2>3, <2>4, <2>6 DEF Claim, Label
  <2> QED
    BY <2>5, <2>6
<1>4. CASE Stage(p)
  <2>1. CASE Return(p)
    BY <1>4, <2>1, ReturnTyped DEF Stage
  <2>2. CASE ~Return(p)
    <3>1. Propagated(db, job[p].ledger) \in File
      BY <1>4, <2>2, PropagatedType DEF Stage, File
    <3> QED
      BY <1>4, <2>2, <3>1 DEF Stage, Label
  <2> QED
    BY <2>1, <2>2
<1>5. CASE Complete(p)
  <2>1. Id(p) \in Ledger \X Generation
    BY <1>5, IdType DEF Complete
  <2>2. /\ DOMAIN rows' \subseteq Ledger \X Generation
        /\ \A id \in DOMAIN rows' : rows'[id] \in Status
    BY <1>5, <2>1, MarkedType DEF Complete, Status
  <2> QED
    BY <1>5, <2>2 DEF Complete, Label
<1>6. CASE Verify(p)
  BY <1>6 DEF Verify, Label
<1>7. CASE Copy(p)
  BY <1>7 DEF Copy, Label
<1>8. CASE ReplaceManifest(p)
  BY <1>8 DEF ReplaceManifest, Label, File
<1>9. CASE ReplaceDb(p)
  BY <1>9 DEF ReplaceDb, Label, File
<1>10. CASE Check(p)
  BY <1>10 DEF Check, Label
<1>11. CASE Reconcile(p)
  <2>1. job[p].ledger \in Ledger
    BY <1>11 DEF Reconcile, Job
  <2> QED
    BY <1>11, <2>1, ReturnTyped DEF Reconcile
<1>12. CASE UndoManifest(p)
  BY <1>12 DEF UndoManifest, Label
<1>13. CASE RevertDb(p)
  BY <1>13 DEF RevertDb, Label
<1>14. CASE UndoDb(p) \/ RevertManifest(p)
  <2>1. FailRow(p) /\ Return(p) /\ UNCHANGED <<backups, reported, torn, faults>> /\ pc[p] # "idle"
    BY <1>14 DEF UndoDb, RevertManifest
  <2>2. db' \in File /\ manifest' \in File /\ tmp' \in [db : File, manifest : File]
    BY <1>14 DEF UndoDb, RevertManifest, File
  <2>3. /\ DOMAIN rows' \subseteq Ledger \X Generation
        /\ \A id \in DOMAIN rows' : rows'[id] \in Status
    BY <2>1, IdType, MarkedType DEF FailRow, Status
  <2> QED
    BY <2>1, <2>2, <2>3, ReturnTyped
<1> QED
  BY <1>1, <1>2, <1>3, <1>4, <1>5, <1>6, <1>7, <1>8, <1>9, <1>10, <1>11, <1>12, <1>13, <1>14
  DEF Progress, Rollback

(* A rollback that begins.                                                  *)
LEMMA PublishFailsTyped ==
    ASSUME LocalsTyped, NEW p \in Purger, PublishFails(p)
    PROVE  LocalsTyped'
<1> USE DEF LocalsTyped, TypeOK, Goto, Replacing
<1>1. faults' \in 0 .. MaxFaults
  BY FaultAssumption DEF PublishFails, Fault
<1> QED
  BY <1>1 DEF PublishFails, Label

(* One step that ends the run.                                              *)
LEMMA FailureTyped ==
    ASSUME LocalsTyped, NEW p \in Purger, Failure(p), ~PublishFails(p)
    PROVE  LocalsTyped'
<1> USE DEF LocalsTyped, TypeOK
<1> USE DEF Failure, BackupRaises, Raises, ReplayFails, CopyFails, CheckRaises,
            RollbackRaises, Crash
<1>1. Return(p) /\ faults' \in 0 .. MaxFaults /\ reported' = reported /\ pc[p] # "idle"
  BY FaultAssumption DEF Fault, Trouble
<1>2. backups' \subseteq Generation
  BY DEF HalfBackup
<1>3. tmp' \in [db : File, manifest : File]
  BY DEF File
<1>4. db' \in File /\ manifest' \in File /\ torn' \in BOOLEAN
  <2>1. CASE UNCHANGED <<db, manifest, torn>>
    BY <2>1
  <2>2. CASE HalfWritten(p)
    <3>1. pc[p] \in Replacing => old[p].db \in File /\ old[p].manifest \in File
      OBVIOUS
    <3>2. db' \in File
      BY <2>2, <3>1 DEF HalfWritten, Replacing, File
    <3>3. manifest' \in File
      BY <2>2, <3>1 DEF HalfWritten, Replacing, File
    <3>4. torn' \in BOOLEAN
      BY <2>2 DEF HalfWritten
    <3> QED BY <3>2, <3>3, <3>4
  <2> QED BY <2>1, <2>2
<1>5. /\ DOMAIN rows' \subseteq Ledger \X Generation
      /\ \A id \in DOMAIN rows' : rows'[id] \in Status
  <2>1. FailRow(p) \/ rows' = rows
    OBVIOUS
  <2>2. Id(p) \in Ledger \X Generation
    BY <1>1, IdType
  <2> QED
    BY <2>1, <2>2, MarkedType DEF FailRow, Status
<1> QED
  BY <1>1, <1>2, <1>3, <1>4, <1>5, ReturnTyped

(* Every step, crashes included, keeps the types.                           *)
LEMMA StepTyped == LocalsTyped /\ [Next]_vars => LocalsTyped'
<1> SUFFICES ASSUME LocalsTyped, [Next]_vars
             PROVE  LocalsTyped'
  OBVIOUS
<1>1. ASSUME NEW p \in Purger, NEW l \in Ledger, Start(p, l)
      PROVE  LocalsTyped'
  <2>1. [ledger |-> l, prior |-> db, retry |-> FALSE] \in Job
    BY <1>1 DEF Start, Whole, Job
  <2>2. UNCHANGED <<db, manifest, tmp, backups, rows, staged, old, torn, faults>>
    BY <1>1 DEF Start
  <2>3. CASE UNCHANGED <<pc, job>> /\ reported' = reported \union {l}
    BY <2>2, <2>3 DEF LocalsTyped, TypeOK
  <2>4. CASE /\ pc[p] = "idle" /\ pc' = [pc EXCEPT ![p] = "backup"] /\ reported' = reported
             /\ job' = [job EXCEPT ![p] = [ledger |-> l, prior |-> db, retry |-> FALSE]]
    <3>1. job' \in [Purger -> Job \union {None}] /\ pc' \in [Purger -> Label]
      BY <2>1, <2>4 DEF LocalsTyped, TypeOK, Label
    <3>2. job'[p] \in Job /\ \A q \in Purger \ {p} : job'[q] = job[q] /\ pc'[q] = pc[q]
      BY <2>1, <2>4 DEF LocalsTyped, TypeOK
    <3> QED
      BY <2>2, <2>4, <3>1, <3>2 DEF LocalsTyped, TypeOK, Replacing
  <2> QED
    BY <1>1, <2>3, <2>4 DEF Start, Goto
<1>2. CASE UNCHANGED vars
  BY <1>2 DEF vars, LocalsTyped, TypeOK
<1> QED
  BY <1>1, <1>2, ProgressTyped, FailureTyped, PublishFailsTyped DEF Next, Refuse

(* The state keeps its types, whichever purges run together and wherever    *)
(* one raises or ends: what a rollback writes back is what was read         *)
(* (run_artifact_purge, _publish_generation).                               *)
THEOREM TypeCorrect == Spec => []TypeOK
<1>1. Init => LocalsTyped
  BY InitTyped DEF Init, LocalsTyped, Replacing
<1>2. LocalsTyped => TypeOK
  BY DEF LocalsTyped
<1>3. LocalsTyped /\ [Next]_vars => LocalsTyped'
  BY StepTyped
<1> QED
  BY <1>1, <1>2, <1>3, PTL DEF Spec

(* The manifest in the artifact root binds the published database whenever  *)
(* no replacement or rollback is under way, whatever raised, unless one of  *)
(* them was cut short.                                                      *)
THEOREM Bounded == OnePurger => (Spec => []GenerationBound)
<1> SUFFICES ASSUME OnePurger PROVE Spec => []GenerationBound
  OBVIOUS
<1>1. IInv => GenerationBound
  BY DEF OnePurger, IInv, Bound, GenerationBound
<1> QED
  BY <1>1, Invariance, PTL
(* A ledger reported purged stays suppressed by the published generation,   *)
(* through every later purge, failure and rollback.                         *)
THEOREM ReportsHold == OnePurger => (Spec => []ReportedIsPurged)
<1>1. IInv => ReportedIsPurged
  BY DEF IInv
<1> QED
  BY <1>1, Invariance, PTL

(* A generation is replaced only when it is among the backups.              *)
THEOREM ReplacedIsBackedUp == OnePurger => (Spec => OverwrittenIsBackedUp)
<1> SUFFICES ASSUME OnePurger PROVE Spec => OverwrittenIsBackedUp
  OBVIOUS
<1>1. IInv /\ [Next]_vars =>
        [\A p \in Purger : ReplaceDb(p) /\ db' # db => db \in backups]_vars
  BY DEF IInv, ReplaceDb, BackedUp
<1> QED
  BY <1>1, Invariance, PTL DEF Spec, OverwrittenIsBackedUp
-----------------------------------------------------------------------------
(* Refinement. *)

(* What the abstract artifact is, in terms of the only purger.              *)
LEMMA PublishedOf ==
    ASSUME OnePurger, NEW p \in Purger
    PROVE  /\ pc[p] \in Replacing => Published = old[p].db
           /\ pc[p] \notin Replacing => Published = IF Whole THEN db ELSE None
           /\ pc'[p] \in Replacing => Published' = old'[p].db
           /\ pc'[p] \notin Replacing => Published' = IF Whole' THEN db' ELSE None
<1>1. Purger = {p}
  BY DEF OnePurger
<1>2. pc[p] \in Replacing => (CHOOSE q \in Purger : pc[q] \in Replacing) = p
  BY <1>1
<1>3. pc'[p] \in Replacing => (CHOOSE q \in Purger : pc'[q] \in Replacing) = p
  BY <1>1
<1> QED
  BY <1>1, <1>2, <1>3 DEF Published

(* The initial states are initial states of the promise.                    *)
LEMMA InitPromised == ASSUME OnePurger, Init PROVE Promise!Init
<1>1. PICK p \in Purger : Purger = {p}
  BY DEF OnePurger
<1>2. Whole /\ pc[p] \notin Replacing
  BY DEF Init, Whole, Unpurged, Generation, Replacing
<1>3. Published = db
  BY <1>2, PublishedOf
<1> QED
  BY <1>3 DEF Init, Promise!Init

(* While a purge runs, what is published is the generation it found.        *)
LEMMA PublishedIsPrior ==
    ASSUME OnePurger, NEW p \in Purger, IInv, pc[p] # "idle"
    PROVE  /\ pc[p] \in Replacing =>
                /\ Published = old[p].db /\ Published \in backups
                /\ \A l \in reported : Suppresses(Published, l)
           /\ pc[p] \notin Replacing => Published = db /\ Whole
  BY Running, PublishedOf DEF IInv, RollbackReady, Whole

(* The end of a run leaves the prior generation, the next one or, if it     *)
(* was cut short inside the replacement, none.                              *)
LEMMA EndPromised ==
    ASSUME OnePurger, NEW p \in Purger, IInv, pc[p] \in Replacing, pc'[p] = "idle",
           IInv', UNCHANGED <<backups, reported>>,
           \/ Whole' /\ db' \in {old[p].db, Propagated(old[p].db, job[p].ledger)} /\ torn' = FALSE
           \/ ~Whole' /\ torn' = TRUE
    PROVE  Promise!Next \/ UNCHANGED Promise!vars
<1>1. Published = old[p].db /\ Published \in backups /\ torn = FALSE /\ job[p].ledger \in Ledger
  BY PublishedIsPrior, Running DEF Replacing, Job
<1>2. Published' = IF Whole' THEN db' ELSE None
  BY PublishedOf DEF Replacing
<1>3. CASE ~Whole' /\ torn' = TRUE
  BY <1>1, <1>2, <1>3 DEF Promise!Break, Promise!Next
<1>4. CASE Whole' /\ torn' = FALSE /\ db' = old[p].db
  BY <1>1, <1>2, <1>4 DEF Promise!vars
<1>5. CASE Whole' /\ torn' = FALSE /\ db' = Propagated(old[p].db, job[p].ledger)
  BY <1>1, <1>2, <1>5 DEF Promise!Replace, Promise!Next
<1> QED BY <1>3, <1>4, <1>5

(* Which steps of a purge are steps of the promise. *)
LEMMA StepPromised ==
    ASSUME OnePurger, IInv, IInv', Next
    PROVE  Promise!Next \/ UNCHANGED Promise!vars
<1>1. PICK p \in Purger :
        \/ \E l \in Ledger : Start(p, l)
        \/ Refuse(p) \/ Progress(p) \/ Failure(p)
  BY DEF Next
<1> DEFINE Same == Published' = Published /\ backups' = backups /\ reported' = reported /\ torn' = torn
<1>2. Same => UNCHANGED Promise!vars
  BY DEF Promise!vars
<1>3. /\ pc[p] \in Replacing => Published = old[p].db
      /\ pc[p] \notin Replacing => Published = IF Whole THEN db ELSE None
      /\ pc'[p] \in Replacing => Published' = old'[p].db
      /\ pc'[p] \notin Replacing => Published' = IF Whole' THEN db' ELSE None
  BY PublishedOf
<1>4. pc \in [Purger -> Label] /\ old \in [Purger -> [db : File, manifest : File] \union {None}]
  BY DEF IInv, TypeOK
<1>5. pc[p] # "idle" => torn = FALSE
  BY Running
<1>6. ASSUME pc[p] \notin Replacing, pc'[p] \notin Replacing, UNCHANGED <<db, manifest>>
      PROVE  Published' = Published
  BY <1>3, <1>6 DEF Whole
<1> HIDE DEF Same
<1>7. ASSUME NEW l \in Ledger, Start(p, l) PROVE Promise!Next \/ Same
  <2>1. /\ pc[p] \notin Replacing /\ pc'[p] \notin Replacing
        /\ UNCHANGED <<db, manifest, backups, torn>> /\ Whole
    BY <1>4, <1>7 DEF Start, Goto, Replacing
  <2>2. Published' = Published /\ Published = db
    BY <1>3, <1>6, <2>1
  <2>3. ~torn
    BY <2>1 DEF IInv, Bound, TypeOK
  <2> QED
    BY <1>7, <2>1, <2>2, <2>3 DEF Start, Promise!Report, Promise!Next, Same
<1>8. CASE Refuse(p)
  <2>1. UNCHANGED vars
    BY <1>8 DEF Refuse
  <2> QED BY <2>1 DEF vars, Promise!vars, Published, Whole
<1>9. CASE Backup(p)
  <2>1. Published' = Published /\ Published = db /\ torn = FALSE
    BY <1>3, <1>4, <1>5, <1>6, <1>9, PublishedIsPrior DEF Backup, Goto, Replacing
  <2> QED BY <1>9, <2>1 DEF Backup, Promise!BackUp, Promise!Next
<1>10. CASE Register(p) \/ Claim(p) \/ Stage(p) \/ Complete(p) \/ Verify(p) \/ Copy(p)
            \/ Raises(p) \/ ReplayFails(p) \/ CopyFails(p)
  <2>1. /\ pc[p] \notin Replacing /\ pc'[p] \notin Replacing
        /\ UNCHANGED <<db, manifest, backups, torn, reported>>
    BY <1>4, <1>10 DEF Register, Claim, Stage, Complete, Verify, Copy, Raises, ReplayFails,
       CopyFails, Goto, Return, Replacing
  <2> QED BY <1>2, <1>6, <2>1 DEF Same
<1>11. CASE ReplaceManifest(p)
  <2>1. /\ pc[p] = "manifest" /\ pc'[p] = "db" /\ old' = old
        /\ UNCHANGED <<backups, torn, reported>>
    BY <1>4, <1>11 DEF ReplaceManifest, Goto
  <2>2. Published = db /\ old[p].db = db
    BY <2>1, PublishedIsPrior DEF Replacing, IInv, RollbackReady
  <2> QED BY <1>2, <1>3, <2>1, <2>2 DEF Same, Replacing
<1>12. CASE ReplaceDb(p) \/ UndoManifest(p) \/ RevertDb(p)
  <2>1. pc[p] \in Replacing /\ pc'[p] \in Replacing /\ UNCHANGED <<old, backups, torn, reported>>
    BY <1>4, <1>12 DEF ReplaceDb, UndoManifest, RevertDb, Goto, Replacing
  <2> QED BY <1>2, <1>3, <2>1 DEF Same
<1>13. CASE PublishFails(p)
  <2>1. /\ pc[p] \in {"manifest"} \union Replacing /\ pc'[p] \in Replacing
        /\ UNCHANGED <<old, backups, torn, reported>>
    BY <1>4, <1>13 DEF PublishFails, Goto, Replacing
  <2>2. pc[p] = "manifest" => Published = db /\ old[p].db = db
    BY PublishedIsPrior DEF Replacing, IInv, RollbackReady
  <2> QED BY <1>2, <1>3, <2>1, <2>2 DEF Same
<1>14. CASE Check(p)
  <2>1. /\ pc[p] = "check" /\ pc'[p] = "reconcile"
        /\ UNCHANGED <<db, manifest, backups, torn, reported>>
    BY <1>4, <1>14 DEF Check, Goto
  <2>2. /\ db = Propagated(old[p].db, job[p].ledger) /\ Whole
        /\ Published = old[p].db /\ Published \in backups
        /\ torn = FALSE /\ job[p].ledger \in Ledger
    BY <2>1, PublishedIsPrior, Running DEF IInv, RollbackReady, Bound, Replacing, Job
  <2>3. Published' = db
    BY <1>3, <2>1, <2>2 DEF Replacing, Whole
  <2> QED BY <2>1, <2>2, <2>3 DEF Promise!Replace, Promise!Next
<1>15. CASE UndoDb(p) \/ RevertManifest(p)
  <2>1. /\ pc[p] \in Replacing /\ pc'[p] = "idle" /\ UNCHANGED <<backups, torn, reported>>
        /\ db' = old[p].db /\ manifest' = old[p].manifest
    BY <1>4, <1>15 DEF UndoDb, RevertManifest, Return, Goto, Replacing, IInv, Bound, RollbackReady
  <2>2. torn' = FALSE /\ Whole'
    BY <1>5, <2>1 DEF IInv, RollbackReady, Whole, Replacing
  <2> QED BY <2>1, <2>2, EndPromised
<1>16. CASE CheckRaises(p)
  <2>1. /\ pc[p] \in Replacing /\ pc'[p] = "idle" /\ UNCHANGED <<db, manifest, backups, torn, reported>>
        /\ db = Propagated(old[p].db, job[p].ledger) /\ Whole
    BY <1>4, <1>16 DEF CheckRaises, Return, Goto, Replacing, IInv, Bound, RollbackReady
  <2>2. torn' = FALSE /\ Whole'
    BY <1>5, <2>1 DEF Whole, Replacing
  <2> QED BY <2>1, <2>2, EndPromised
<1>17. CASE Reconcile(p)
  <2>1. /\ pc[p] \notin Replacing /\ pc'[p] \notin Replacing
        /\ UNCHANGED <<db, manifest, backups, torn>>
        /\ reported' = reported \union {job[p].ledger}
    BY <1>4, <1>17 DEF Reconcile, Return, Goto, Replacing
  <2>2. Published' = Published /\ Published = db /\ torn = FALSE
    BY <1>5, <1>6, <1>17, <2>1, PublishedIsPrior DEF Reconcile
  <2>3. job[p].ledger \in Ledger /\ Suppresses(db, job[p].ledger)
    BY <1>17 DEF IInv, Reconcile, Job
  <2> QED BY <2>1, <2>2, <2>3 DEF Promise!Report, Promise!Next
<1>18. ASSUME pc[p] = "backup", HalfBackup, pc'[p] = "idle",
              UNCHANGED <<db, manifest, reported, torn>>
       PROVE  Promise!Next \/ Same
  <2>1. Published' = Published /\ Published = db /\ torn = FALSE
    BY <1>5, <1>6, <1>18, PublishedIsPrior DEF Replacing
  <2> QED BY <1>18, <2>1 DEF HalfBackup, Promise!SpoilBackup, Promise!Next, Same
<1>19. CASE BackupRaises(p)
  BY <1>2, <1>4, <1>18, <1>19 DEF BackupRaises, Return, Goto
<1>20. CASE RollbackRaises(p) \/ Crash(p)
  <2>1. /\ HalfWritten(p) /\ pc[p] # "idle" /\ pc'[p] = "idle" /\ reported' = reported
        /\ (pc[p] = "backup" /\ HalfBackup) \/ (pc[p] # "backup" /\ backups' = backups)
    BY <1>4, <1>20 DEF RollbackRaises, Crash, Return, Goto
  <2>2. CASE pc[p] \notin Replacing
    <3>1. UNCHANGED <<db, manifest, torn>>
      BY <1>5, <2>1, <2>2 DEF HalfWritten, Replacing
    <3> QED
      BY <1>2, <1>6, <1>18, <2>1, <2>2, <3>1 DEF Same, Replacing
  <2>3. CASE pc[p] \in Replacing
    <3>1. torn' = ~Whole' /\ backups' = backups
      BY <2>1, <2>3, HalfWrittenHolds DEF Replacing
    <3>2. Whole' => db' \in {old[p].db, Propagated(old[p].db, job[p].ledger)}
      <4>1. db' \in {db, None, old[p].db}
        BY <2>1 DEF HalfWritten
      <4>2. db = old[p].db \/ db = Propagated(old[p].db, job[p].ledger)
        BY <2>3 DEF IInv, RollbackReady, Replacing
      <4>3. Whole' => db' # None
        BY NoneAssumption DEF Whole, Generation
      <4> QED BY <4>1, <4>2, <4>3
    <3> QED
      BY <2>1, <2>3, <3>1, <3>2, EndPromised
  <2> QED BY <2>2, <2>3
<1> QED
  BY <1>1, <1>2, <1>7, <1>8, <1>9, <1>10, <1>11, <1>12, <1>13, <1>14, <1>15, <1>16, <1>17,
     <1>19, <1>20
  DEF Progress, Rollback, Failure

(* The purge implements ManagedArtifact: the published pair is that of the  *)
(* prior generation or that of the next, backed up, with one ledger more,   *)
(* however a run fails, unless it is cut short inside the replacement or    *)
(* its rollback; and reports are true when written.                         *)
THEOREM Refinement == OnePurger => (Spec => PublishesAtomically)
<1> SUFFICES ASSUME OnePurger PROVE Spec => PublishesAtomically
  OBVIOUS
<1>1. IInv /\ IInv' /\ [Next]_vars => [Promise!Next]_(Promise!vars)
  <2>1. UNCHANGED vars => UNCHANGED Promise!vars
    BY DEF vars, Promise!vars, Published, Whole
  <2> QED
    BY <2>1, StepPromised
<1>2. Init => Promise!Init
  BY InitPromised
<1> QED
  BY <1>1, <1>2, Invariance, PTL DEF Spec, PublishesAtomically, Promise!Spec
=============================================================================
