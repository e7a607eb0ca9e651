--------------------------- MODULE TombstoneOutbox ---------------------------
(***************************************************************************)
(* The durable tombstone outbox (operations/outbox.py) and the operators   *)
(* that replay it: TombstoneOperator.replay / replay_pending, and the      *)
(* `operate` command of operations/operator.py, which registers one        *)
(* projection, replays it, verifies the derivative and writes a            *)
(* reconciliation manifest.                                                *)
(*                                                                         *)
(* A worker is one process.  Every SQL statement, backend call and file    *)
(* check is a step of its own, so that workers interleave between them and *)
(* may stop between any two.  The table is kept by column, one function    *)
(* from identities per column the control reads.                           *)
(*                                                                         *)
(* What a boundary changes is abstracted to                                *)
(*   output[r]   which claim last wrote the SQLite derivative of identity  *)
(*               r (its bytes; 0 while there is none): the sha256 the code *)
(*               stores and compares is a name for it;                     *)
(*   points[r]   the classes of Qdrant points of r still to be deleted.    *)
(***************************************************************************)
EXTENDS Naturals

CONSTANTS
    Identity,     \* outbox identities: hash of a projection and its scope
    Worker,       \* operator processes
    MaxAttempts,  \* bound on the claims of one row
    NoIdentity    \* the value of cur[w] while worker w replays nothing

ASSUME BoundAssumption == MaxAttempts \in Nat \ {0}
ASSUME NoIdentityAssumption == NoIdentity \notin Identity

VARIABLES
    status,      \* column status; "absent" before register
    attempts,    \* column attempts
    requestedAt, \* column requested_at, 0 before register
    claimedAt,   \* column claimed_at, 0 while NULL
    results,     \* column backend_results: the output_sha256 it holds, or 0
    now,         \* the clock behind requested_at and claimed_at
    output,      \* the SQLite derivative on disk
    points,      \* the Qdrant points still present
    certified,   \* the reconciliation manifest: the output it certifies, or 0
    undone,      \* history: the rows that fail() found applied
    pc,          \* worker: next statement
    mode,        \* worker: "replay" or "operate"
    cur,         \* worker: the identity it replays
    todo,        \* worker: rest of the list replay_pending read
    held         \* worker: the attempt it claimed, or the results it read

rowVars     == <<status, attempts, requestedAt, claimedAt, results, now>>
backendVars == <<output, points>>
workerVars  == <<pc, mode, cur, todo, held>>
vars        == <<rowVars, backendVars, certified, undone, workerVars>>

-----------------------------------------------------------------------------
Status == {"absent", "pending", "in_progress", "applied", "failed"}

(* Points embedding a tombstoned message as context, and the message's own. *)
PointClass == {"context", "direct"}

(* Statements run while the row is claimed. *)
OwnerPC == {"sqlite", "context", "direct", "complete", "fail"}

PC == OwnerPC \union {"idle", "get", "claim", "readback", "unread", "verify", "reconcile"}

TypeOK ==
    /\ status \in [Identity -> Status]
    /\ attempts \in [Identity -> 0 .. MaxAttempts]
    /\ requestedAt \in [Identity -> Nat]
    /\ claimedAt \in [Identity -> Nat]
    /\ results \in [Identity -> 0 .. MaxAttempts]
    /\ now \in Nat
    /\ output \in [Identity -> 0 .. MaxAttempts]
    /\ points \in [Identity -> SUBSET PointClass]
    /\ certified \in [Identity -> 0 .. MaxAttempts]
    /\ undone \subseteq Identity
    /\ pc \in [Worker -> PC]
    /\ mode \in [Worker -> {"replay", "operate"}]
    /\ cur \in [Worker -> Identity \union {NoIdentity}]
    /\ todo \in [Worker -> SUBSET Identity]
    /\ held \in [Worker -> 0 .. MaxAttempts]

Init ==
    /\ status = [r \in Identity |-> "absent"]
    /\ attempts = [r \in Identity |-> 0]
    /\ requestedAt = [r \in Identity |-> 0]
    /\ claimedAt = [r \in Identity |-> 0]
    /\ results = [r \in Identity |-> 0]
    /\ now = 0
    /\ output = [r \in Identity |-> 0]
    /\ points = [r \in Identity |-> PointClass]
    /\ certified = [r \in Identity |-> 0]
    /\ undone = {}
    /\ pc = [w \in Worker |-> "idle"]
    /\ mode = [w \in Worker |-> "replay"]
    /\ cur = [w \in Worker |-> NoIdentity]
    /\ todo = [w \in Worker |-> {}]
    /\ held = [w \in Worker |-> 0]

-----------------------------------------------------------------------------
(* Worker bookkeeping. *)

(* Seeded fault: only an applied row is refused. *)
ClaimableUnlessApplied(r) == status[r] # "applied"

(* Rows replay may claim. *)
Claimable(r) == status[r] \in {"pending", "failed"}

(* Worker w has claimed row r and has neither completed nor failed it. *)
Holds(w, r) == pc[w] \in OwnerPC /\ cur[w] = r

(* Row r heads S in the order of requested_at. *)
Earliest(r, S) == r \in S /\ \A q \in S : requestedAt[r] <= requestedAt[q]

Goto(w, label) ==
    /\ pc' = [pc EXCEPT ![w] = label]
    /\ UNCHANGED <<mode, cur, todo, held>>

(* The call ends, by return, by an exception or by the end of the process:  *)
(* its local variables are gone, and with them the rest of the list.        *)
Leave(w) ==
    /\ pc' = [pc EXCEPT ![w] = "idle"]
    /\ mode' = [mode EXCEPT ![w] = "replay"]
    /\ cur' = [cur EXCEPT ![w] = NoIdentity]
    /\ todo' = [todo EXCEPT ![w] = {}]
    /\ held' = [held EXCEPT ![w] = 0]

(* Worker w turns to the earliest row of a list. *)
Take(w, list) ==
    \E r \in list :
        /\ Earliest(r, list)
        /\ pc' = [pc EXCEPT ![w] = "get"]
        /\ cur' = [cur EXCEPT ![w] = r]
        /\ todo' = [todo EXCEPT ![w] = list \ {r}]
        /\ held' = [held EXCEPT ![w] = 0]
        /\ UNCHANGED mode

(* replay returned for cur[w]: go on with the list, if anything is left. *)
NextOfList(w) ==
    \/ todo[w] = {} /\ Leave(w)
    \/ Take(w, todo[w])

-----------------------------------------------------------------------------
(* Entry points. *)

(* Seeded fault: INSERT OR REPLACE. *)
RegisterReplacing(w, r, m) ==
    /\ pc[w] = "idle"
    /\ now' = now + 1
    /\ status' = [status EXCEPT ![r] = "pending"]
    /\ requestedAt' = [requestedAt EXCEPT ![r] = now + 1]
    /\ pc' = [pc EXCEPT ![w] = "get"]
    /\ mode' = [mode EXCEPT ![w] = m]
    /\ cur' = [cur EXCEPT ![w] = r]
    /\ UNCHANGED <<todo, held, attempts, claimedAt, results, backendVars, certified, undone>>

(* register(): INSERT OR IGNORE, then the caller replays the identity. *)
Register(w, r, m) ==
    /\ pc[w] = "idle"
    /\ IF status[r] = "absent"
         THEN /\ now' = now + 1
              /\ status' = [status EXCEPT ![r] = "pending"]
              /\ requestedAt' = [requestedAt EXCEPT ![r] = now + 1]
         ELSE UNCHANGED <<now, status, requestedAt>>
    /\ pc' = [pc EXCEPT ![w] = "get"]
    /\ mode' = [mode EXCEPT ![w] = m]
    /\ cur' = [cur EXCEPT ![w] = r]
    /\ UNCHANGED <<todo, held, attempts, claimedAt, results, backendVars, certified, undone>>

(* replay_pending(): one SELECT, then replay of each row it returned. *)
ReplayPending(w) ==
    /\ pc[w] = "idle"
    /\ Take(w, {r \in Identity : Claimable(r)})
    /\ UNCHANGED <<rowVars, backendVars, certified, undone>>

(* Seeded fault: the age of the claim is all that counts. *)
StaleByAge(before) == {r \in Identity : claimedAt[r] # 0 /\ claimedAt[r] < before}

(* recover_stale(before): every row claimed before the threshold goes back. *)
Stale(before) == {r \in Identity : status[r] = "in_progress" /\ claimedAt[r] < before}

RecoverStale(before) ==
    /\ Stale(before) # {}
    /\ status' = [r \in Identity |-> IF r \in Stale(before) THEN "pending" ELSE status[r]]
    /\ UNCHANGED <<attempts, requestedAt, claimedAt, results, now,
                   backendVars, certified, undone, workerVars>>

-----------------------------------------------------------------------------
(* replay(): the row is read, claimed, sent through both boundaries. *)

(* replay() returns an applied row as it found it; `operate` then checks it. *)
Get(w) ==
    LET r == cur[w] IN
    /\ pc[w] = "get"
    /\ \/ status[r] # "applied" /\ Goto(w, "claim")
       \/ status[r] = "applied" /\ mode[w] = "replay" /\ NextOfList(w)
       \/ /\ status[r] = "applied" /\ mode[w] = "operate"
          /\ pc' = [pc EXCEPT ![w] = "verify"]
          /\ held' = [held EXCEPT ![w] = results[r]]
          /\ UNCHANGED <<mode, cur, todo>>
    /\ UNCHANGED <<rowVars, backendVars, certified, undone>>

Claim(w) ==
    LET r == cur[w] IN
    /\ pc[w] = "claim"
    /\ Claimable(r)
    /\ attempts[r] < MaxAttempts
    /\ now' = now + 1
    /\ status' = [status EXCEPT ![r] = "in_progress"]
    /\ attempts' = [attempts EXCEPT ![r] = @ + 1]
    /\ claimedAt' = [claimedAt EXCEPT ![r] = now + 1]
    /\ pc' = [pc EXCEPT ![w] = "sqlite"]
    /\ held' = [held EXCEPT ![w] = attempts[r] + 1]
    /\ UNCHANGED <<requestedAt, results, backendVars, certified, undone, mode, cur, todo>>

(* "outbox row is already ...": raised before the try block, no fail(). *)
ClaimRefused(w) ==
    /\ pc[w] = "claim"
    /\ ~Claimable(cur[w])
    /\ Leave(w)
    /\ UNCHANGED <<rowVars, backendVars, certified, undone>>

(* Seeded fault: the second boundary is skipped. *)
SqliteBoundaryOnly(w) ==
    /\ pc[w] = "sqlite"
    /\ output' = [output EXCEPT ![cur[w]] = held[w]]
    /\ Goto(w, "complete")
    /\ UNCHANGED <<rowVars, points, certified, undone>>

(* A boundary call either returns, with its effect, or raises, with or      *)
(* without it (an answer lost on the way back, a result that fails          *)
(* _normalize).                                                             *)
SqliteBoundary(w) ==
    /\ pc[w] = "sqlite"
    /\ \/ output' = [output EXCEPT ![cur[w]] = held[w]] /\ Goto(w, "context")
       \/ output' = [output EXCEPT ![cur[w]] = held[w]] /\ Goto(w, "fail")
       \/ output' = output /\ Goto(w, "fail")
    /\ UNCHANGED <<rowVars, points, certified, undone>>

(* delete_tombstone_projection: context contributors before direct points. *)
DeletePoints(w, class, next) ==
    LET remaining == [points EXCEPT ![cur[w]] = @ \ {class}] IN
    /\ pc[w] = class
    /\ \/ points' = remaining /\ Goto(w, next)
       \/ points' = remaining /\ Goto(w, "fail")
       \/ points' = points /\ Goto(w, "fail")
    /\ UNCHANGED <<rowVars, output, certified, undone>>

(* Seeded fault: the direct identities are not deleted. *)
QdrantContextOnly(w) == DeletePoints(w, "context", "complete")

QdrantContext(w) == DeletePoints(w, "context", "direct")

QdrantDirect(w) == DeletePoints(w, "direct", "complete")

(* Seeded fault: the UPDATE matches no row. *)
CompleteNothing(w) ==
    /\ pc[w] = "complete"
    /\ Goto(w, "readback")
    /\ UNCHANGED <<rowVars, backendVars, certified, undone>>

(* complete() and fail() update the row by identity alone; the UPDATE of    *)
(* complete() may itself raise, inside the try block.                       *)
Complete(w) ==
    LET r == cur[w] IN
    /\ pc[w] = "complete"
    /\ \/ /\ status' = [status EXCEPT ![r] = "applied"]
          /\ results' = [results EXCEPT ![r] = held[w]]
          /\ Goto(w, "readback")
       \/ UNCHANGED <<status, results>> /\ Goto(w, "fail")
    /\ UNCHANGED <<attempts, requestedAt, claimedAt, now, backendVars, certified, undone>>

(* Seeded fault: a status outside the outbox's vocabulary. *)
FailAsError(w) ==
    /\ pc[w] \in {"fail", "unread"}
    /\ status' = [status EXCEPT ![cur[w]] = "error"]
    /\ Leave(w)
    /\ UNCHANGED <<attempts, requestedAt, claimedAt, results, now, backendVars, certified, undone>>

(* The except branch of replay(): whatever the try block raised, the row    *)
(* becomes failed, also one that complete() has just made applied.          *)
Fail(w) ==
    /\ pc[w] \in {"fail", "unread"}
    /\ status' = [status EXCEPT ![cur[w]] = "failed"]
    /\ undone' = IF status[cur[w]] = "applied" THEN undone \union {cur[w]} ELSE undone
    /\ Leave(w)
    /\ UNCHANGED <<attempts, requestedAt, claimedAt, results, now, backendVars, certified>>

(* complete() returns self.get(identity), read in a second transaction;     *)
(* `operate` goes on with a row that is still applied.                      *)
ReadBack(w) ==
    LET r == cur[w] IN
    /\ pc[w] = "readback"
    /\ \/ mode[w] = "replay" /\ NextOfList(w)
       \/ /\ mode[w] = "operate" /\ status[r] = "applied"
          /\ pc' = [pc EXCEPT ![w] = "verify"]
          /\ held' = [held EXCEPT ![w] = results[r]]
          /\ UNCHANGED <<mode, cur, todo>>
       \/ mode[w] = "operate" /\ status[r] # "applied" /\ Leave(w)
    /\ UNCHANGED <<rowVars, backendVars, certified, undone>>

(* That read raises (a locked database): complete() has committed, but its  *)
(* return statement is still inside the try block, so fail() follows.       *)
ReadBackRaises(w) ==
    /\ pc[w] = "readback"
    /\ Goto(w, "unread")
    /\ UNCHANGED <<rowVars, backendVars, certified, undone>>

-----------------------------------------------------------------------------
(* run_configured_operation after replay(). *)

(* The derivative on disk must hash to the persisted output_sha256. *)
Verify(w) ==
    /\ pc[w] = "verify"
    /\ \/ output[cur[w]] = held[w] /\ Goto(w, "reconcile")
       \/ output[cur[w]] # held[w] /\ Leave(w)
    /\ UNCHANGED <<rowVars, backendVars, certified, undone>>

Reconcile(w) ==
    /\ pc[w] = "reconcile"
    /\ certified' = [certified EXCEPT ![cur[w]] = held[w]]
    /\ Leave(w)
    /\ UNCHANGED <<rowVars, backendVars, undone>>

(* The process dies, or an exception `except Exception` does not catch (an  *)
(* interrupt), or one that fail() itself raises, ends the call: the row     *)
(* keeps the status it has.                                                 *)
Stop(w) ==
    /\ pc[w] # "idle"
    /\ Leave(w)
    /\ UNCHANGED <<rowVars, backendVars, certified, undone>>

-----------------------------------------------------------------------------
Enter(w) ==
    \/ \E r \in Identity, m \in {"replay", "operate"} : Register(w, r, m)
    \/ ReplayPending(w)

Step(w) ==
    \/ Get(w) \/ Claim(w) \/ ClaimRefused(w)
    \/ SqliteBoundary(w) \/ QdrantContext(w) \/ QdrantDirect(w)
    \/ Complete(w) \/ Fail(w)
    \/ ReadBack(w) \/ ReadBackRaises(w) \/ Verify(w) \/ Reconcile(w)

(* A threshold that is older than the claim of every running worker: the    *)
(* caller's duty, recover_stale itself cannot tell a stopped worker from a  *)
(* slow one.                                                                *)
Quiesced(before) == \A r \in Stale(before) : \A w \in Worker : ~Holds(w, r)

Recover ==
    \E before \in 1 .. now + 1 : Quiesced(before) /\ RecoverStale(before)

Next ==
    \/ \E w \in Worker : Enter(w) \/ Step(w) \/ Stop(w)
    \/ Recover

Spec == Init /\ [][Next]_vars

(* What src/ runs: no command calls recover_stale. *)
SourceNext == \E w \in Worker : Enter(w) \/ Step(w) \/ Stop(w)

SourceSpec == Init /\ [][SourceNext]_vars

-----------------------------------------------------------------------------
(* Safety. *)

(* An applied row has been through both boundaries, completely, and the     *)
(* derivative on disk is the one its backend_results describe: no attempt   *)
(* that failed or stopped half way, and no second worker, can leave a row   *)
(* applied over points that are still searchable or over another output.    *)
(* (TombstoneOperator.replay, run_configured_operation's hash check.)       *)
AppliedIsPropagated ==
    \A r \in Identity : status[r] = "applied" =>
        /\ results[r] # 0 /\ output[r] = results[r]
        /\ points[r] = {}

(* A claim excludes every other worker from the boundaries of the row, for  *)
(* as long as its worker runs (_claim's conditional UPDATE).                *)
OneClaimant ==
    \A r \in Identity, w, v \in Worker :
        Holds(w, r) => status[r] = "in_progress" /\ (Holds(v, r) => v = w)

(* A reconciliation manifest describes an applied row and the derivative    *)
(* that is on disk, although the hash check, the readback of the row and    *)
(* the write are three steps (run_configured_operation).  The exception is  *)
(* a row whose completion was undone: another worker may have read it as    *)
(* applied in between, and a retry then writes a newer derivative.          *)
CertifiedIsCurrent ==
    \A r \in Identity \ undone : certified[r] # 0 =>
        /\ status[r] = "applied"
        /\ certified[r] = results[r] /\ certified[r] = output[r]

(* Worker w completed row r and could not read it back. *)
Unread(w, r) == pc[w] = "unread" /\ cur[w] = r

(* No other actor undoes an applied row: not a late fail() or complete() of *)
(* another attempt, a second submit or a recovery.  Only the worker that    *)
(* completed it does, when its own read of the row raises and its except    *)
(* branch records a failure; even then the derivative, the points and the   *)
(* results stay as they were (replay's early return and except branch).     *)
AppliedIsFinal ==
    [][\A r \in Identity : status[r] = "applied" =>
        /\ \/ status'[r] = "applied"
           \/ status'[r] = "failed" /\ \E w \in Worker : Unread(w, r) /\ pc'[w] = "idle"
        /\ <<results'[r], output'[r], points'[r]>> = <<results[r], output[r], points[r]>>
      ]_vars

(* The row of a boundary that ended by an exception remains retryable by    *)
(* running the same command again (run_configured_operation's docstring):   *)
(* a row nobody works on is claimable or applied.                           *)
RemainsRetryable ==
    \A r \in Identity :
        status[r] = "in_progress" => \E w \in Worker : Holds(w, r)

-----------------------------------------------------------------------------
(* The inductive invariant behind the safety properties. *)

(* A busy worker works on a row of the table. *)
BusyOnARow == \A w \in Worker : pc[w] # "idle" => cur[w] \in Identity

(* A worker between its claim and its complete or fail owns the claim. *)
ClaimHeld ==
    \A w \in Worker : pc[w] \in OwnerPC =>
        /\ status[cur[w]] = "in_progress"
        /\ held[w] = attempts[cur[w]] /\ held[w] # 0

OneOwner ==
    \A w, v \in Worker :
        pc[w] \in OwnerPC /\ pc[v] \in OwnerPC /\ cur[w] = cur[v] => w = v

(* What the owner's program counter says about the backends. *)
StageReached ==
    \A w \in Worker :
        /\ pc[w] = "sqlite" => output[cur[w]] < held[w]
        /\ pc[w] \in {"context", "direct", "complete"} => output[cur[w]] = held[w]
        /\ pc[w] \in {"direct", "complete"} => "context" \notin points[cur[w]]
        /\ pc[w] = "complete" => "direct" \notin points[cur[w]]

(* A worker that completed its row and has not read it back yet. *)
CompletedPC == {"readback", "unread"}

(* Until its worker has read it back, a completed row stays applied, and it *)
(* is nobody else's.                                                        *)
CompletedHeld ==
    \A w, v \in Worker : pc[w] \in CompletedPC =>
        /\ status[cur[w]] = "applied"
        /\ pc[v] \in CompletedPC /\ cur[w] = cur[v] => w = v

(* What the tail of the operate command knows about the row it read: unless *)
(* its completion is undone it is what was read, and what was read is never *)
(* newer than the derivative on disk.                                       *)
TailReached ==
    \A w \in Worker : pc[w] \in {"verify", "reconcile"} =>
        /\ held[w] # 0 /\ held[w] <= output[cur[w]]
        /\ cur[w] \notin undone => status[cur[w]] = "applied" /\ held[w] = results[cur[w]]

(* Nor are the results newer than the derivative they describe. *)
ResultsOfOutput == \A r \in Identity : results[r] <= output[r]

(* The derivative is never newer than the last claim. *)
OutputOfAClaim == \A r \in Identity : output[r] <= attempts[r]

IInv ==
    /\ TypeOK
    /\ BusyOnARow
    /\ ClaimHeld
    /\ OneOwner
    /\ StageReached
    /\ CompletedHeld
    /\ TailReached
    /\ OutputOfAClaim
    /\ ResultsOfOutput
    /\ AppliedIsPropagated
    /\ CertifiedIsCurrent

-----------------------------------------------------------------------------
(* Refinement of the abstract promise. *)

RequestOf(s) ==
    IF s = "absent" THEN "none" ELSE IF s = "applied" THEN "settled" ELSE "open"

Request == INSTANCE TombstoneRequest WITH
    request     <- [r \in Identity |-> RequestOf(status[r])],
    derivative  <- output,
    Generation  <- 1 .. MaxAttempts,
    certificate <- certified,
    reopened    <- undone

(* Claims, retries, stops and recoveries implement "open, propagate, then   *)
(* settle": deletions happen only between registration and application, and *)
(* every new derivative replaces an older attempt's, never a newer one's.   *)
(* A completion undone by its own worker reopens the request.               *)
ImplementsRequest == Request!Spec

-----------------------------------------------------------------------------
(* No call raises and no process stops: what is left is interleaving.       *)
UndisturbedStep(w) == Step(w) /\ pc'[w] \notin {"fail", "unread"}

UndisturbedNext == \E w \in Worker : Enter(w) \/ UndisturbedStep(w)

Fairness == \A w \in Worker : WF_vars(UndisturbedStep(w))

UndisturbedSpec == Init /\ [][UndisturbedNext]_vars /\ Fairness

(* Workers that collide on a row, or drop the rest of their list because    *)
(* another worker claimed its head, still get every registered row applied. *)
EveryRequestIsApplied ==
    \A r \in Identity : status[r] # "absent" ~> status[r] = "applied"
=============================================================================
