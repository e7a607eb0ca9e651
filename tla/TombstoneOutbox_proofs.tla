------------------------ MODULE TombstoneOutbox_proofs ------------------------
(***************************************************************************)
(* Proofs about TombstoneOutbox, for any set of identities and workers and *)
(* any bound on the attempts: the inductive invariant, the safety          *)
(* properties that follow from it, the finality of an applied row, and the *)
(* refinement of TombstoneRequest.                                         *)
(***************************************************************************)
EXTENDS TombstoneOutbox, TLAPS

USE BoundAssumption, NoIdentityAssumption

-----------------------------------------------------------------------------
(* Worker bookkeeping. *)

(* The worker variables after a step of w keep their types and leave every  *)
(* other worker where it was.                                               *)
WorkerStep(w) ==
    /\ pc' \in [Worker -> PC] /\ mode' \in [Worker -> {"replay", "operate"}]
    /\ cur' \in [Worker -> Identity \union {NoIdentity}]
    /\ todo' \in [Worker -> SUBSET Identity]
    /\ held' \in [Worker -> 0 .. MaxAttempts]
    /\ \A v \in Worker \ {w} :
          pc'[v] = pc[v] /\ cur'[v] = cur[v] /\ held'[v] = held[v]

(* A call that ends. *)
LEMMA LeaveStep ==
  ASSUME TypeOK, NEW w \in Worker, Leave(w)
  PROVE  WorkerStep(w) /\ pc'[w] = "idle"
  BY DEF Leave, WorkerStep, TypeOK, PC, OwnerPC

(* A call that turns to the earliest row of a list. *)
LEMMA TakeStep ==
  ASSUME TypeOK, NEW w \in Worker, NEW list \in SUBSET Identity, Take(w, list)
  PROVE  WorkerStep(w) /\ pc'[w] = "get" /\ cur'[w] \in Identity
  BY DEF Take, Earliest, WorkerStep, TypeOK, PC, OwnerPC

(* replay_pending going on with its list. *)
LEMMA NextOfListStep ==
  ASSUME TypeOK, NEW w \in Worker, NextOfList(w)
  PROVE  WorkerStep(w) /\ pc'[w] \in {"idle", "get"}
         /\ (pc'[w] # "idle" => cur'[w] \in Identity)
  BY LeaveStep, TakeStep DEF NextOfList, TypeOK

(* A call that goes on to another statement. *)
LEMMA GotoStep ==
  ASSUME TypeOK, NEW w \in Worker, NEW label \in PC, Goto(w, label)
  PROVE  WorkerStep(w) /\ pc'[w] = label /\ cur'[w] = cur[w] /\ held'[w] = held[w]
  BY DEF Goto, WorkerStep, TypeOK

-----------------------------------------------------------------------------
(* The inductive invariant. *)

(* The invariant holds of the empty outbox.                                 *)
LEMMA InitIInv == Init => IInv
  BY DEF Init, IInv, TypeOK, BusyOnARow, ClaimHeld, OneOwner, StageReached,
         CompletedHeld, TailReached, OutputOfAClaim, ResultsOfOutput,
         AppliedIsPropagated, CertifiedIsCurrent, CompletedPC, OwnerPC, PC, Status, PointClass

(* Where a worker may go in a step that claims nothing, given the rows as   *)
(* they are after it: out of the boundaries, with what the place requires.  *)
Landed(w) ==
    /\ pc'[w] \notin OwnerPC
    /\ pc'[w] # "idle" => cur'[w] \in Identity
    /\ pc'[w] \in CompletedPC => pc[w] \in CompletedPC /\ cur'[w] = cur[w]
    /\ pc'[w] \in {"verify", "reconcile"} =>
         /\ held'[w] # 0 /\ held'[w] <= output'[cur'[w]]
         /\ cur'[w] \notin undone =>
              status'[cur'[w]] = "applied" /\ held'[w] = results'[cur'[w]]

(* A step of one worker that only reads the table and the backends. *)
LEMMA ReadOnlyIInv ==
  ASSUME IInv, NEW w \in Worker, WorkerStep(w), Landed(w),
         UNCHANGED <<rowVars, backendVars, certified, undone>>
  PROVE  IInv'
<1> USE DEF IInv, WorkerStep, Landed, rowVars, backendVars
<1>1. TypeOK'
  BY DEF TypeOK
<1>2. BusyOnARow' /\ ClaimHeld'
  BY DEF BusyOnARow, ClaimHeld
<1>3. OneOwner'
  <2> SUFFICES ASSUME NEW u \in Worker, NEW v \in Worker,
                      pc'[u] \in OwnerPC, pc'[v] \in OwnerPC, cur'[u] = cur'[v]
               PROVE  u = v
    BY DEF OneOwner
  <2>1. u # w /\ v # w
    OBVIOUS
  <2> QED BY <2>1 DEF OneOwner
<1>4. StageReached'
  <2> SUFFICES ASSUME NEW u \in Worker, pc'[u] \in OwnerPC
               PROVE  /\ pc'[u] = "sqlite" => output'[cur'[u]] < held'[u]
                      /\ pc'[u] \in {"context", "direct", "complete"}
                           => output'[cur'[u]] = held'[u]
                      /\ pc'[u] \in {"direct", "complete"}
                           => "context" \notin points'[cur'[u]]
                      /\ pc'[u] = "complete" => "direct" \notin points'[cur'[u]]
    BY DEF StageReached, OwnerPC
  <2>1. u # w
    OBVIOUS
  <2> QED BY <2>1 DEF StageReached
<1>5. CompletedHeld' /\ TailReached'
  <2>1. CompletedHeld'
    BY DEF CompletedHeld
  <2>2. TailReached'
    BY DEF TailReached
  <2> QED BY <2>1, <2>2
<1>6. /\ OutputOfAClaim' /\ ResultsOfOutput'
      /\ AppliedIsPropagated' /\ CertifiedIsCurrent'
  BY DEF OutputOfAClaim, ResultsOfOutput, AppliedIsPropagated, CertifiedIsCurrent
<1> QED BY <1>1, <1>2, <1>3, <1>4, <1>5, <1>6

(* The steps that only read. *)
LEMMA ReadingIInv ==
  ASSUME IInv, NEW w \in Worker,
         ReplayPending(w) \/ Get(w) \/ ClaimRefused(w) \/ ReadBack(w)
           \/ ReadBackRaises(w) \/ Verify(w) \/ Stop(w)
  PROVE  IInv'
<1> USE DEF IInv
<1>1. TypeOK /\ BusyOnARow /\ TailReached
  OBVIOUS
<1>2. CASE ReplayPending(w)
  <2>1. WorkerStep(w) /\ pc'[w] = "get" /\ cur'[w] \in Identity
    BY <1>2, TakeStep DEF ReplayPending
  <2> QED BY <1>2, <2>1, ReadOnlyIInv DEF ReplayPending, Landed, OwnerPC, CompletedPC
<1>3. CASE Get(w)
  <2>1. CASE status[cur[w]] # "applied" /\ Goto(w, "claim")
    <3>1. WorkerStep(w) /\ pc'[w] = "claim" /\ cur'[w] = cur[w]
      BY <2>1, GotoStep DEF PC
    <3> QED BY <1>3, <3>1, ReadOnlyIInv DEF Get, Landed, OwnerPC, CompletedPC, BusyOnARow
  <2>2. CASE NextOfList(w)
    BY <1>3, <2>2, NextOfListStep, ReadOnlyIInv DEF Get, Landed, OwnerPC, CompletedPC
  <2>3. CASE /\ status[cur[w]] = "applied" /\ pc' = [pc EXCEPT ![w] = "verify"]
             /\ held' = [held EXCEPT ![w] = results[cur[w]]]
             /\ UNCHANGED <<mode, cur, todo>>
    <3>1. cur[w] \in Identity
      BY <1>3 DEF Get, BusyOnARow
    <3>2. WorkerStep(w) /\ pc'[w] = "verify" /\ cur'[w] = cur[w]
          /\ held'[w] = results[cur[w]]
      BY <2>3, <3>1 DEF WorkerStep, TypeOK, PC
    <3>3. /\ status'[cur'[w]] = "applied" /\ held'[w] = results'[cur'[w]]
          /\ held'[w] # 0 /\ held'[w] <= output'[cur'[w]]
      BY <1>3, <2>3, <3>1, <3>2
         DEF Get, rowVars, backendVars, AppliedIsPropagated, ResultsOfOutput
    <3> QED BY <1>3, <3>1, <3>2, <3>3, ReadOnlyIInv DEF Get, Landed, OwnerPC, CompletedPC
  <2> QED BY <1>3, <2>1, <2>2, <2>3 DEF Get
<1>4. CASE ClaimRefused(w)
  BY <1>4, LeaveStep, ReadOnlyIInv DEF ClaimRefused, Landed, OwnerPC, CompletedPC
<1>5. CASE ReadBack(w)
  <2>1. CASE Leave(w)
    BY <1>5, <2>1, LeaveStep, ReadOnlyIInv DEF ReadBack, Landed, OwnerPC, CompletedPC
  <2>3. CASE NextOfList(w)
    BY <1>5, <2>3, NextOfListStep, ReadOnlyIInv DEF ReadBack, Landed, OwnerPC, CompletedPC
  <2>2. CASE /\ status[cur[w]] = "applied" /\ pc' = [pc EXCEPT ![w] = "verify"]
             /\ held' = [held EXCEPT ![w] = results[cur[w]]]
             /\ UNCHANGED <<mode, cur, todo>>
    <3>1. cur[w] \in Identity
      BY <1>5 DEF ReadBack, BusyOnARow
    <3>2. WorkerStep(w) /\ pc'[w] = "verify" /\ cur'[w] = cur[w]
          /\ held'[w] = results[cur[w]]
      BY <2>2, <3>1 DEF WorkerStep, TypeOK, PC
    <3>3. /\ status'[cur'[w]] = "applied" /\ held'[w] = results'[cur'[w]]
          /\ held'[w] # 0 /\ held'[w] <= output'[cur'[w]]
      BY <1>5, <2>2, <3>1, <3>2
         DEF ReadBack, rowVars, backendVars, AppliedIsPropagated, ResultsOfOutput
    <3> QED BY <1>5, <3>1, <3>2, <3>3, ReadOnlyIInv DEF ReadBack, Landed, OwnerPC, CompletedPC
  <2> QED BY <1>5, <2>1, <2>2, <2>3 DEF ReadBack
<1>6. CASE Verify(w)
  <2>1. CASE Leave(w)
    BY <1>6, <2>1, LeaveStep, ReadOnlyIInv DEF Verify, Landed, OwnerPC, CompletedPC
  <2>2. CASE Goto(w, "reconcile")
    <3>1. WorkerStep(w) /\ pc'[w] = "reconcile" /\ cur'[w] = cur[w] /\ held'[w] = held[w]
      BY <2>2, GotoStep DEF PC
    <3>2. /\ cur[w] \in Identity
          /\ held[w] # 0 /\ held[w] <= output[cur[w]]
          /\ cur[w] \notin undone =>
               status[cur[w]] = "applied" /\ held[w] = results[cur[w]]
      BY <1>6 DEF Verify, BusyOnARow, TailReached
    <3> QED BY <1>6, <3>1, <3>2, ReadOnlyIInv
            DEF Verify, Landed, OwnerPC, CompletedPC, rowVars, backendVars
  <2> QED BY <1>6, <2>1, <2>2 DEF Verify
<1>7. CASE Stop(w)
  BY <1>7, LeaveStep, ReadOnlyIInv DEF Stop, Landed, OwnerPC, CompletedPC
<1>8. CASE ReadBackRaises(w)
  <2>1. WorkerStep(w) /\ pc'[w] = "unread" /\ cur'[w] = cur[w]
    BY <1>8, GotoStep DEF ReadBackRaises, PC
  <2>2. pc[w] \in CompletedPC /\ cur[w] \in Identity
    BY <1>8 DEF ReadBackRaises, CompletedPC, BusyOnARow
  <2> QED BY <1>8, <2>1, <2>2, ReadOnlyIInv DEF ReadBackRaises, Landed, OwnerPC
<1> QED BY <1>2, <1>3, <1>4, <1>5, <1>6, <1>7, <1>8

(* INSERT OR IGNORE touches a row nobody can hold. *)
LEMMA RegisterIInv ==
  ASSUME IInv, NEW w \in Worker, NEW r \in Identity,
         NEW m \in {"replay", "operate"}, Register(w, r, m)
  PROVE  IInv'
<1> USE DEF IInv, Register, backendVars
<1>1. TypeOK' /\ WorkerStep(w) /\ pc'[w] = "get" /\ cur'[w] = r
  BY DEF TypeOK, WorkerStep, PC, Status
<1>2. /\ \A q \in Identity : status[q] # "absent" => status'[q] = status[q]
      /\ \A q \in Identity : status'[q] = "applied" => status[q] = "applied"
  BY DEF TypeOK
<1>3. BusyOnARow' /\ ClaimHeld'
  BY <1>1, <1>2 DEF WorkerStep, BusyOnARow, ClaimHeld, OwnerPC
<1>4. OneOwner'
  BY <1>1 DEF WorkerStep, OneOwner, OwnerPC
<1>5. StageReached'
  BY <1>1 DEF WorkerStep, StageReached
<1>6. CompletedHeld' /\ TailReached'
  BY <1>1, <1>2 DEF WorkerStep, CompletedHeld, CompletedPC, TailReached, BusyOnARow
<1>7. /\ OutputOfAClaim' /\ ResultsOfOutput'
      /\ AppliedIsPropagated' /\ CertifiedIsCurrent'
  BY <1>2 DEF OutputOfAClaim, ResultsOfOutput, AppliedIsPropagated, CertifiedIsCurrent
<1> QED BY <1>1, <1>3, <1>4, <1>5, <1>6, <1>7

(* The conditional UPDATE claims a row that nobody holds. *)
LEMMA ClaimIInv ==
  ASSUME IInv, NEW w \in Worker, Claim(w)
  PROVE  IInv'
<1> USE DEF IInv, Claim, Claimable, backendVars
<1>1. cur[w] \in Identity /\ attempts[cur[w]] + 1 \in 1 .. MaxAttempts
  BY DEF BusyOnARow, TypeOK
<1>2. TypeOK' /\ WorkerStep(w) /\ pc'[w] = "sqlite" /\ cur'[w] = cur[w]
      /\ held'[w] = attempts[cur[w]] + 1
  BY <1>1 DEF TypeOK, WorkerStep, PC, OwnerPC, Status
<1>3. \A v \in Worker \ {w} : pc[v] \in OwnerPC => cur[v] # cur[w]
  BY DEF ClaimHeld
<1>4. BusyOnARow'
  BY <1>1, <1>2 DEF WorkerStep, BusyOnARow
<1>5. ClaimHeld'
  <2>1. held'[w] = attempts'[cur'[w]] /\ held'[w] # 0 /\ status'[cur'[w]] = "in_progress"
    BY <1>1, <1>2 DEF TypeOK
  <2> QED BY <1>2, <1>3, <2>1 DEF WorkerStep, ClaimHeld
<1>6. OneOwner'
  BY <1>2, <1>3 DEF WorkerStep, OneOwner
<1>7. StageReached'
  <2>1. output'[cur'[w]] < held'[w]
    BY <1>1, <1>2 DEF TypeOK, OutputOfAClaim
  <2> QED BY <1>2, <2>1 DEF WorkerStep, StageReached
<1>8. CompletedHeld' /\ TailReached'
  BY <1>2 DEF WorkerStep, CompletedHeld, CompletedPC, TailReached, BusyOnARow
<1>9. OutputOfAClaim' /\ ResultsOfOutput'
  BY <1>1 DEF OutputOfAClaim, ResultsOfOutput, TypeOK
<1>10. AppliedIsPropagated' /\ CertifiedIsCurrent'
  BY <1>1 DEF AppliedIsPropagated, CertifiedIsCurrent, TypeOK
<1> QED BY <1>2, <1>4, <1>5, <1>6, <1>7, <1>8, <1>9, <1>10

(* A boundary changes the backends of a row nobody else holds and that is   *)
(* not applied; its worker stays the owner and goes where the outcome says. *)
LEMMA OwnerGoesOn ==
  ASSUME IInv, NEW w \in Worker, WorkerStep(w), pc[w] \in OwnerPC, pc'[w] \in OwnerPC,
         cur'[w] = cur[w], held'[w] = held[w],
         UNCHANGED <<rowVars, certified, undone>>,
         output' \in [Identity -> 0 .. MaxAttempts],
         points' \in [Identity -> SUBSET PointClass],
         \A r \in Identity \ {cur[w]} : output'[r] = output[r] /\ points'[r] = points[r],
         output'[cur[w]] \in {output[cur[w]], held[w]}, output[cur[w]] <= held[w],
         pc'[w] # "sqlite",
         pc'[w] \in {"context", "direct", "complete"} => output'[cur[w]] = held[w],
         pc'[w] \in {"direct", "complete"} => "context" \notin points'[cur[w]],
         pc'[w] = "complete" => "direct" \notin points'[cur[w]]
  PROVE  IInv'
<1> USE DEF IInv, WorkerStep, rowVars
<1>1. cur[w] \in Identity /\ status[cur[w]] = "in_progress"
      /\ held[w] = attempts[cur[w]] /\ held[w] # 0
  BY DEF BusyOnARow, ClaimHeld, OwnerPC
<1>2. TypeOK'
  BY DEF TypeOK
<1>3. BusyOnARow' /\ ClaimHeld' /\ OneOwner'
  BY <1>1 DEF BusyOnARow, ClaimHeld, OneOwner, OwnerPC
<1>4. StageReached'
  <2>1. \A v \in Worker \ {w} : pc[v] \in OwnerPC => cur[v] # cur[w] /\ cur[v] \in Identity
    BY DEF OneOwner, BusyOnARow, OwnerPC
  <2> QED BY <2>1 DEF StageReached, OwnerPC
<1>0. \A r \in Identity : output[r] <= output'[r]
  BY <1>1 DEF TypeOK
<1>5. CompletedHeld' /\ TailReached'
  <2>1. CompletedHeld'
    BY DEF CompletedHeld, CompletedPC, OwnerPC
  <2>2. \A v \in Worker : pc'[v] \in {"verify", "reconcile"} =>
          v # w /\ cur[v] \in Identity /\ output[cur[v]] <= output'[cur[v]]
    BY <1>0 DEF OwnerPC, BusyOnARow
  <2> QED BY <2>1, <2>2 DEF TailReached, TypeOK
<1>6. OutputOfAClaim' /\ ResultsOfOutput'
  <2>1. OutputOfAClaim'
    BY <1>1 DEF OutputOfAClaim, TypeOK
  <2>2. \A r \in Identity : results[r] \in Nat /\ output[r] \in Nat /\ output'[r] \in Nat
    BY DEF TypeOK
  <2>3. ResultsOfOutput'
    BY <1>0, <2>2 DEF ResultsOfOutput
  <2> QED BY <2>1, <2>3
<1>7. AppliedIsPropagated' /\ CertifiedIsCurrent'
  BY <1>1 DEF AppliedIsPropagated, CertifiedIsCurrent
<1> QED BY <1>2, <1>3, <1>4, <1>5, <1>6, <1>7

(* A backend that reports its count completes a claim that is still held.   *)
LEMMA BoundaryIInv ==
  ASSUME IInv, NEW w \in Worker,
         SqliteBoundary(w) \/ QdrantContext(w) \/ QdrantDirect(w)
  PROVE  IInv'
<1> USE DEF IInv
<1>1. TypeOK /\ (pc[w] \in OwnerPC => cur[w] \in Identity)
  BY DEF BusyOnARow, OwnerPC
<1>2. CASE SqliteBoundary(w)
  <2>1. pc[w] = "sqlite" /\ pc[w] \in OwnerPC
    BY <1>2 DEF SqliteBoundary, OwnerPC
  <2>2. PICK label \in {"context", "fail"} : Goto(w, label)
    BY <1>2 DEF SqliteBoundary
  <2>3. WorkerStep(w) /\ pc'[w] = label /\ cur'[w] = cur[w] /\ held'[w] = held[w]
    BY <2>2, GotoStep DEF PC, OwnerPC
  <2>4. /\ output' \in [Identity -> 0 .. MaxAttempts]
        /\ \A r \in Identity \ {cur[w]} : output'[r] = output[r]
        /\ output'[cur[w]] \in {output[cur[w]], held[w]}
        /\ label = "context" => output'[cur[w]] = held[w]
    <3>1. Goto(w, "context") => label = "context"
      BY <1>1, <2>1, <2>2, GotoStep DEF PC, OwnerPC
    <3>2. Goto(w, "fail") => label = "fail"
      BY <1>1, <2>1, <2>2, GotoStep DEF PC, OwnerPC
    <3> QED BY <1>1, <1>2, <2>1, <3>1, <3>2 DEF SqliteBoundary, TypeOK
  <2>5. UNCHANGED <<rowVars, points, certified, undone>>
    BY <1>2 DEF SqliteBoundary
  <2>6. output[cur[w]] <= held[w]
    BY <1>1, <2>1 DEF StageReached, TypeOK
  <2> QED BY <2>1, <2>3, <2>4, <2>5, <2>6, OwnerGoesOn DEF OwnerPC, TypeOK
<1>3. ASSUME NEW class \in PointClass, NEW next \in {"direct", "complete"},
             DeletePoints(w, class, next),
             next = IF class = "context" THEN "direct" ELSE "complete"
      PROVE  IInv'
  <2>1. pc[w] = class /\ pc[w] \in OwnerPC
    BY <1>3 DEF DeletePoints, OwnerPC, PointClass
  <2>2. PICK label \in {next, "fail"} : Goto(w, label)
    BY <1>3 DEF DeletePoints
  <2>3. WorkerStep(w) /\ pc'[w] = label /\ cur'[w] = cur[w] /\ held'[w] = held[w]
    BY <2>2, GotoStep DEF PC, OwnerPC
  <2>4. /\ points' \in [Identity -> SUBSET PointClass]
        /\ \A r \in Identity \ {cur[w]} : points'[r] = points[r]
        /\ points'[cur[w]] \subseteq points[cur[w]]
        /\ label = next => class \notin points'[cur[w]]
    <3>1. Goto(w, next) => label = next
      BY <1>1, <2>1, <2>2, GotoStep DEF PC, OwnerPC
    <3>2. Goto(w, "fail") => label = "fail"
      BY <1>1, <2>1, <2>2, GotoStep DEF PC, OwnerPC
    <3> QED BY <1>1, <1>3, <2>1, <3>1, <3>2 DEF DeletePoints, TypeOK
  <2>5. UNCHANGED <<rowVars, output, certified, undone>>
    BY <1>3 DEF DeletePoints
  <2>6. /\ output[cur[w]] = held[w] /\ output[cur[w]] <= held[w]
        /\ class = "direct" => "context" \notin points[cur[w]]
    BY <1>1, <2>1 DEF StageReached, PointClass, TypeOK
  <2> QED BY <1>3, <2>1, <2>3, <2>4, <2>5, <2>6, OwnerGoesOn DEF OwnerPC, TypeOK, PointClass
<1> QED BY <1>2, <1>3 DEF QdrantContext, QdrantDirect, PointClass

(* complete() and fail() name only the identity, but the row they update is *)
(* the one their worker claimed.                                            *)
LEMMA CompleteIInv ==
  ASSUME IInv, NEW w \in Worker, Complete(w)
  PROVE  IInv'
<1> USE DEF IInv, Complete, backendVars
<1>1. /\ cur[w] \in Identity /\ pc[w] \in OwnerPC
      /\ status[cur[w]] = "in_progress" /\ held[w] # 0
      /\ output[cur[w]] = held[w] /\ points[cur[w]] = {}
  BY DEF BusyOnARow, ClaimHeld, StageReached, TypeOK, OwnerPC, PointClass
<1>0. CASE UNCHANGED <<status, results>> /\ Goto(w, "fail")
  <2>1. WorkerStep(w) /\ pc'[w] = "fail" /\ cur'[w] = cur[w] /\ held'[w] = held[w]
    BY <1>0, GotoStep DEF PC, OwnerPC
  <2>2. output[cur[w]] <= held[w]
    BY <1>1 DEF TypeOK
  <2> QED BY <1>0, <1>1, <2>1, <2>2, OwnerGoesOn DEF TypeOK, OwnerPC, rowVars
<1> SUFFICES ASSUME status' = [status EXCEPT ![cur[w]] = "applied"],
                    results' = [results EXCEPT ![cur[w]] = held[w]],
                    Goto(w, "readback")
             PROVE  IInv'
  BY <1>0
<1>2. WorkerStep(w) /\ pc'[w] = "readback" /\ cur'[w] = cur[w]
  BY GotoStep DEF PC
<1>3. TypeOK'
  BY <1>1, <1>2 DEF TypeOK, WorkerStep, Status
<1>4. /\ status' = [status EXCEPT ![cur[w]] = "applied"]
      /\ results' = [results EXCEPT ![cur[w]] = held[w]]
      /\ status'[cur[w]] = "applied" /\ results'[cur[w]] = held[w]
      /\ \A r \in Identity \ {cur[w]} : status'[r] = status[r] /\ results'[r] = results[r]
  BY <1>1 DEF TypeOK
<1>5. \A v \in Worker \ {w} : pc[v] \in OwnerPC => cur[v] # cur[w] /\ cur[v] \in Identity
  BY <1>1 DEF OneOwner, BusyOnARow, OwnerPC
<1>6. BusyOnARow' /\ ClaimHeld' /\ OneOwner'
  BY <1>2, <1>4, <1>5 DEF WorkerStep, BusyOnARow, ClaimHeld, OneOwner, OwnerPC
<1>7. StageReached'
  BY <1>2 DEF WorkerStep, StageReached
<1>8. CompletedHeld' /\ TailReached'
  <2>1. \A v \in Worker \ {w} : pc[v] \in CompletedPC =>
          cur[v] # cur[w] /\ cur[v] \in Identity
    BY <1>1 DEF CompletedHeld, CompletedPC, BusyOnARow
  <2>2. CompletedHeld'
    <3> SUFFICES ASSUME NEW u \in Worker, NEW v \in Worker, pc'[u] \in CompletedPC
                 PROVE  /\ status'[cur'[u]] = "applied"
                        /\ pc'[v] \in CompletedPC /\ cur'[u] = cur'[v] => u = v
      BY DEF CompletedHeld
    <3> QED BY <1>2, <1>4, <2>1 DEF WorkerStep, CompletedHeld
  <2>3. TailReached'
    BY <1>1, <1>2, <1>4 DEF WorkerStep, TailReached, BusyOnARow
  <2> QED BY <2>2, <2>3
<1>9. /\ OutputOfAClaim' /\ ResultsOfOutput'
      /\ AppliedIsPropagated' /\ CertifiedIsCurrent'
  BY <1>1, <1>4 DEF OutputOfAClaim, ResultsOfOutput, AppliedIsPropagated,
                    CertifiedIsCurrent, TypeOK
<1> QED BY <1>3, <1>6, <1>7, <1>8, <1>9

(* A failure is recorded by the claim that met it, or by the worker that    *)
(* completed the row and could not read it back: then the row is undone.    *)
LEMMA FailIInv ==
  ASSUME IInv, NEW w \in Worker, Fail(w)
  PROVE  IInv'
<1> USE DEF IInv, Fail, backendVars
<1>1. /\ cur[w] \in Identity
      /\ \/ pc[w] \in OwnerPC /\ status[cur[w]] = "in_progress" /\ undone' = undone
         \/ /\ pc[w] \in CompletedPC /\ status[cur[w]] = "applied"
            /\ undone' = undone \union {cur[w]}
  BY DEF BusyOnARow, ClaimHeld, CompletedHeld, OwnerPC, CompletedPC
<1>2. WorkerStep(w) /\ pc'[w] = "idle"
  BY LeaveStep
<1>3. TypeOK'
  BY <1>1, <1>2 DEF TypeOK, WorkerStep, Status
<1>4. /\ status'[cur[w]] = "failed"
      /\ \A r \in Identity \ {cur[w]} : status'[r] = status[r]
      /\ undone \subseteq undone' /\ (status[cur[w]] = "applied" => cur[w] \in undone')
  BY <1>1 DEF TypeOK
<1>5. \A v \in Worker \ {w} :
        pc[v] \in OwnerPC \union CompletedPC => cur[v] # cur[w] /\ cur[v] \in Identity
  <2>1. CASE pc[w] \in OwnerPC /\ status[cur[w]] = "in_progress"
    BY <2>1 DEF OneOwner, BusyOnARow, OwnerPC, CompletedHeld, CompletedPC
  <2>2. CASE pc[w] \in CompletedPC /\ status[cur[w]] = "applied"
    BY <2>2 DEF ClaimHeld, BusyOnARow, OwnerPC, CompletedHeld, CompletedPC
  <2> QED BY <1>1, <2>1, <2>2
<1>6. BusyOnARow' /\ ClaimHeld' /\ OneOwner'
  BY <1>2, <1>4, <1>5 DEF WorkerStep, BusyOnARow, ClaimHeld, OneOwner, OwnerPC
<1>7. StageReached'
  BY <1>2 DEF WorkerStep, StageReached
<1>8. CompletedHeld'
  <2> SUFFICES ASSUME NEW u \in Worker, NEW v \in Worker, pc'[u] \in CompletedPC
               PROVE  /\ status'[cur'[u]] = "applied"
                      /\ pc'[v] \in CompletedPC /\ cur'[u] = cur'[v] => u = v
    BY DEF CompletedHeld
  <2>1. u # w /\ pc[u] \in CompletedPC
    BY <1>2 DEF WorkerStep, CompletedPC
  <2> QED BY <1>2, <1>4, <1>5, <2>1 DEF WorkerStep, CompletedHeld, CompletedPC
<1>9. TailReached'
  <2> SUFFICES ASSUME NEW u \in Worker, pc'[u] \in {"verify", "reconcile"}
               PROVE  /\ held'[u] # 0 /\ held'[u] <= output'[cur'[u]]
                      /\ cur'[u] \notin undone' =>
                           status'[cur'[u]] = "applied" /\ held'[u] = results'[cur'[u]]
    BY DEF TailReached
  <2>1. u # w /\ pc[u] \in {"verify", "reconcile"} /\ cur[u] \in Identity
    BY <1>2 DEF WorkerStep, BusyOnARow
  <2> QED BY <1>2, <1>4, <2>1 DEF WorkerStep, TailReached
<1>10. /\ OutputOfAClaim' /\ ResultsOfOutput'
       /\ AppliedIsPropagated' /\ CertifiedIsCurrent'
  BY <1>1, <1>4 DEF OutputOfAClaim, ResultsOfOutput, AppliedIsPropagated, CertifiedIsCurrent
<1> QED BY <1>3, <1>6, <1>7, <1>8, <1>9, <1>10

(* What Verify compared still holds when the manifest is written.           *)
LEMMA ReconcileIInv ==
  ASSUME IInv, NEW w \in Worker, Reconcile(w)
  PROVE  IInv'
<1> USE DEF IInv, Reconcile, rowVars, backendVars
<1>1. /\ cur[w] \in Identity
      /\ cur[w] \notin undone =>
           /\ status[cur[w]] = "applied"
           /\ held[w] = results[cur[w]] /\ output[cur[w]] = results[cur[w]]
  BY DEF BusyOnARow, TailReached, AppliedIsPropagated
<1>2. WorkerStep(w) /\ pc'[w] = "idle"
  BY LeaveStep
<1>3. TypeOK'
  BY <1>1, <1>2 DEF TypeOK, WorkerStep
<1>4. BusyOnARow' /\ ClaimHeld' /\ OneOwner'
  BY <1>2 DEF WorkerStep, BusyOnARow, ClaimHeld, OneOwner, OwnerPC
<1>5. StageReached' /\ CompletedHeld' /\ TailReached'
  BY <1>2 DEF WorkerStep, StageReached, CompletedHeld, CompletedPC, TailReached
<1>6. OutputOfAClaim' /\ ResultsOfOutput' /\ AppliedIsPropagated'
  BY DEF OutputOfAClaim, ResultsOfOutput, AppliedIsPropagated
<1>7. CertifiedIsCurrent'
  BY <1>1 DEF CertifiedIsCurrent, TypeOK
<1> QED BY <1>3, <1>4, <1>5, <1>6, <1>7

(* A recovery whose threshold spares running claims takes no row from its   *)
(* owner.                                                                   *)
LEMMA RecoverIInv ==
  ASSUME IInv, Recover
  PROVE  IInv'
<1> USE DEF IInv
<1>1. PICK before \in 1 .. now + 1 : Quiesced(before) /\ RecoverStale(before)
  BY DEF Recover
<1> USE <1>1 DEF RecoverStale, workerVars, backendVars
<1>2. TypeOK'
  BY DEF TypeOK, Status
<1>3. \A r \in Identity : \/ status'[r] = status[r]
                          \/ /\ status[r] = "in_progress" /\ status'[r] = "pending"
                             /\ \A w \in Worker : ~Holds(w, r)
  BY DEF Stale, Quiesced
<1>4. BusyOnARow' /\ OneOwner' /\ StageReached' /\ OutputOfAClaim' /\ ResultsOfOutput'
  BY DEF BusyOnARow, OneOwner, StageReached, OutputOfAClaim, ResultsOfOutput
<1>5. ClaimHeld'
  BY <1>3 DEF ClaimHeld, Holds, BusyOnARow, OwnerPC
<1>6. CompletedHeld' /\ TailReached'
  BY <1>3 DEF CompletedHeld, CompletedPC, TailReached, BusyOnARow
<1>7. AppliedIsPropagated' /\ CertifiedIsCurrent'
  BY <1>3 DEF AppliedIsPropagated, CertifiedIsCurrent
<1> QED BY <1>2, <1>4, <1>5, <1>6, <1>7

(* Every step keeps the invariant.                                          *)
LEMMA NextIInv == IInv /\ [Next]_vars => IInv'
<1> SUFFICES ASSUME IInv, [Next]_vars PROVE IInv'
  OBVIOUS
<1>1. ASSUME NEW w \in Worker, Enter(w) PROVE IInv'
  BY <1>1, RegisterIInv, ReadingIInv DEF Enter
<1>2. ASSUME NEW w \in Worker, Step(w) PROVE IInv'
  BY <1>2, ReadingIInv, ClaimIInv, BoundaryIInv, CompleteIInv, FailIInv, ReconcileIInv
     DEF Step
<1>3. ASSUME NEW w \in Worker, Stop(w) PROVE IInv'
  BY <1>3, ReadingIInv
<1>4. CASE Recover
  BY <1>4, RecoverIInv
<1>5. CASE UNCHANGED vars
  BY <1>5 DEF vars, rowVars, backendVars, workerVars, IInv, TypeOK, BusyOnARow, ClaimHeld,
              OneOwner, StageReached, CompletedHeld, CompletedPC, TailReached, OutputOfAClaim,
              ResultsOfOutput, AppliedIsPropagated, CertifiedIsCurrent
<1> QED BY <1>1, <1>2, <1>3, <1>4, <1>5 DEF Next

(* The invariant holds in every reachable state.                            *)
THEOREM Invariance == Spec => []IInv
  BY InitIInv, NextIInv, PTL DEF Spec

-----------------------------------------------------------------------------
(* The safety properties. *)

(* Every variable keeps its type.                                           *)
THEOREM TypeCorrect == Spec => []TypeOK
<1>1. IInv => TypeOK
  BY DEF IInv
<1> QED BY <1>1, Invariance, PTL

(* An applied row has been through both boundaries, and the derivative its  *)
(* results describe is the one on disk.                                     *)
THEOREM AppliedSafe == Spec => []AppliedIsPropagated
<1>1. IInv => AppliedIsPropagated
  BY DEF IInv
<1> QED BY <1>1, Invariance, PTL

(* A claim excludes every other worker from the row's boundaries.           *)
THEOREM ClaimExclusive == Spec => []OneClaimant
<1>1. IInv => OneClaimant
  BY DEF IInv, OneClaimant, Holds, ClaimHeld, OneOwner
<1> QED BY <1>1, Invariance, PTL

(* A reconciliation manifest certifies the derivative that is on disk.      *)
THEOREM CertifiedSafe == Spec => []CertifiedIsCurrent
<1>1. IInv => CertifiedIsCurrent
  BY DEF IInv
<1> QED BY <1>1, Invariance, PTL

-----------------------------------------------------------------------------
(* Refinement and finality, step by step.                                   *)

USE DEF Request!vars

(* A step that changes no status, derivative, point or manifest of a row is *)
(* invisible to the abstract specification and settles nothing.             *)
Invisible ==
    /\ \A r \in Identity : RequestOf(status'[r]) = RequestOf(status[r])
    /\ UNCHANGED <<results, output, points, certified, undone>>

(* The body of AppliedIsFinal for one step. *)
FinalStep ==
    \A r \in Identity : status[r] = "applied" =>
        /\ \/ status'[r] = "applied"
           \/ status'[r] = "failed" /\ \E w \in Worker : Unread(w, r) /\ pc'[w] = "idle"
        /\ <<results'[r], output'[r], points'[r]>> = <<results[r], output[r], points[r]>>

(* A step that the abstract request does not show is a stutter of it.       *)
LEMMA InvisibleStep ==
  ASSUME IInv, IInv', Invisible
  PROVE  UNCHANGED Request!vars /\ FinalStep
<1>1. [r \in Identity |-> RequestOf(status[r])]' = [r \in Identity |-> RequestOf(status[r])]
  BY DEF Invisible
<1>2. \A r \in Identity : status[r] = "applied" => status'[r] = "applied"
  BY DEF Invisible, RequestOf
<1> QED BY <1>1, <1>2 DEF Invisible, FinalStep

(* Registration opens a request, or finds it there. *)
LEMMA RegisterStep ==
  ASSUME IInv, IInv', NEW w \in Worker, NEW r \in Identity,
         NEW m \in {"replay", "operate"}, Register(w, r, m)
  PROVE  [Request!Next]_(Request!vars) /\ FinalStep
<1> USE DEF Register, backendVars
<1>1. CASE status[r] = "absent"
  <2>1. Request!Open(r)
    <3>1. \A q \in Identity : status'[q] = IF q = r THEN "pending" ELSE status[q]
      BY <1>1 DEF IInv, TypeOK
    <3>2. [q \in Identity |-> RequestOf(status'[q])]
            = [[q \in Identity |-> RequestOf(status[q])] EXCEPT ![r] = "open"]
      BY <3>1 DEF RequestOf
    <3> QED BY <1>1, <3>2 DEF Request!Open, RequestOf
  <2>2. FinalStep
    BY <1>1 DEF FinalStep, IInv, TypeOK
  <2> QED BY <2>1, <2>2 DEF Request!Next
<1>2. CASE status[r] # "absent"
  BY <1>2, InvisibleStep DEF Invisible
<1> QED BY <1>1, <1>2

(* The first boundary starts a new generation of the derivative. *)
LEMMA SqliteStep ==
  ASSUME IInv, IInv', NEW w \in Worker, SqliteBoundary(w)
  PROVE  [Request!Next]_(Request!vars) /\ FinalStep
<1> USE DEF IInv
<1>1. /\ cur[w] \in Identity /\ status[cur[w]] = "in_progress"
      /\ output[cur[w]] < held[w] /\ held[w] \in 1 .. MaxAttempts
  BY DEF SqliteBoundary, BusyOnARow, ClaimHeld, StageReached, OwnerPC, TypeOK
<1>2. UNCHANGED <<rowVars, points, certified, undone>>
  BY DEF SqliteBoundary
<1>3. CASE output' = output
  BY <1>2, <1>3, InvisibleStep DEF Invisible, rowVars
<1>4. CASE output' = [output EXCEPT ![cur[w]] = held[w]]
  <2>1. Request!Rewrite(cur[w])
    BY <1>1, <1>2, <1>4 DEF Request!Rewrite, RequestOf, TypeOK, rowVars
  <2>2. FinalStep
    BY <1>1, <1>2, <1>4 DEF FinalStep, TypeOK, rowVars
  <2> QED BY <1>1, <2>1, <2>2 DEF Request!Next
<1> QED BY <1>3, <1>4 DEF SqliteBoundary

(* The second removes points of an open request whose derivative exists. *)
LEMMA QdrantStep ==
  ASSUME IInv, IInv', NEW w \in Worker, QdrantContext(w) \/ QdrantDirect(w)
  PROVE  [Request!Next]_(Request!vars) /\ FinalStep
<1> USE DEF IInv
<1>1. PICK class \in PointClass : \E next \in {"direct", "complete"} : DeletePoints(w, class, next)
  BY DEF QdrantContext, QdrantDirect, PointClass
<1>2. /\ cur[w] \in Identity /\ status[cur[w]] = "in_progress"
      /\ output[cur[w]] # 0
  BY <1>1 DEF DeletePoints, BusyOnARow, ClaimHeld, StageReached, OwnerPC, TypeOK, PointClass
<1>3. UNCHANGED <<rowVars, output, certified, undone>>
  BY <1>1 DEF DeletePoints
<1>4. CASE points' = points
  BY <1>3, <1>4, InvisibleStep DEF Invisible, rowVars
<1>5. CASE points' = [points EXCEPT ![cur[w]] = @ \ {class}]
  <2>1. Request!Remove(cur[w], class)
    BY <1>2, <1>3, <1>5 DEF Request!Remove, RequestOf, TypeOK, rowVars
  <2>2. FinalStep
    BY <1>2, <1>3, <1>5 DEF FinalStep, TypeOK, rowVars
  <2> QED BY <1>2, <2>1, <2>2 DEF Request!Next
<1> QED BY <1>1, <1>4, <1>5 DEF DeletePoints

(* complete() settles the request. *)
LEMMA CompleteStep ==
  ASSUME IInv, IInv', NEW w \in Worker, Complete(w)
  PROVE  [Request!Next]_(Request!vars) /\ FinalStep
<1> USE DEF IInv, Complete, backendVars
<1>1. /\ cur[w] \in Identity /\ status[cur[w]] = "in_progress"
      /\ output[cur[w]] # 0 /\ points[cur[w]] = {}
  BY DEF BusyOnARow, ClaimHeld, StageReached, TypeOK, OwnerPC, PointClass
<1>2. CASE UNCHANGED <<status, results>>
  BY <1>2, InvisibleStep DEF Invisible
<1>3. CASE /\ status' = [status EXCEPT ![cur[w]] = "applied"]
           /\ results' = [results EXCEPT ![cur[w]] = held[w]]
  <2>1. Request!Settle(cur[w])
    BY <1>1, <1>3 DEF Request!Settle, RequestOf, TypeOK
  <2>2. FinalStep
    BY <1>1, <1>3 DEF FinalStep, TypeOK
  <2> QED BY <1>1, <2>1, <2>2 DEF Request!Next
<1> QED BY <1>2, <1>3

(* Writing the manifest certifies the current derivative, or an earlier one *)
(* of a request that was reopened.                                          *)
LEMMA ReconcileStep ==
  ASSUME IInv, IInv', NEW w \in Worker, Reconcile(w)
  PROVE  [Request!Next]_(Request!vars) /\ FinalStep
<1> USE DEF IInv, Reconcile, rowVars, backendVars
<1>1. /\ cur[w] \in Identity /\ held[w] \in 1 .. output[cur[w]]
      /\ cur[w] \notin undone => status[cur[w]] = "applied" /\ held[w] = output[cur[w]]
  BY DEF BusyOnARow, TailReached, AppliedIsPropagated, TypeOK
<1>2. CASE cur[w] \notin undone
  <2>1. Request!Certify(cur[w])
    BY <1>1, <1>2 DEF Request!Certify, RequestOf, TypeOK
  <2> QED BY <1>1, <2>1 DEF Request!Next, FinalStep
<1>3. CASE cur[w] \in undone
  <2>1. Request!CertifyReopened(cur[w])
    BY <1>1, <1>3 DEF Request!CertifyReopened
  <2> QED BY <1>1, <2>1 DEF Request!Next, FinalStep
<1> QED BY <1>2, <1>3

(* Claims, recoveries and the failure of a claimed row move it between      *)
(* states that are all "open" to the abstract specification.                *)
LEMMA OpenStep ==
  ASSUME IInv, IInv',
         \/ \E w \in Worker : Claim(w) \/ (Fail(w) /\ pc[w] = "fail")
         \/ Recover
  PROVE  [Request!Next]_(Request!vars) /\ FinalStep
<1> USE DEF IInv
<1>1. ASSUME NEW w \in Worker, Claim(w) PROVE Invisible
  BY <1>1 DEF Claim, Claimable, Invisible, RequestOf, TypeOK, BusyOnARow, backendVars
<1>2. ASSUME NEW w \in Worker, Fail(w), pc[w] = "fail" PROVE Invisible
  <2>1. cur[w] \in Identity /\ status[cur[w]] = "in_progress"
    BY <1>2 DEF BusyOnARow, ClaimHeld, OwnerPC
  <2> QED BY <1>2, <2>1 DEF Fail, Invisible, RequestOf, TypeOK, backendVars
<1>3. CASE Recover
  BY <1>3, InvisibleStep DEF Recover, RecoverStale, Stale, Invisible, RequestOf, backendVars
<1> QED BY <1>1, <1>2, <1>3, InvisibleStep

(* A completion undone by its own worker reopens the request.               *)
LEMMA UndoStep ==
  ASSUME IInv, IInv', NEW w \in Worker, Fail(w), pc[w] = "unread"
  PROVE  [Request!Next]_(Request!vars) /\ FinalStep
<1> USE DEF IInv, Fail, backendVars
<1>1. cur[w] \in Identity /\ status[cur[w]] = "applied" /\ pc'[w] = "idle"
  BY LeaveStep DEF BusyOnARow, CompletedHeld, CompletedPC
<1>2. \A r \in Identity : status'[r] = IF r = cur[w] THEN "failed" ELSE status[r]
  BY <1>1 DEF TypeOK
<1>3. Request!Reopen(cur[w])
  <2>1. \A r \in Identity :
          RequestOf(status'[r]) = IF r = cur[w] THEN "open" ELSE RequestOf(status[r])
    BY <1>2 DEF RequestOf
  <2>2. [r \in Identity |-> RequestOf(status'[r])]
          = [[r \in Identity |-> RequestOf(status[r])] EXCEPT ![cur[w]] = "open"]
    BY <2>1
  <2>3. undone' = undone \union {cur[w]}
    BY <1>1
  <2> QED BY <1>1, <2>2, <2>3 DEF Request!Reopen, RequestOf
<1>4. FinalStep
  BY <1>1, <1>2 DEF FinalStep, Unread
<1> QED BY <1>1, <1>3, <1>4 DEF Request!Next

(* Every other step reads. *)
LEMMA ReadingStep ==
  ASSUME IInv, IInv', NEW w \in Worker,
         ReplayPending(w) \/ Get(w) \/ ClaimRefused(w) \/ ReadBack(w)
           \/ ReadBackRaises(w) \/ Verify(w) \/ Stop(w)
  PROVE  [Request!Next]_(Request!vars) /\ FinalStep
<1>1. UNCHANGED <<rowVars, backendVars, certified, undone>>
  BY DEF ReplayPending, Get, ClaimRefused, ReadBack, ReadBackRaises, Verify, Stop
<1> QED BY <1>1, InvisibleStep DEF Invisible, rowVars, backendVars

(* Every step of the outbox is one of the abstract request, and takes back  *)
(* no completion but the one its own worker could not read back.            *)
LEMMA EveryStep ==
  IInv /\ IInv' /\ [Next]_vars => [Request!Next]_(Request!vars) /\ FinalStep
<1> SUFFICES ASSUME IInv, IInv', [Next]_vars
             PROVE  [Request!Next]_(Request!vars) /\ FinalStep
  OBVIOUS
<1>1. ASSUME NEW w \in Worker, Enter(w) \/ Step(w) \/ Stop(w)
      PROVE  [Request!Next]_(Request!vars) /\ FinalStep
  <2>1. Fail(w) => pc[w] \in {"fail", "unread"}
    BY DEF Fail
  <2> QED BY <1>1, <2>1, RegisterStep, SqliteStep, QdrantStep, CompleteStep, ReconcileStep,
             OpenStep, UndoStep, ReadingStep DEF Enter, Step
<1>2. CASE Recover
  BY <1>2, OpenStep
<1>3. CASE UNCHANGED vars
  <2>1. Invisible
    BY <1>3 DEF vars, rowVars, backendVars, Invisible
  <2> QED BY <2>1, InvisibleStep
<1> QED BY <1>1, <1>2, <1>3 DEF Next

(* No other actor undoes an applied row or touches its backends; a failed   *)
(* read-back of its own worker makes it failed and changes nothing else.    *)
THEOREM AppliedFinal == Spec => AppliedIsFinal
<1>1. IInv /\ IInv' /\ [Next]_vars =>
        [\A r \in Identity : status[r] = "applied" =>
           /\ \/ status'[r] = "applied"
              \/ status'[r] = "failed" /\ \E w \in Worker : Unread(w, r) /\ pc'[w] = "idle"
           /\ <<results'[r], output'[r], points'[r]>> = <<results[r], output[r], points[r]>>
        ]_vars
  BY EveryStep DEF FinalStep
<1> QED BY <1>1, Invariance, PTL DEF Spec, AppliedIsFinal

(* The outbox and its operators implement the abstract deletion request.    *)
THEOREM Refinement == Spec => ImplementsRequest
<1>1. Init => Request!Init
  BY DEF Init, Request!Init, RequestOf
<1>2. IInv /\ IInv' /\ [Next]_vars => [Request!Next]_(Request!vars)
  BY EveryStep
<1> QED BY <1>1, <1>2, Invariance, PTL DEF Spec, ImplementsRequest, Request!Spec

=============================================================================
