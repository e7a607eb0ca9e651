------------------------- MODULE ReviewWorkspace_proofs -------------------------
(***************************************************************************)
(* What the review workspace promises, for any rows, pages and number of   *)
(* annotations and failures.  Along the life of an annotation it is first  *)
(* in a row, then in the file, then answered: each of the three lags       *)
(* behind the one before, whatever fails between them.                     *)
(***************************************************************************)
EXTENDS ReviewWorkspace, TLAPS

(* acked, then the file, then the rows; no annotation is beyond the count.   *)
Ordered ==
    /\ \A t \in Task : acked[t] <= file[t] /\ file[t] <= count /\ rows[t] <= count
    /\ queue # {} => \A t \in Task : file[t] <= rows[t]

(* Without a server there is no request; the lock is held while a row is     *)
(* ahead of the file on purpose.                                             *)
LockHeld ==
    /\ queue = {} => lock = None /\ \A c \in Client : req[c].pc = "idle"
    /\ \A c \in Client : req[c].pc \in {"write", "saved"} <=> lock = c

(* The annotation of a save is where its phase says it is. *)
SaveReached(c) ==
    /\ req[c].pc = "write" => req[c].n <= rows[req[c].task]
    /\ req[c].pc \in {"saved", "answer"} => req[c].n <= file[req[c].task]

(* What a page asked after was answered before. *)
FloorReached(c) ==
    /\ req[c].pc \in {"load", "dump"} => \A t \in Task : req[c].floor[t] <= acked[t]
    /\ req[c].pc = "dump" => \A t \in DOMAIN req[c].seen : req[c].seen[t] >= req[c].floor[t]

IInv ==
    /\ TypeOK
    /\ Ordered
    /\ LockHeld
    /\ \A c \in Client : SaveReached(c)
    /\ \A c \in Client : FloorReached(c)

-----------------------------------------------------------------------------
(* The phase of a request gives its locals (workspace.py:58-84).             *)
LEMMA Locals ==
    ASSUME NEW q \in Request
    PROVE  /\ q.pc \in {"idle", "save", "write", "saved", "answer", "load", "dump"}
           /\ q.pc = "save" => q \in Saving
           /\ q.pc \in {"write", "saved", "answer"} => q \in Written
           /\ q.pc = "load" => q \in Loading
           /\ q.pc = "dump" => q \in Dumping
    BY DEF Request, Idle, Saving, Written, Loading, Dumping

(* The rows a response has so far are a function into the annotations.       *)
LEMMA SeenType ==
    ASSUME NEW q \in Dumping
    PROVE  /\ DOMAIN q.seen \subseteq Task
           /\ q.seen \in [DOMAIN q.seen -> Annotation]
  <1>1. PICK S \in SUBSET Task : q.seen \in [S -> Annotation]
    BY DEF Dumping
  <1> QED BY <1>1

(* Nothing was saved yet (workspace.py:137).                                 *)
LEMMA Initially == Init => IInv
  <1> SUFFICES ASSUME Init PROVE IInv
    OBVIOUS
  <1> USE DEF Init, Annotation
  <1>1. TypeOK BY DEF TypeOK, Request
  <1>2. Ordered BY DEF Ordered
  <1>3. LockHeld BY ClientAssumption DEF LockHeld, Idle
  <1>4. \A c \in Client : SaveReached(c) /\ FloorReached(c)
    BY DEF SaveReached, FloorReached, Idle
  <1> QED BY <1>1, <1>2, <1>3, <1>4 DEF IInv

(* A start reads the file: the rows are as far as it is (workspace.py:138).  *)
LEMMA StartServerPreserves == IInv /\ StartServer => IInv'
  <1> SUFFICES ASSUME IInv, StartServer PROVE IInv'
    OBVIOUS
  <1> USE DEF IInv, StartServer, server
  <1>1. queue' \subseteq Task OBVIOUS
  <1>2. TypeOK' BY <1>1 DEF TypeOK
  <1>3. Ordered' BY DEF Ordered, TypeOK, Annotation
  <1>4. lock = None /\ (\A c \in Client : req[c].pc = "idle")
    BY DEF LockHeld
  <1>5. LockHeld' BY <1>4 DEF LockHeld
  <1>6. \A c \in Client : SaveReached(c)' /\ FloorReached(c)'
    BY <1>4 DEF SaveReached, FloorReached
  <1> QED BY <1>2, <1>3, <1>5, <1>6

(* The end of the server takes all requests with it.                         *)
LEMMA StopServerPreserves == IInv /\ StopServer => IInv'
  <1> SUFFICES ASSUME IInv, StopServer PROVE IInv'
    OBVIOUS
  <1> USE DEF IInv, StopServer, server
  <1>1. TypeOK' BY DEF TypeOK, Request
  <1>2. Ordered' BY DEF Ordered
  <1>3. LockHeld' BY ClientAssumption DEF LockHeld, Idle
  <1>4. \A c \in Client : SaveReached(c)' /\ FloorReached(c)'
    BY DEF SaveReached, FloorReached, Idle
  <1> QED BY <1>1, <1>2, <1>3, <1>4

-----------------------------------------------------------------------------
(* The steps of a request.                                                  *)

(* A request is accepted (workspace.py:249-269).                             *)
LEMMA PostPreserves ==
    ASSUME NEW c \in Client, IInv, Post(c)
    PROVE  IInv'
  <1> USE DEF IInv, Post, server
  <1>1. req[c] \in Request BY DEF TypeOK
  <1>2. queue # {} BY DEF LockHeld
  <1>3. PICK t \in Task : req' = [req EXCEPT ![c] = [pc |-> "save", task |-> t]]
    BY DEF Tasks, TypeOK
  <1>4. TypeOK' BY <1>1, <1>3 DEF TypeOK, Annotation, Request, Idle, Saving, Written, Loading, Dumping
  <1>5. Ordered' BY <1>1, <1>2, <1>3 DEF Ordered, TypeOK, Annotation, Written
  <1>6. LockHeld' BY <1>1, <1>2, ClientAssumption, <1>3 DEF LockHeld, TypeOK, Idle, Written
  <1>7. ASSUME NEW k \in Client PROVE SaveReached(k)'
    <2>1. req[k] \in Request BY DEF TypeOK
    <2>2. SaveReached(k) OBVIOUS
    <2> QED BY <1>1, <1>2, <2>1, <2>2, Locals, <1>3 DEF SaveReached, LockHeld, Ordered, TypeOK, Annotation, Idle, Written
  <1>8. ASSUME NEW k \in Client PROVE FloorReached(k)'
    <2>1. req[k] \in Request BY DEF TypeOK
    <2>2. FloorReached(k) OBVIOUS
    <2> QED BY <1>1, <1>2, <2>1, <2>2, Locals, <1>3 DEF FloorReached, Ordered, TypeOK, Annotation, Idle, Written, Loading, Dumping
  <1> QED BY <1>4, <1>5, <1>6, <1>7, <1>8

(* The row of a save is put ahead of the file (workspace.py:271).           *)
LEMMA SetAnnotationPreserves ==
    ASSUME NEW c \in Client, IInv, SetAnnotation(c)
    PROVE  IInv'
  <1> USE DEF IInv, SetAnnotation, server
  <1>1. req[c] \in Request BY DEF TypeOK
  <1>2. queue # {} BY DEF LockHeld
  <1>3. req[c] \in Saving
    BY <1>1, Locals
  <1>4. TypeOK' BY <1>1, <1>3 DEF TypeOK, Annotation, Request, Idle, Saving, Written, Loading, Dumping
  <1>5. Ordered' BY <1>1, <1>2, <1>3 DEF Ordered, TypeOK, Annotation, Written
  <1>6. LockHeld' BY <1>1, <1>2, ClientAssumption, <1>3 DEF LockHeld, TypeOK, Idle, Written
  <1>7. ASSUME NEW k \in Client PROVE SaveReached(k)'
    <2>1. CASE k = c
      <3>1. req'[c].n = count' /\ req'[c].task = req[c].task /\ req'[c].pc = "write"
        BY <1>1 DEF TypeOK
      <3>2. rows'[req[c].task] = count' /\ count' \in Nat
        BY <1>3 DEF TypeOK, Saving, Annotation
      <3> QED BY <2>1, <3>1, <3>2 DEF SaveReached
    <2>2. CASE k # c
      <3>1. req'[k] = req[k] /\ req[k].pc # "write"
        BY <2>2, ClientAssumption DEF LockHeld, TypeOK
      <3>2. SaveReached(k) OBVIOUS
      <3> QED BY <3>1, <3>2 DEF SaveReached
    <2> QED BY <2>1, <2>2
  <1>8. ASSUME NEW k \in Client PROVE FloorReached(k)'
    <2>1. req[k] \in Request BY DEF TypeOK
    <2>2. FloorReached(k) OBVIOUS
    <2> QED BY <1>1, <1>2, <2>1, <2>2, Locals, <1>3 DEF FloorReached, Ordered, TypeOK, Annotation, Idle, Written, Loading, Dumping
  <1> QED BY <1>4, <1>5, <1>6, <1>7, <1>8

(* The file catches up with every row (workspace.py:278).                   *)
LEMMA WriteWorksheetPreserves ==
    ASSUME NEW c \in Client, IInv, WriteWorksheet(c)
    PROVE  IInv'
  <1> USE DEF IInv, WriteWorksheet, server
  <1>1. req[c] \in Request BY DEF TypeOK
  <1>2. queue # {} BY DEF LockHeld
  <1>3. req[c] \in Written
    BY <1>1, Locals
  <1>4. TypeOK' BY <1>1, <1>3 DEF TypeOK, Annotation, Request, Idle, Saving, Written, Loading, Dumping
  <1>5. Ordered' BY <1>1, <1>2, <1>3 DEF Ordered, TypeOK, Annotation, Written
  <1>6. LockHeld' BY <1>1, <1>2, ClientAssumption, <1>3 DEF LockHeld, TypeOK, Idle, Written
  <1>7. ASSUME NEW k \in Client PROVE SaveReached(k)'
    <2>1. req[k] \in Request BY DEF TypeOK
    <2>2. SaveReached(k) OBVIOUS
    <2> QED BY <1>1, <1>2, <2>1, <2>2, Locals, <1>3 DEF SaveReached, LockHeld, Ordered, TypeOK, Annotation, Idle, Written
  <1>8. ASSUME NEW k \in Client PROVE FloorReached(k)'
    <2>1. req[k] \in Request BY DEF TypeOK
    <2>2. FloorReached(k) OBVIOUS
    <2> QED BY <1>1, <1>2, <2>1, <2>2, Locals, <1>3 DEF FloorReached, Ordered, TypeOK, Annotation, Idle, Written, Loading, Dumping
  <1> QED BY <1>4, <1>5, <1>6, <1>7, <1>8

(* A failing write moves nothing but the lock (workspace.py:270-278).       *)
LEMMA WriteFailsPreserves ==
    ASSUME NEW c \in Client, IInv, WriteFails(c)
    PROVE  IInv'
  <1> USE DEF IInv, WriteFails, server
  <1>1. req[c] \in Request BY DEF TypeOK
  <1>2. queue # {} BY DEF LockHeld
  <1>4. TypeOK' BY <1>1 DEF TypeOK, Annotation, Request, Idle, Saving, Written, Loading, Dumping
  <1>5. Ordered' BY <1>1, <1>2 DEF Ordered, TypeOK, Annotation, Written
  <1>6. LockHeld' BY <1>1, <1>2, ClientAssumption DEF LockHeld, TypeOK, Idle, Written
  <1>7. ASSUME NEW k \in Client PROVE SaveReached(k)'
    <2>1. req[k] \in Request BY DEF TypeOK
    <2>2. SaveReached(k) OBVIOUS
    <2> QED BY <1>1, <1>2, <2>1, <2>2, Locals DEF SaveReached, LockHeld, Ordered, TypeOK, Annotation, Idle, Written
  <1>8. ASSUME NEW k \in Client PROVE FloorReached(k)'
    <2>1. req[k] \in Request BY DEF TypeOK
    <2>2. FloorReached(k) OBVIOUS
    <2> QED BY <1>1, <1>2, <2>1, <2>2, Locals DEF FloorReached, Ordered, TypeOK, Annotation, Idle, Written, Loading, Dumping
  <1> QED BY <1>4, <1>5, <1>6, <1>7, <1>8

(* The lock is released after the write (workspace.py:270-278).             *)
LEMMA ReleasePreserves ==
    ASSUME NEW c \in Client, IInv, Release(c)
    PROVE  IInv'
  <1> USE DEF IInv, Release, server
  <1>1. req[c] \in Request BY DEF TypeOK
  <1>2. queue # {} BY DEF LockHeld
  <1>3. req[c] \in Written
    BY <1>1, Locals
  <1>4. TypeOK' BY <1>1, <1>3 DEF TypeOK, Annotation, Request, Idle, Saving, Written, Loading, Dumping
  <1>5. Ordered' BY <1>1, <1>2, <1>3 DEF Ordered, TypeOK, Annotation, Written
  <1>6. LockHeld' BY <1>1, <1>2, ClientAssumption, <1>3 DEF LockHeld, TypeOK, Idle, Written
  <1>7. ASSUME NEW k \in Client PROVE SaveReached(k)'
    <2>1. req[k] \in Request BY DEF TypeOK
    <2>2. SaveReached(k) OBVIOUS
    <2> QED BY <1>1, <1>2, <2>1, <2>2, Locals, <1>3 DEF SaveReached, LockHeld, Ordered, TypeOK, Annotation, Idle, Written
  <1>8. ASSUME NEW k \in Client PROVE FloorReached(k)'
    <2>1. req[k] \in Request BY DEF TypeOK
    <2>2. FloorReached(k) OBVIOUS
    <2> QED BY <1>1, <1>2, <2>1, <2>2, Locals, <1>3 DEF FloorReached, Ordered, TypeOK, Annotation, Idle, Written, Loading, Dumping
  <1> QED BY <1>4, <1>5, <1>6, <1>7, <1>8

(* What is answered is in the file (workspace.py:84).                       *)
LEMMA AnswerSavedPreserves ==
    ASSUME NEW c \in Client, IInv, AnswerSaved(c)
    PROVE  IInv'
  <1> USE DEF IInv, AnswerSaved, server
  <1>1. req[c] \in Request BY DEF TypeOK
  <1>2. queue # {} BY DEF LockHeld
  <1>3. req[c] \in Written
    BY <1>1, Locals
  <1>4. TypeOK'
    <2>1. acked' \in [Task -> Annotation]
      BY <1>1, <1>3 DEF TypeOK, Annotation, Written
    <2>2. req' \in [Client -> Request]
      BY DEF TypeOK, Request
    <2>3. file' = file /\ rows' = rows /\ queue' = queue /\ lock' = lock /\ count' = count
      OBVIOUS
    <2> HIDE DEF IInv, AnswerSaved, server
    <2>4. TypeOK BY DEF IInv
    <2> QED BY <2>1, <2>2, <2>3, <2>4 DEF TypeOK
  <1>5. Ordered' BY <1>1, <1>2, <1>3 DEF Ordered, SaveReached, TypeOK, Annotation, Written
  <1>6. LockHeld' BY <1>1, <1>2, ClientAssumption, <1>3 DEF LockHeld, TypeOK, Idle, Written
  <1>7. ASSUME NEW k \in Client PROVE SaveReached(k)'
    <2>1. req[k] \in Request BY DEF TypeOK
    <2>2. SaveReached(k) OBVIOUS
    <2> QED BY <1>1, <1>2, <2>1, <2>2, Locals, <1>3 DEF SaveReached, LockHeld, Ordered, TypeOK, Annotation, Idle, Written
  <1>8. ASSUME NEW k \in Client PROVE FloorReached(k)'
    <2>1. req[k] \in Request BY DEF TypeOK
    <2>2. FloorReached(k) OBVIOUS
    <2> QED BY <1>1, <1>2, <2>1, <2>2, Locals, <1>3 DEF FloorReached, Ordered, TypeOK, Annotation, Idle, Written, Loading, Dumping
  <1> QED BY <1>4, <1>5, <1>6, <1>7, <1>8

(* A page asks for the rows (workspace.py:62).                              *)
LEMMA GetPreserves ==
    ASSUME NEW c \in Client, IInv, Get(c)
    PROVE  IInv'
  <1> USE DEF IInv, Get, server
  <1>1. req[c] \in Request BY DEF TypeOK
  <1>2. queue # {} BY DEF LockHeld
  <1>4. TypeOK' BY <1>1 DEF TypeOK, Annotation, Request, Idle, Saving, Written, Loading, Dumping
  <1>5. Ordered' BY <1>1, <1>2 DEF Ordered, TypeOK, Annotation, Written
  <1>6. LockHeld' BY <1>1, <1>2, ClientAssumption DEF LockHeld, TypeOK, Idle, Written
  <1>7. ASSUME NEW k \in Client PROVE SaveReached(k)'
    <2>1. req[k] \in Request BY DEF TypeOK
    <2>2. SaveReached(k) OBVIOUS
    <2> QED BY <1>1, <1>2, <2>1, <2>2, Locals DEF SaveReached, LockHeld, Ordered, TypeOK, Annotation, Idle, Written
  <1>8. ASSUME NEW k \in Client PROVE FloorReached(k)'
    <2>1. req[k] \in Request BY DEF TypeOK
    <2>2. FloorReached(k) OBVIOUS
    <2> QED BY <1>1, <1>2, <2>1, <2>2, Locals DEF FloorReached, Ordered, TypeOK, Annotation, Idle, Written, Loading, Dumping
  <1> QED BY <1>4, <1>5, <1>6, <1>7, <1>8

(* The rows are collected under the lock (workspace.py:240-247).            *)
LEMMA SnapshotPreserves ==
    ASSUME NEW c \in Client, IInv, Snapshot(c)
    PROVE  IInv'
  <1> USE DEF IInv, Snapshot, server
  <1>1. req[c] \in Request BY DEF TypeOK
  <1>2. queue # {} BY DEF LockHeld
  <1>3. req[c] \in Loading
    BY <1>1, Locals
  <1>4. TypeOK'
    <2>1. [t \in {} |-> 0] \in [{} -> Annotation]
      BY DEF Annotation
    <2>2. [t \in {} |-> 0] \in UNION {[S -> Annotation] : S \in SUBSET Task}
      BY <2>1
    <2>3. [pc |-> "dump", floor |-> req[c].floor, left |-> queue, seen |-> [t \in {} |-> 0]]
             \in Request
      BY <1>3, <2>2 DEF Request, Loading, Dumping, TypeOK
    <2>4. req' \in [Client -> Request]
      BY <2>3 DEF TypeOK
    <2> QED BY <2>4 DEF TypeOK
  <1>5. Ordered' BY <1>1, <1>2, <1>3 DEF Ordered, TypeOK, Annotation, Written
  <1>6. LockHeld' BY <1>1, <1>2, ClientAssumption, <1>3 DEF LockHeld, TypeOK, Idle, Written
  <1>7. ASSUME NEW k \in Client PROVE SaveReached(k)'
    <2>1. req[k] \in Request BY DEF TypeOK
    <2>2. SaveReached(k) OBVIOUS
    <2> QED BY <1>1, <1>2, <2>1, <2>2, Locals, <1>3 DEF SaveReached, LockHeld, Ordered, TypeOK, Annotation, Idle, Written
  <1>8. ASSUME NEW k \in Client PROVE FloorReached(k)'
    <2>1. req[k] \in Request BY DEF TypeOK
    <2>2. FloorReached(k) OBVIOUS
    <2> QED BY <1>1, <1>2, <2>1, <2>2, Locals, <1>3 DEF FloorReached, Ordered, TypeOK, Annotation, Idle, Written, Loading, Dumping
  <1> QED BY <1>4, <1>5, <1>6, <1>7, <1>8

(* A row is as far as the file, and the file as what was answered.          *)
LEMMA DumpRowPreserves ==
    ASSUME NEW c \in Client, IInv, DumpRow(c)
    PROVE  IInv'
  <1> USE DEF IInv, DumpRow, server
  <1>1. req[c] \in Request BY DEF TypeOK
  <1>2. queue # {} BY DEF LockHeld
  <1>3. req[c] \in Dumping
    BY <1>1, Locals
  <1>4. TypeOK'
    <2>1. PICK t \in req[c].left : req' = [req EXCEPT
             ![c].left = @ \ {t},
             ![c].seen = [u \in DOMAIN @ \union {t} |-> IF u = t THEN rows[t] ELSE @[u]]]
      OBVIOUS
    <2> DEFINE S == DOMAIN req[c].seen \union {t}
               seen == [u \in S |-> IF u = t THEN rows[t] ELSE req[c].seen[u]]
    <2>2. t \in Task /\ S \in SUBSET Task
      BY <1>3, SeenType DEF Dumping
    <2>3. seen \in [S -> Annotation]
      BY <1>3, <2>2, SeenType DEF TypeOK
    <2>4. [req[c] EXCEPT !.left = @ \ {t}, !.seen = seen] \in Dumping
      <3> HIDE DEF seen, S
      <3>1. seen \in UNION {[R -> Annotation] : R \in SUBSET Task}
        BY <2>2, <2>3
      <3> QED BY <1>3, <3>1 DEF Dumping
    <2>5. req' \in [Client -> Request]
      <3>1. req'[c] = [req[c] EXCEPT !.left = @ \ {t}, !.seen = seen]
        BY <2>1, <1>1 DEF TypeOK
      <3>2. req' = [req EXCEPT ![c] = [req[c] EXCEPT !.left = @ \ {t}, !.seen = seen]]
        BY <2>1
      <3> QED BY <2>4, <3>2 DEF TypeOK, Request
    <2> QED BY <2>5 DEF TypeOK
  <1>5. Ordered' BY <1>1, <1>2, <1>3, SeenType DEF Ordered, TypeOK, Annotation, Written
  <1>6. LockHeld' BY <1>1, <1>2, ClientAssumption, <1>3, SeenType DEF LockHeld, TypeOK, Idle, Written
  <1>7. ASSUME NEW k \in Client PROVE SaveReached(k)'
    <2>1. req[k] \in Request BY DEF TypeOK
    <2>2. SaveReached(k) OBVIOUS
    <2> QED BY <1>1, <1>2, <2>1, <2>2, Locals, <1>3, SeenType DEF SaveReached, LockHeld, Ordered, TypeOK, Annotation, Idle, Written
  <1>8. ASSUME NEW k \in Client PROVE FloorReached(k)'
    <2>1. req[k] \in Request BY DEF TypeOK
    <2>2. FloorReached(k) OBVIOUS
    <2> QED BY <1>1, <1>2, <2>1, <2>2, Locals, <1>3, SeenType DEF FloorReached, Ordered, TypeOK, Annotation, Idle, Written, Loading, Dumping
  <1> QED BY <1>4, <1>5, <1>6, <1>7, <1>8

(* The answer ends the request (workspace.py:62).                           *)
LEMMA AnswerRowsPreserves ==
    ASSUME NEW c \in Client, IInv, AnswerRows(c)
    PROVE  IInv'
  <1> USE DEF IInv, AnswerRows, server
  <1>1. req[c] \in Request BY DEF TypeOK
  <1>2. queue # {} BY DEF LockHeld
  <1>4. TypeOK' BY <1>1 DEF TypeOK, Annotation, Request, Idle, Saving, Written, Loading, Dumping
  <1>5. Ordered' BY <1>1, <1>2 DEF Ordered, TypeOK, Annotation, Written
  <1>6. LockHeld' BY <1>1, <1>2, ClientAssumption DEF LockHeld, TypeOK, Idle, Written
  <1>7. ASSUME NEW k \in Client PROVE SaveReached(k)'
    <2>1. req[k] \in Request BY DEF TypeOK
    <2>2. SaveReached(k) OBVIOUS
    <2> QED BY <1>1, <1>2, <2>1, <2>2, Locals DEF SaveReached, LockHeld, Ordered, TypeOK, Annotation, Idle, Written
  <1>8. ASSUME NEW k \in Client PROVE FloorReached(k)'
    <2>1. req[k] \in Request BY DEF TypeOK
    <2>2. FloorReached(k) OBVIOUS
    <2> QED BY <1>1, <1>2, <2>1, <2>2, Locals DEF FloorReached, Ordered, TypeOK, Annotation, Idle, Written, Loading, Dumping
  <1> QED BY <1>4, <1>5, <1>6, <1>7, <1>8

-----------------------------------------------------------------------------
(* The invariant is inductive (workspace.py:240-279).                        *)
LEMMA StepPreserves == IInv /\ [Next]_vars => IInv'
  <1> SUFFICES ASSUME IInv, [Next]_vars PROVE IInv'
    OBVIOUS
  <1>1. CASE StartServer BY <1>1, StartServerPreserves
  <1>2. CASE StopServer BY <1>2, StopServerPreserves
  <1>3. ASSUME NEW c \in Client, Post(c) \/ Get(c) \/ Respond(c) \/ WriteFails(c)
        PROVE  IInv'
    BY <1>3, PostPreserves, GetPreserves, SetAnnotationPreserves, WriteWorksheetPreserves,
       WriteFailsPreserves, ReleasePreserves, AnswerSavedPreserves, SnapshotPreserves,
       DumpRowPreserves, AnswerRowsPreserves DEF Respond
  <1>4. CASE UNCHANGED vars
    BY <1>4 DEF vars, server, IInv, TypeOK, Ordered, LockHeld, SaveReached, FloorReached
  <1> QED BY <1>1, <1>2, <1>3, <1>4 DEF Next

(* The rows, the file and the answers stay in order in every state.          *)
THEOREM Invariance == Spec => []IInv
  <1> QED BY Initially, StepPreserves, PTL DEF Spec

(* What was answered "saved" is in the file (workspace.py:270-279).          *)
THEOREM Durable == Spec => []SavedIsDurable
  <1>1. IInv => SavedIsDurable BY DEF IInv, Ordered, SavedIsDurable
  <1> QED BY <1>1, Invariance, PTL

(* What a page gets is not older than what was answered before it asked.     *)
THEOREM Fresh == Spec => []BootstrapIsFresh
  <1>1. IInv => BootstrapIsFresh BY DEF IInv, FloorReached, BootstrapIsFresh
  <1> QED BY <1>1, Invariance, PTL

(* No step takes an annotation out of the worksheet file.                    *)
THEOREM Kept == Spec => RecordsAreKept
  <1>1. IInv /\ [Next]_vars => [\A t \in Task : file'[t] >= file[t]]_file
    <2> SUFFICES ASSUME IInv, [Next]_vars, file' # file
                 PROVE  \A t \in Task : file'[t] >= file[t]
      OBVIOUS
    <2>1. PICK c \in Client : WriteWorksheet(c)
      BY DEF Next, Respond, StartServer, StopServer, Post, Get, SetAnnotation, WriteFails,
             Release, AnswerSaved, Snapshot, DumpRow, AnswerRows, vars
    <2>2. queue # {} BY <2>1 DEF IInv, LockHeld, WriteWorksheet
    <2> QED BY <2>1, <2>2 DEF IInv, Ordered, WriteWorksheet, TypeOK, Annotation
  <1> QED BY <1>1, Invariance, PTL DEF Spec, RecordsAreKept
=============================================================================
