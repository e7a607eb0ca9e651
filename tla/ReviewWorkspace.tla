---------------------------- MODULE ReviewWorkspace ----------------------------
(***************************************************************************)
(* The review workspace (review/workspace.py): a server with one thread    *)
(* per request, the rows of a worksheet in its memory, and the worksheet   *)
(* file, which every saved annotation replaces.  One server runs at a time *)
(* and may be killed and started again, with another ledger or selection.  *)
(*                                                                         *)
(* A row is the task it stands for.  Of an annotation its place in the     *)
(* order in which annotations were put into rows is kept (0: none yet).    *)
(***************************************************************************)
EXTENDS Integers, FiniteSets

CONSTANTS
    Task,      \* the rows of the worksheet: candidate, scenario, queue_order
    Client,    \* pages that send requests, one at a time
    Carded,    \* tasks whose card or draft names what a tombstone may block
    None,      \* no scenario_id in a request, no holder of the lock
    MaxSaves,  \* bound on the annotations of one behaviour
    MaxFaults  \* bound on failing writes, and on the end of the server

(* _rows_by_task_key: no two rows of a file have the same key; a row without *)
(* a scenario_id was given that of its only card.                            *)
SameKey(t, u) == t.candidate = u.candidate /\ t.scenario = u.scenario

ASSUME TaskAssumption ==
    /\ \A t, u \in Task : SameKey(t, u) => t = u
    /\ \A t \in Task : t.scenario # None /\ t.order \in Nat \ {0}

ASSUME ClientAssumption == Carded \subseteq Task /\ None \notin Client

ASSUME BoundAssumption == MaxSaves \in Nat /\ MaxFaults \in Nat

VARIABLES
    file,    \* the annotation of each row of the worksheet file
    rows,    \* the annotations in the server's memory, all rows
    queue,   \* the tasks the server offers; empty while no server runs
    reviewable, \* candidates of the rows that are not excluded
    lock,    \* the request that holds the lock of the workspace
    req,     \* the request of each client, with its locals
    count,   \* annotations put into rows so far
    acked,   \* history: the last annotation of each row that was answered saved
    faults

vars == <<file, rows, queue, reviewable, lock, req, count, acked, faults>>

server == <<rows, queue, reviewable>>

-----------------------------------------------------------------------------
Idle == [pc |-> "idle"]

Candidates(S) == {t.candidate : t \in S}

Init ==
    /\ file = [t \in Task |-> 0] /\ rows = file
    /\ queue = {} /\ reviewable = {}
    /\ lock = None
    /\ req = [c \in Client |-> Idle]
    /\ count = 0 /\ acked = [t \in Task |-> 0] /\ faults = 0

(* Seeded fault: the annotations of the worksheet are not read back. *)
StartBlank ==
    /\ queue = {}
    /\ \E excluded \in SUBSET Task :
        /\ excluded \intersect Carded = {}
        /\ LET offered == Task \ excluded IN
            /\ offered # {}
            /\ reviewable' = Candidates(offered)
            /\ \E selected \in SUBSET Candidates(offered) \ {{}} :
                queue' = {t \in offered : t.candidate \in selected}
    /\ rows' = [t \in Task |-> 0]
    /\ UNCHANGED <<file, lock, req, count, acked, faults>>

(* create_review_server: the rows are read from the file.  A ledger that     *)
(* blocks cards or drafts is refused; the rows it blocks are excluded.  What *)
(* is selected must be reviewable.                                           *)
StartServer ==
    /\ queue = {}
    /\ \E excluded \in SUBSET Task :
        /\ excluded \intersect Carded = {}
        /\ LET offered == Task \ excluded IN
            /\ offered # {}
            /\ reviewable' = Candidates(offered)
            /\ \E selected \in SUBSET Candidates(offered) \ {{}} :
                queue' = {t \in offered : t.candidate \in selected}
    /\ rows' = file
    /\ UNCHANGED <<file, lock, req, count, acked, faults>>

(* The server is killed or stopped, with every request in it. *)
StopServer ==
    /\ queue # {} /\ faults < MaxFaults /\ faults' = faults + 1
    /\ queue' = {} /\ reviewable' = {} /\ lock' = None
    /\ req' = [c \in Client |-> Idle]
    /\ UNCHANGED <<file, rows, count, acked>>

-----------------------------------------------------------------------------
(* POST /api/worksheet.                                                     *)

(* The task of a request: without a scenario_id the candidate must have one *)
(* queued task.                                                             *)
Tasks(candidate, scenario) ==
    {t \in queue : t.candidate = candidate /\ scenario \in {None, t.scenario}}

(* _validated_annotation: what is a duplicate is one of a reviewable row. *)
Accepted(duplicate) == duplicate \in reviewable \union {None}

(* A request that does not name one queued task, or whose annotation is not  *)
(* accepted, is answered 400.                                                *)
Post(c) ==
    /\ req[c].pc = "idle" /\ queue # {}
    /\ count + Cardinality({k \in Client : req[k].pc = "save"}) < MaxSaves
    /\ \E candidate \in Candidates(Task), scenario \in {t.scenario : t \in Task} \union {None},
          duplicate \in Candidates(Task) \union {None} :
        LET task == Tasks(candidate, scenario) IN
        /\ Cardinality(task) = 1
        /\ Accepted(duplicate)
        /\ \E t \in task : req' = [req EXCEPT ![c] = [pc |-> "save", task |-> t]]
    /\ UNCHANGED <<file, server, lock, count, acked, faults>>

(* Under the lock the row is changed first. *)
SetAnnotation(c) ==
    /\ req[c].pc = "save"
    /\ lock = None /\ lock' = c
    /\ count' = count + 1
    /\ rows' = [rows EXCEPT ![req[c].task] = count']
    /\ req' = [req EXCEPT ![c] = [pc |-> "write", task |-> @.task, n |-> count']]
    /\ UNCHANGED <<file, queue, reviewable, acked, faults>>

(* Seeded fault: only the rows that are offered are written back. *)
WriteQueue(c) ==
    /\ req[c].pc = "write"
    /\ file' = [t \in Task |-> IF t \in queue THEN rows[t] ELSE 0]
    /\ req' = [req EXCEPT ![c].pc = "saved"]
    /\ UNCHANGED <<server, lock, count, acked, faults>>

(* _write_jsonl of all rows, excluded and unselected ones too: a temporary   *)
(* file replaces the worksheet.                                              *)
WriteWorksheet(c) ==
    /\ req[c].pc = "write"
    /\ file' = rows
    /\ req' = [req EXCEPT ![c].pc = "saved"]
    /\ UNCHANGED <<server, lock, count, acked, faults>>

(* Seeded fault: the lock is kept when the write raises. *)
WriteFailsLocked(c) ==
    /\ req[c].pc = "write"
    /\ faults < MaxFaults /\ faults' = faults + 1
    /\ req' = [req EXCEPT ![c] = Idle]
    /\ UNCHANGED <<file, server, lock, count, acked>>

(* Seeded fault: the exception is swallowed. *)
WriteFailsSilently(c) ==
    /\ req[c].pc = "write"
    /\ faults < MaxFaults /\ faults' = faults + 1
    /\ req' = [req EXCEPT ![c].pc = "saved"]
    /\ UNCHANGED <<file, server, lock, count, acked>>

(* The write raises: the lock is released, the row stays changed and the     *)
(* request has no answer.                                                    *)
WriteFails(c) ==
    /\ req[c].pc = "write"
    /\ faults < MaxFaults /\ faults' = faults + 1
    /\ lock' = None
    /\ req' = [req EXCEPT ![c] = Idle]
    /\ UNCHANGED <<file, server, count, acked>>

Release(c) ==
    /\ req[c].pc = "saved"
    /\ lock' = None
    /\ req' = [req EXCEPT ![c].pc = "answer"]
    /\ UNCHANGED <<file, server, count, acked, faults>>

(* {"saved": true}, once the lock is released. *)
AnswerSaved(c) ==
    /\ req[c].pc = "answer"
    /\ acked' = [acked EXCEPT ![req[c].task] = IF @ < req[c].n THEN req[c].n ELSE @]
    /\ req' = [req EXCEPT ![c] = Idle]
    /\ UNCHANGED <<file, server, lock, count, faults>>

-----------------------------------------------------------------------------
(* GET /api/bootstrap.                                                      *)

Get(c) ==
    /\ req[c].pc = "idle" /\ queue # {}
    /\ req' = [req EXCEPT ![c] = [pc |-> "load", floor |-> acked]]
    /\ UNCHANGED <<file, server, lock, count, acked, faults>>

(* snapshot() holds the lock only to collect the lists. *)
Snapshot(c) ==
    /\ req[c].pc = "load" /\ lock = None
    /\ req' = [req EXCEPT ![c] = [pc |-> "dump", floor |-> @.floor, left |-> queue,
                                  seen |-> [t \in {} |-> 0]]]
    /\ UNCHANGED <<file, server, lock, count, acked, faults>>

(* json.dumps reads row after row in queue order, without the lock. *)
DumpRow(c) ==
    /\ req[c].pc = "dump"
    /\ \E t \in req[c].left :
        /\ \A u \in req[c].left : t.order <= u.order
        /\ req' = [req EXCEPT ![c].left = @ \ {t},
                           ![c].seen = [u \in DOMAIN @ \union {t} |->
                                           IF u = t THEN rows[t] ELSE @[u]]]
    /\ UNCHANGED <<file, server, lock, count, acked, faults>>

AnswerRows(c) ==
    /\ req[c].pc = "dump" /\ req[c].left = {}
    /\ req' = [req EXCEPT ![c] = Idle]
    /\ UNCHANGED <<file, server, lock, count, acked, faults>>

-----------------------------------------------------------------------------
Respond(c) ==
    \/ SetAnnotation(c)
    \/ WriteWorksheet(c)
    \/ Release(c)
    \/ AnswerSaved(c)
    \/ Snapshot(c)
    \/ DumpRow(c)
    \/ AnswerRows(c)

Next ==
    \/ StartServer
    \/ StopServer
    \/ \E c \in Client : Post(c) \/ Get(c) \/ Respond(c) \/ WriteFails(c)

(* The thread of a request is not stopped; pages need not send anything. *)
Spec == Init /\ [][Next]_vars /\ \A c \in Client : WF_vars(Respond(c))

-----------------------------------------------------------------------------
Annotation == Nat

(* A request, with the locals of its phase. *)
Saving == [pc : {"save"}, task : Task]
Written == [pc : {"write", "saved", "answer"}, task : Task, n : Annotation]
Loading == [pc : {"load"}, floor : [Task -> Annotation]]
Dumping == [pc : {"dump"}, floor : [Task -> Annotation], left : SUBSET Task,
            seen : UNION {[S -> Annotation] : S \in SUBSET Task}]

Request == {Idle} \union Saving \union Written \union Loading \union Dumping

TypeOK ==
    /\ file \in [Task -> Annotation] /\ rows \in [Task -> Annotation]
    /\ acked \in [Task -> Annotation] /\ count \in Annotation
    /\ queue \subseteq Task
    /\ lock \in Client \union {None}
    /\ req \in [Client -> Request]

(* RECORDS ARE KEPT.  Whatever writes fail and wherever the server is killed *)
(* and started again with rows excluded or not selected, the worksheet never *)
(* loses or reverts the annotation of a row: it changes only to one that was *)
(* made later (workspace.py:270-278).                                        *)
RecordsAreKept == [][\A t \in Task : file'[t] >= file[t]]_file

(* SAVED IS DURABLE.  An annotation that was answered "saved" is in the file, *)
(* or a later one of that row is: also after another save of the row failed,  *)
(* and for a server that is started afterwards.                               *)
SavedIsDurable == \A t \in Task : acked[t] <= file[t]

(* BOOTSTRAP IS FRESH.  The rows a page gets are read one by one while        *)
(* annotations change them, but none is older than what was answered "saved"  *)
(* before the page asked.                                                     *)
BootstrapIsFresh ==
    \A c \in Client : req[c].pc = "dump" =>
        \A t \in DOMAIN req[c].seen : req[c].seen[t] >= req[c].floor[t]

(* REQUESTS END.  A request that waits for the lock gets it: no way out of a  *)
(* save leaves the lock behind.                                               *)
RequestsEnd == \A c \in Client : req[c].pc # "idle" ~> req[c].pc = "idle"
=============================================================================
