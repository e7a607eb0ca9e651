----------------------------- MODULE LexicalStore -----------------------------
(***************************************************************************)
(* The SQLite lexical store (corpus/sqlite_store.py): canonical unit rows, *)
(* their FTS entries and the tombstones that keep deleted messages out.    *)
(*                                                                         *)
(* One snapshot, one connection at a time.  A unit is one span of one      *)
(* revision of its focus message: its identifier fixes its focus text.     *)
(* A context field is kept as the paragraphs it is split into, each with   *)
(* its true author and with the marker it begins with, if any: the scrub   *)
(* sees markers only, and the text of a message may look like one.         *)
(* index_units and consume_tombstone_projection are one transaction each,  *)
(* hence one step each; the schema migration of LexicalStore.__init__ is   *)
(* not, and is taken statement by statement.                               *)
(***************************************************************************)
EXTENDS Naturals, Sequences, FiniteSets

CONSTANTS
    Message,      \* fullnames
    Revision,     \* source_revision_id values
    Unit,         \* unit identifiers: a focus message, its revision, a span
    Tombstone,    \* records a projection may hold
    AnyRevision,  \* a record's source_revision_id NULL: all revisions
    AnyUnit,      \* a record's unit_id NULL: all units of the message
    Chain,        \* of a unit: the ancestors its bundle may hold, root first
    Body,         \* of a message: the marks of the paragraphs after its first
    Newline,      \* messages whose text ends in an odd number of newlines
    MaxBatch,     \* bound on the units or records of one call
    MaxCopies     \* bound on equal rows of table tombstones

ASSUME UnitAssumption ==
    Unit \subseteq [message : Message, revision : Revision, span : Nat]

ASSUME TombstoneAssumption ==
    Tombstone \subseteq [message : Message, revision : Revision \union {AnyRevision},
                         unit : Unit \union {AnyUnit}]

(* What a paragraph begins with, for the scrub's two patterns: the marker of *)
(* a contributor, the focus marker of a message, or anything else.           *)
Marker(m) == [kind |-> "context", of |-> m]
FocusMarker(m) == [kind |-> "focus", of |-> m]
Plain == [kind |-> "plain"]
Mark == {Marker(m) : m \in Message} \union {FocusMarker(m) : m \in Message} \union {Plain}

ASSUME ChainAssumption ==
    \A u \in Unit : \A c \in Chain[u] :
        /\ c \in Seq(Message \ {u.message})
        /\ \A i, j \in DOMAIN c : c[i] = c[j] => i = j

ASSUME BodyAssumption == \A m \in Message : Body[m] \in Seq(Mark)

ASSUME NullAssumption == AnyRevision \notin Revision /\ AnyUnit \notin Unit

ASSUME CopiesAssumption == MaxCopies \in Nat \ {0}

VARIABLES
    row,        \* search_units: NoRow, or what it says of the context
    fts,        \* unit_fts: the entries of each unit
    tombstones, \* tombstones: how many rows hold each record
    legacy,     \* tombstones_legacy, while the migration has it
    schema,     \* type of table tombstones: "none", "notnull", "nullable"
    conn,       \* the connection: "closed", "rename", "create", "copy", "open"
    told        \* records whose consumption was committed, or found on disk

vars == <<row, fts, tombstones, legacy, schema, conn, told>>

-----------------------------------------------------------------------------
NoRow == [none |-> TRUE]

(* A context field: paragraph <<k, i>> is the i-th after the head of the    *)
(* k-th block that was joined; those that are scrubbed are gone.            *)
IsText(txt) ==
    /\ txt = [p \in DOMAIN txt |-> txt[p]]
    /\ DOMAIN txt \subseteq Nat \X Nat
    /\ \A p \in DOMAIN txt : txt[p].author \in Message /\ txt[p].mark \in Mark
    /\ \A p, q \in DOMAIN txt : p[1] = q[1] => txt[p].author = txt[q].author

(* context_message_refs, context_only_text, context_text and                *)
(* missing_context_ids.                                                     *)
IsRow(c) ==
    /\ c = [refs |-> c.refs, only |-> c.only, text |-> c.text, missing |-> c.missing]
    /\ c.refs \subseteq Message /\ c.missing \subseteq Message
    /\ IsText(c.only) /\ IsText(c.text)

Empty == [t \in Tombstone |-> 0]

(* Records a NOT NULL source_revision_id column can hold. *)
Exact == {t \in Tombstone : t.revision # AnyRevision}

TypeOK ==
    /\ row = [u \in Unit |-> row[u]]
    /\ \A u \in Unit : row[u] = NoRow \/ IsRow(row[u])
    /\ fts = [u \in Unit |-> fts[u]]
    /\ tombstones \in [Tombstone -> 0 .. MaxCopies]
    /\ legacy \in [Tombstone -> 0 .. MaxCopies]
    /\ schema \in {"none", "notnull", "nullable"}
    /\ conn \in {"closed", "rename", "create", "copy", "open"}
    /\ told \subseteq Tombstone

(* A database of this version, or an old one with its tombstones. *)
Init ==
    /\ row = [u \in Unit |-> NoRow]
    /\ fts = [u \in Unit |-> <<>>]
    /\ legacy = Empty
    /\ conn = "closed"
    /\ \/ schema = "none" /\ told = {}
       \/ schema = "notnull" /\ told \in SUBSET Exact
    /\ tombstones = [t \in Tombstone |-> IF t \in told THEN 1 ELSE 0]

-----------------------------------------------------------------------------
(* LexicalStore.__init__: CREATE IF NOT EXISTS, then the migration of a     *)
(* table whose revision column is NOT NULL.  Each DDL statement commits.    *)
Open ==
    /\ conn = "closed"
    /\ schema' = IF schema = "none" THEN "nullable" ELSE schema
    /\ conn' = IF schema = "notnull" THEN "rename" ELSE "open"
    /\ UNCHANGED <<row, fts, tombstones, legacy, told>>

RenameTable ==
    /\ conn = "rename"
    /\ legacy' = tombstones
    /\ tombstones' = Empty
    /\ schema' = "none"
    /\ conn' = "create"
    /\ UNCHANGED <<row, fts, told>>

CreateTable ==
    /\ conn = "create"
    /\ schema' = "nullable"
    /\ conn' = "copy"
    /\ UNCHANGED <<row, fts, tombstones, legacy, told>>

(* Seeded fault: the legacy table is dropped before its rows are copied. *)
DropRows ==
    /\ conn = "copy"
    /\ legacy' = Empty
    /\ conn' = "open"
    /\ UNCHANGED <<row, fts, tombstones, schema, told>>

(* INSERT ... SELECT opens the transaction that DROP TABLE ends. *)
CopyRows ==
    /\ conn = "copy"
    /\ tombstones' = legacy
    /\ legacy' = Empty
    /\ conn' = "open"
    /\ UNCHANGED <<row, fts, schema, told>>

Close ==
    /\ conn = "open"
    /\ conn' = "closed"
    /\ UNCHANGED <<row, fts, tombstones, legacy, schema, told>>

(* The process ends inside the migration. *)
Crash ==
    /\ conn \in {"rename", "create", "copy"}
    /\ conn' = "closed"
    /\ UNCHANGED <<row, fts, tombstones, legacy, schema, told>>

-----------------------------------------------------------------------------
(* A record names unit u as a deleted message's own. *)
Covers(t, u) ==
    /\ t.message = u.message
    /\ t.revision \in {AnyRevision, u.revision}
    /\ t.unit \in {AnyUnit, u}

(* Seeded fault: a record without a revision blocks nothing. *)
BlockedByRevision(u, refs) ==
    \E t \in Tombstone :
        /\ tombstones[t] > 0
        /\ t.revision # AnyRevision
        /\ Covers(t, u) \/ (t.unit = AnyUnit /\ t.message \in refs)

(* _is_blocked: context references are refused for records without a unit.  *)
Blocked(u, refs) ==
    \E t \in Tombstone :
        /\ tombstones[t] > 0
        /\ Covers(t, u) \/ (t.unit = AnyUnit /\ t.message \in refs)

(* The blocks of the given messages, joined by an empty line.  A block is   *)
(* headed by its label, [SUBMISSION ...], [COMMENT ...] or, for the unit's  *)
(* own message, [FOCUS ...]; after a text that ends in a newline the split  *)
(* leaves a newline before the label, which then matches no pattern.        *)
Joined(blocks, own) ==
    LET Label(k) == IF k > 1 /\ blocks[k - 1] \in Newline THEN Plain
                   ELSE IF blocks[k] = own THEN FocusMarker(own) ELSE Marker(blocks[k])
    IN  [p \in UNION {{k} \X (0 .. Len(Body[blocks[k]])) : k \in DOMAIN blocks} |->
            [author |-> blocks[p[1]],
             mark   |-> IF p[2] = 0 THEN Label(p[1]) ELSE Body[blocks[p[1]]][p[2]]]]

(* Units as build_message_units makes them: one block of context for every  *)
(* ancestor they reference, and in context_text their own text after it.    *)
Built(u) ==
    {[refs    |-> {x[1][i] : i \in DOMAIN x[1]},
      only    |-> Joined(x[1], u.message),
      text    |-> Joined(Append(x[1], u.message), u.message),
      missing |-> x[2]] :
        x \in {y \in Chain[u] \X SUBSET (Message \ {u.message}) :
                 \A i \in DOMAIN y[1] : y[1][i] \notin y[2]}}

(* Seeded fault: the old FTS entry is not deleted first. *)
IndexUnitsAppending(batch) ==
    LET written == {u \in DOMAIN batch : ~Blocked(u, batch[u].refs)} IN
    /\ conn = "open"
    /\ row' = [u \in Unit |-> IF u \in written THEN batch[u] ELSE row[u]]
    /\ fts' = [u \in Unit |-> IF u \in written THEN Append(fts[u], batch[u].only)
                                              ELSE fts[u]]
    /\ UNCHANGED <<tombstones, legacy, schema, conn, told>>

(* index_units: the units of one call that are not blocked replace their    *)
(* rows and their FTS entries.                                              *)
IndexUnits(batch) ==
    LET written == {u \in DOMAIN batch : ~Blocked(u, batch[u].refs)} IN
    /\ conn = "open"
    /\ row' = [u \in Unit |-> IF u \in written THEN batch[u] ELSE row[u]]
    /\ fts' = [u \in Unit |-> IF u \in written THEN <<batch[u].only>> ELSE fts[u]]
    /\ UNCHANGED <<tombstones, legacy, schema, conn, told>>

(* The insert is NULL-safe for a NULL revision only: NULLs are distinct in  *)
(* the primary key, so an exact record without a unit is inserted again.    *)
Inserted(t) ==
    IF t.revision = AnyRevision \/ t.unit # AnyUnit
      THEN IF tombstones[t] = 0 THEN 1 ELSE tombstones[t]
      ELSE tombstones[t] + 1

(* The messages a projection scrubs from the context of u, whatever their   *)
(* revision and unit.                                                       *)
Contributors(records, u) == {t.message : t \in records} \intersect row[u].refs

(* The order of the paragraphs of a field. *)
Upto(p, q) == p[1] < q[1] \/ (p[1] = q[1] /\ p[2] <= q[2])

Marked(txt) == {p \in DOMAIN txt : txt[p].mark.kind = "context"}

(* Paragraph s is the contributor marker whose segment p is in. *)
Starts(txt, s, p) ==
    /\ s \in Marked(txt) /\ Upto(s, p)
    /\ \A r \in Marked(txt) : Upto(r, p) => Upto(r, s)

(* The focus marker of the unit: the first paragraph that reads as one. *)
IsFocus(txt, own, p) ==
    /\ txt[p].mark = FocusMarker(own)
    /\ \A q \in DOMAIN txt : txt[q].mark = FocusMarker(own) => Upto(p, q)

(* Seeded fault: a segment is its marked paragraph, the ones that continue  *)
(* it belong to nobody in particular.                                       *)
SurvivesByMarker(txt, names, own, preserve, p) ==
    \/ /\ \A q \in DOMAIN txt : txt[q].mark = FocusMarker(own) => ~Upto(q, p)
       /\ txt[p].mark.kind = "context" => txt[p].mark.of \notin names
    \/ preserve /\ IsFocus(txt, own, p)

(* _scrub_context_blocks keeps a paragraph of a segment that a marker of    *)
(* another message starts, up to the focus marker, and the focus marker     *)
(* itself where it is to be preserved.  A paragraph before every marker, or *)
(* after the focus, is dropped.  Scrubbing one name after the other keeps   *)
(* what scrubbing them together keeps.                                      *)
Survives(txt, names, own, preserve, p) ==
    \/ /\ \A q \in DOMAIN txt : txt[q].mark = FocusMarker(own) => ~Upto(q, p)
       /\ \E s \in DOMAIN txt : Starts(txt, s, p) /\ txt[s].mark.of \notin names
    \/ preserve /\ IsFocus(txt, own, p)

ScrubbedText(txt, names, own, preserve) ==
    [p \in {q \in DOMAIN txt : Survives(txt, names, own, preserve, q)} |-> txt[p]]

Scrubbed(c, names, own) ==
    [refs    |-> c.refs \ names,
     only    |-> ScrubbedText(c.only, names, own, FALSE),
     text    |-> ScrubbedText(c.text, names, own, TRUE),
     missing |-> c.missing \union names]

(* consume_tombstone_projection, over all its records: the units they cover *)
(* are deleted, the context of the other units that reference one of their  *)
(* messages is scrubbed.                                                    *)
ConsumeProjection(records) ==
    LET covered == {u \in Unit : row[u] # NoRow /\ \E t \in records : Covers(t, u)}
        stale   == {u \in Unit \ covered : row[u] # NoRow /\ Contributors(records, u) # {}}
        Kept(u) == Scrubbed(row[u], Contributors(records, u), u.message)
    IN  /\ conn = "open"
        /\ \A t \in records : Inserted(t) <= MaxCopies
        /\ tombstones' = [t \in Tombstone |->
                            IF t \in records THEN Inserted(t) ELSE tombstones[t]]
        /\ row' = [u \in Unit |-> IF u \in covered THEN NoRow
                                  ELSE IF u \in stale THEN Kept(u) ELSE row[u]]
        /\ fts' = [u \in Unit |-> IF u \in covered THEN <<>>
                                  ELSE IF u \in stale THEN <<Kept(u).only>> ELSE fts[u]]
        /\ told' = told \union records
        /\ UNCHANGED <<legacy, schema, conn>>

-----------------------------------------------------------------------------
(* A projection holds one record per message and revision. *)
Projection ==
    {records \in SUBSET Tombstone :
        /\ Cardinality(records) \in 1 .. MaxBatch
        /\ \A s, t \in records :
              s.message = t.message /\ s.revision = t.revision => s = t}

Batch ==
    UNION {{b \in [units -> UNION {Built(u) : u \in units}] : \A u \in units : b[u] \in Built(u)} :
              units \in {s \in SUBSET Unit : Cardinality(s) \in 1 .. MaxBatch}}

Next ==
    \/ Open \/ RenameTable \/ CreateTable \/ CopyRows \/ Close
    \/ \E batch \in Batch : IndexUnits(batch)
    \/ \E records \in Projection : ConsumeProjection(records)

Spec == Init /\ [][Next]_vars

CrashSpec == Init /\ [][Next \/ Crash]_vars
-----------------------------------------------------------------------------
(* The search index shows exactly the canonical rows: one entry per row,    *)
(* with the row's present context, and none for a deleted unit, through     *)
(* every replacement, deletion and scrubbing (class docstring: "Keep        *)
(* canonical unit rows and their FTS index synchronized").                  *)
FtsInSync ==
    \A u \in Unit : fts[u] = IF row[u] = NoRow THEN <<>> ELSE <<row[u].only>>

(* A unit of a deleted message is in no table, and no later index_units     *)
(* brings it back: what consume_tombstone_projection deletes, _is_blocked   *)
(* keeps out, for wide, exact and unit records, across a schema migration.  *)
NothingDeletedIsIndexed ==
    \A t \in told, u \in Unit : Covers(t, u) => row[u] = NoRow /\ fts[u] = <<>>

(* A paragraph the scan takes for something else than it is: a head whose   *)
(* label is not recognised, or body text that reads as a marker.            *)
Misread(txt, p) ==
    IF p[2] = 0 THEN txt[p].mark # Marker(txt[p].author) ELSE txt[p].mark # Plain

(* Text of m stays in a field only from such a paragraph of its own on. *)
OnlyMisread(txt, m) ==
    \A p \in DOMAIN txt : txt[p].author = m =>
        \E q \in DOMAIN txt : q[1] = p[1] /\ Upto(q, p) /\ Misread(txt, q)

(* No row holds text of a deleted message in its context, whether the row   *)
(* was there before the deletion or came after it, however many other       *)
(* deletions scrubbed it, and whatever markers the bodies of the other      *)
(* contributors imitate.  The exception is open: a paragraph of the deleted *)
(* message that itself reads as a marker, and the ones that continue it,    *)
(* and a block whose label follows a text that ends in a newline, escape    *)
(* the scan (_scrub_context_blocks).  Records of one unit are left out:     *)
(* index_units does not look at their message in context.                   *)
NoDeletedContext ==
    \A t \in told, u \in Unit :
        t.unit = AnyUnit /\ row[u] # NoRow /\ t.message # u.message =>
            OnlyMisread(row[u].only, t.message) /\ OnlyMisread(row[u].text, t.message)

(* Every record committed, or found in an old database, is in the table     *)
(* that _is_blocked reads (the migration "preserves rows").                 *)
TombstonesKept == conn = "open" => \A t \in told : tombstones[t] > 0

-----------------------------------------------------------------------------
(* The inductive invariant. *)

(* The table that holds the tombstones, at every step of the migration. *)
Holding == IF conn \in {"create", "copy"} THEN legacy ELSE tombstones

RecordsHeld == \A t \in told : Holding[t] > 0

(* No migration is left half done (Spec has no Crash). *)
SchemaKnown ==
    /\ conn = "rename" => schema = "notnull"
    /\ conn \in {"copy", "open"} => schema = "nullable"
    /\ conn = "create" => schema = "none"

(* Every paragraph of a field follows, in its block, the head of the block  *)
(* or a paragraph that reads as a marker; both survive with it.             *)
Anchored(txt) ==
    \A p \in DOMAIN txt :
        \E q \in DOMAIN txt : q[1] = p[1] /\ Upto(q, p) /\ (q[2] = 0 \/ txt[q].mark # Plain)

TextIsAnchored ==
    \A u \in Unit : row[u] # NoRow => Anchored(row[u].only) /\ Anchored(row[u].text)

(* No block of m that is headed by its own label is in the field. *)
Unlabelled(txt, m) ==
    \A p \in DOMAIN txt : ~(p[2] = 0 /\ txt[p].author = m /\ txt[p].mark = Marker(m))

(* Every labelled block is of a message the row references ... *)
LabelIsReferenced ==
    \A u \in Unit, m \in Message : row[u] # NoRow /\ m \notin row[u].refs =>
        Unlabelled(row[u].only, m) /\ Unlabelled(row[u].text, m)

(* ... and no row references a deleted one. *)
NoDeletedReference ==
    \A t \in told, u \in Unit :
        t.unit = AnyUnit /\ row[u] # NoRow => t.message \notin row[u].refs

IInv ==
    /\ TypeOK
    /\ SchemaKnown
    /\ RecordsHeld
    /\ FtsInSync
    /\ TextIsAnchored
    /\ LabelIsReferenced
    /\ NothingDeletedIsIndexed
    /\ NoDeletedReference
=============================================================================
