------------------------ MODULE LexicalStore_proofs ------------------------
(***************************************************************************)
(* Proofs about LexicalStore, for any messages, revisions, units, records  *)
(* and bounds: the index stays synchronized with the rows, and what was    *)
(* deleted stays deleted.                                                  *)
(***************************************************************************)
EXTENDS LexicalStore, TLAPS

USE UnitAssumption, TombstoneAssumption, NullAssumption, CopiesAssumption

-----------------------------------------------------------------------------
(* The scan of _scrub_context_blocks. *)

(* Scrubbing only removes paragraphs. *)
LEMMA ScrubRestricts ==
  ASSUME NEW txt, IsText(txt), NEW names, NEW own, NEW preserve
  PROVE  /\ IsText(ScrubbedText(txt, names, own, preserve))
         /\ DOMAIN ScrubbedText(txt, names, own, preserve)
              = {p \in DOMAIN txt : Survives(txt, names, own, preserve, p)}
         /\ \A p \in DOMAIN ScrubbedText(txt, names, own, preserve) :
              ScrubbedText(txt, names, own, preserve)[p] = txt[p]
<1> DEFINE kept == {p \in DOMAIN txt : Survives(txt, names, own, preserve, p)}
           new == ScrubbedText(txt, names, own, preserve)
<1>1. new = [p \in kept |-> txt[p]] /\ kept \subseteq DOMAIN txt
  BY DEF ScrubbedText
<1> HIDE DEF kept, new
<1>2. DOMAIN new = kept /\ \A p \in kept : new[p] = txt[p]
  BY <1>1
<1>3. IsText(new)
  BY <1>1, <1>2 DEF IsText
<1> QED BY <1>2, <1>3 DEF kept, new

(* The paragraphs of a field are in a linear order. *)
LEMMA UptoIsLinear ==
  ASSUME NEW p \in Nat \X Nat, NEW q \in Nat \X Nat
  PROVE  /\ Upto(p, p)
         /\ Upto(p, q) \/ Upto(q, p)
         /\ Upto(p, q) /\ Upto(q, p) => p = q
         /\ \A r \in Nat \X Nat : Upto(p, q) /\ Upto(q, r) => Upto(p, r)
BY DEF Upto

(* A paragraph is kept together with what it continues, so what is anchored *)
(* in its block stays anchored.                                             *)
LEMMA ScrubAnchored ==
  ASSUME NEW txt, IsText(txt), Anchored(txt), NEW names, NEW own, NEW preserve
  PROVE  Anchored(ScrubbedText(txt, names, own, preserve))
<1> DEFINE kept == {p \in DOMAIN txt : Survives(txt, names, own, preserve, p)}
           new == ScrubbedText(txt, names, own, preserve)
<1>0. new = [p \in kept |-> txt[p]]
  BY DEF ScrubbedText
<1> HIDE DEF kept, new
<1>1. DOMAIN new = kept /\ \A p \in DOMAIN new : new[p] = txt[p]
  BY <1>0
<1> USE DEF kept
<1> SUFFICES ASSUME NEW p \in DOMAIN new
             PROVE  \E q \in DOMAIN new :
                      q[1] = p[1] /\ Upto(q, p) /\ (q[2] = 0 \/ new[q].mark # Plain)
  BY DEF Anchored, new
<1>2. p \in DOMAIN txt /\ Survives(txt, names, own, preserve, p) /\ DOMAIN txt \subseteq Nat \X Nat
  BY <1>1 DEF IsText
<1>3. CASE preserve /\ IsFocus(txt, own, p)
  <2>1. new[p].mark # Plain
    <3>1. FocusMarker(own).kind = "focus" /\ Plain.kind = "plain"
      BY DEF FocusMarker, Plain
    <3>2. new[p].mark = FocusMarker(own)
      BY <1>1, <1>2, <1>3 DEF IsFocus
    <3> QED BY <3>1, <3>2
  <2> QED BY <1>2, <2>1, UptoIsLinear
<1>4. CASE /\ \A q \in DOMAIN txt : txt[q].mark = FocusMarker(own) => ~Upto(q, p)
           /\ \E s \in DOMAIN txt : Starts(txt, s, p) /\ txt[s].mark.of \notin names
  <2>1. PICK s \in DOMAIN txt : Starts(txt, s, p) /\ txt[s].mark.of \notin names
    BY <1>4
  <2>2. PICK q \in DOMAIN txt :
          q[1] = p[1] /\ Upto(q, p) /\ (q[2] = 0 \/ txt[q].mark # Plain)
    BY <1>2 DEF Anchored
  <2>3. /\ s \in Nat \X Nat /\ q \in Nat \X Nat /\ p \in Nat \X Nat
        /\ Upto(s, p) /\ txt[s].mark # Plain
    BY <1>2, <2>1 DEF Starts, Marked, Plain, Mark
  <2>4. \A x \in DOMAIN txt : Upto(s, x) /\ Upto(x, p) => x \in DOMAIN new
    <3> SUFFICES ASSUME NEW x \in DOMAIN txt, Upto(s, x), Upto(x, p)
                 PROVE  Survives(txt, names, own, preserve, x)
      BY <1>1
    <3>1. \A f \in DOMAIN txt : txt[f].mark = FocusMarker(own) => ~Upto(f, x)
      BY <1>2, <1>4, UptoIsLinear
    <3>2. Starts(txt, s, x)
      BY <1>2, <2>1, UptoIsLinear DEF Starts, Marked
    <3> QED BY <2>1, <3>1, <3>2 DEF Survives
  <2>5. CASE Upto(s, q)
    BY <1>1, <2>2, <2>4, <2>5
  <2>6. CASE ~Upto(s, q)
    <3>1. Upto(q, s) /\ s[1] = p[1]
      BY <2>2, <2>3, <2>6, UptoIsLinear DEF Upto
    <3>2. s \in DOMAIN new
      BY <2>3, <2>4, UptoIsLinear
    <3> QED BY <1>1, <2>3, <3>1, <3>2
  <2> QED BY <2>5, <2>6
<1> QED BY <1>2, <1>3, <1>4 DEF Survives

(* No block that is headed by the label of a scrubbed message is left, and  *)
(* none comes back.                                                         *)
LEMMA ScrubUnlabelled ==
  ASSUME NEW txt, IsText(txt), NEW names, NEW own, NEW preserve, NEW m,
         m \in names \/ Unlabelled(txt, m)
  PROVE  Unlabelled(ScrubbedText(txt, names, own, preserve), m)
<1> DEFINE kept == {p \in DOMAIN txt : Survives(txt, names, own, preserve, p)}
           new == ScrubbedText(txt, names, own, preserve)
<1>0. new = [p \in kept |-> txt[p]]
  BY DEF ScrubbedText
<1> HIDE DEF kept, new
<1>1. DOMAIN new = kept /\ \A p \in DOMAIN new : new[p] = txt[p]
  BY <1>0
<1> USE DEF kept
<1> SUFFICES ASSUME NEW p \in DOMAIN new,
                    p[2] = 0, txt[p].author = m, txt[p].mark = Marker(m)
             PROVE  FALSE
  BY <1>1 DEF Unlabelled, new
<1>2. p \in DOMAIN txt /\ Survives(txt, names, own, preserve, p) /\ p \in Nat \X Nat
  BY <1>1 DEF IsText
<1>3. m \in names
  BY <1>2 DEF Unlabelled
<1>4. txt[p].mark # FocusMarker(own) /\ p \in Marked(txt)
  BY <1>2 DEF Marker, FocusMarker, Marked
<1>5. PICK s \in DOMAIN txt : Starts(txt, s, p) /\ txt[s].mark.of \notin names
  BY <1>2, <1>4 DEF Survives, IsFocus
<1>6. s = p
  <2>1. Upto(s, p) /\ Upto(p, s) /\ s \in Nat \X Nat
    BY <1>2, <1>4, <1>5, UptoIsLinear DEF Starts, IsText
  <2> QED BY <1>2, <2>1, UptoIsLinear
<1>7. txt[p].mark.of = m
  BY DEF Marker
<1> QED BY <1>3, <1>5, <1>6, <1>7

(* A field as it is built: every paragraph follows the head of its block,   *)
(* and every labelled block is of one of the messages that were joined.     *)
LEMMA JoinedIsAnchored ==
  ASSUME NEW own \in Message, NEW blocks \in Seq(Message)
  PROVE  /\ IsText(Joined(blocks, own))
         /\ Anchored(Joined(blocks, own))
         /\ \A m \in Message : (\A k \in DOMAIN blocks : blocks[k] = m => m = own)
                              => Unlabelled(Joined(blocks, own), m)
<1> USE BodyAssumption
<1> DEFINE Label(k) == IF k > 1 /\ blocks[k - 1] \in Newline THEN Plain
                       ELSE IF blocks[k] = own THEN FocusMarker(own) ELSE Marker(blocks[k])
           D == UNION {{k} \X (0 .. Len(Body[blocks[k]])) : k \in DOMAIN blocks}
           txt == Joined(blocks, own)
<1>1. txt = [p \in D |-> [author |-> blocks[p[1]],
                          mark |-> IF p[2] = 0 THEN Label(p[1]) ELSE Body[blocks[p[1]]][p[2]]]]
  BY DEF Joined
<1>2. \A k \in DOMAIN blocks :
        /\ k \in Nat /\ blocks[k] \in Message /\ Len(Body[blocks[k]]) \in Nat
        /\ \A i \in 1 .. Len(Body[blocks[k]]) : Body[blocks[k]][i] \in Mark
        /\ Label(k) \in Mark
  <2> SUFFICES ASSUME NEW k \in DOMAIN blocks
               PROVE  /\ k \in Nat /\ blocks[k] \in Message /\ Len(Body[blocks[k]]) \in Nat
                      /\ \A i \in 1 .. Len(Body[blocks[k]]) : Body[blocks[k]][i] \in Mark
                      /\ Label(k) \in Mark
    OBVIOUS
  <2>1. k \in Nat /\ blocks[k] \in Message
    OBVIOUS
  <2>2. Body[blocks[k]] \in Seq(Mark)
    BY <2>1
  <2>3. Label(k) \in Mark
    BY <2>1 DEF Mark
  <2> HIDE DEF Label
  <2> QED BY <2>1, <2>2, <2>3
<1>3. \A p \in D : /\ p[1] \in DOMAIN blocks /\ p[2] \in 0 .. Len(Body[blocks[p[1]]])
                   /\ p \in Nat \X Nat /\ <<p[1], 0>> \in D
  BY <1>2
<1> HIDE DEF Label, D, txt
<1>4. DOMAIN txt = D /\ \A p \in D :
        /\ txt[p].author = blocks[p[1]]
        /\ txt[p].mark = IF p[2] = 0 THEN Label(p[1]) ELSE Body[blocks[p[1]]][p[2]]
  BY <1>1
<1>5. IsText(txt)
  <2>1. \A p \in D : txt[p].author \in Message /\ txt[p].mark \in Mark
    <3> SUFFICES ASSUME NEW p \in D PROVE txt[p].author \in Message /\ txt[p].mark \in Mark
      OBVIOUS
    <3>1. p[2] = 0 \/ p[2] \in 1 .. Len(Body[blocks[p[1]]])
      <4> DEFINE n == Len(Body[blocks[p[1]]])
                 i == p[2]
      <4>1. n \in Nat /\ i \in 0 .. n
        BY <1>2, <1>3
      <4> HIDE DEF n, i
      <4>2. i = 0 \/ i \in 1 .. n
        BY <4>1
      <4> QED BY <4>2 DEF n, i
    <3> QED BY <1>2, <1>3, <1>4, <3>1
  <2> QED BY <1>1, <1>3, <1>4, <2>1 DEF IsText
<1>6. Anchored(txt)
  <2> SUFFICES ASSUME NEW p \in D
               PROVE  \E q \in D : q[1] = p[1] /\ Upto(q, p) /\ (q[2] = 0 \/ txt[q].mark # Plain)
    BY <1>4 DEF Anchored
  <2>1. Upto(<<p[1], 0>>, p)
    <3>1. p[1] \in Nat /\ p[2] \in Nat
      BY <1>3
    <3> QED BY <3>1 DEF Upto
  <2> QED BY <1>3, <2>1
<1>7. ASSUME NEW m \in Message, \A k \in DOMAIN blocks : blocks[k] = m => m = own
      PROVE  Unlabelled(txt, m)
  <2> SUFFICES ASSUME NEW p \in D, p[2] = 0, txt[p].author = m, txt[p].mark = Marker(m)
               PROVE  FALSE
    BY <1>4 DEF Unlabelled
  <2>1. Label(p[1]) = Marker(m) /\ blocks[p[1]] = m /\ m = own
    BY <1>3, <1>4, <1>7
  <2> QED BY <2>1 DEF Label, Plain, FocusMarker, Marker
<1> QED BY <1>5, <1>6, <1>7 DEF txt

(* What index_units may write for a unit. *)
LEMMA BuiltRow ==
  ASSUME NEW u \in Unit, NEW c \in Built(u)
  PROVE  /\ IsRow(c) /\ c # NoRow
         /\ Anchored(c.only) /\ Anchored(c.text)
         /\ \A m \in Message \ c.refs : Unlabelled(c.only, m) /\ Unlabelled(c.text, m)
<1>1. PICK chain \in Chain[u], missing \in SUBSET (Message \ {u.message}) :
        c = [refs |-> {chain[i] : i \in DOMAIN chain},
             only |-> Joined(chain, u.message),
             text |-> Joined(Append(chain, u.message), u.message),
             missing |-> missing]
  BY DEF Built
<1>2. u.message \in Message /\ chain \in Seq(Message \ {u.message})
  BY ChainAssumption
<1>3. /\ chain \in Seq(Message) /\ Append(chain, u.message) \in Seq(Message)
      /\ \A i \in DOMAIN chain : chain[i] \in Message
      /\ \A k \in DOMAIN Append(chain, u.message) :
           \/ k \in DOMAIN chain /\ Append(chain, u.message)[k] = chain[k]
           \/ Append(chain, u.message)[k] = u.message
  BY <1>2
<1>4. IsRow(c) /\ Anchored(c.only) /\ Anchored(c.text)
  <2>1. /\ IsText(c.only) /\ Anchored(c.only)
        /\ IsText(c.text) /\ Anchored(c.text)
    BY <1>1, <1>2, <1>3, JoinedIsAnchored
  <2>2. c.refs \subseteq Message /\ c.missing \subseteq Message
    BY <1>1, <1>3
  <2>3. c = [refs |-> c.refs, only |-> c.only, text |-> c.text, missing |-> c.missing]
    BY <1>1
  <2> QED BY <2>1, <2>2, <2>3 DEF IsRow
<1>5. c # NoRow
  <2>1. "refs" \in DOMAIN c /\ "refs" \notin DOMAIN NoRow
    BY <1>1 DEF NoRow
  <2> QED BY <2>1
<1>6. ASSUME NEW m \in Message \ c.refs
      PROVE  Unlabelled(c.only, m) /\ Unlabelled(c.text, m)
  <2>1. \A i \in DOMAIN chain : chain[i] # m
    BY <1>1
  <2> QED BY <1>1, <1>2, <1>3, <2>1, JoinedIsAnchored
<1> QED BY <1>4, <1>5, <1>6

-----------------------------------------------------------------------------
(* The invariant holds of the empty store.                                  *)
LEMMA InitIInv == Init => IInv
<1> SUFFICES ASSUME Init PROVE IInv
  OBVIOUS
<1>1. told \subseteq Tombstone
  BY DEF Init, Exact
<1>2. TypeOK
  BY <1>1 DEF Init, TypeOK, Empty
<1>3. SchemaKnown /\ RecordsHeld
  BY <1>1 DEF Init, SchemaKnown, RecordsHeld, Holding
<1>4. /\ FtsInSync /\ TextIsAnchored /\ LabelIsReferenced
      /\ NothingDeletedIsIndexed /\ NoDeletedReference
  BY DEF Init, FtsInSync, TextIsAnchored, LabelIsReferenced, NothingDeletedIsIndexed,
         NoDeletedReference
<1> QED BY <1>2, <1>3, <1>4 DEF IInv

(* Opening, migrating and closing leave the rows alone and move the         *)
(* tombstones from table to table.                                          *)
LEMMA ConnectionIInv ==
  ASSUME IInv, Open \/ RenameTable \/ CreateTable \/ CopyRows \/ Close
  PROVE  IInv'
<1> USE DEF IInv
<1>1. UNCHANGED <<row, fts, told>>
  BY DEF Open, RenameTable, CreateTable, CopyRows, Close
<1>2. TypeOK'
  BY <1>1 DEF TypeOK, Open, RenameTable, CreateTable, CopyRows, Close, Empty
<1>3. SchemaKnown'
  BY DEF SchemaKnown, Open, RenameTable, CreateTable, CopyRows, Close, TypeOK
<1>4. RecordsHeld'
  BY DEF RecordsHeld, Holding, SchemaKnown, Open, RenameTable, CreateTable, CopyRows, Close
<1>5. FtsInSync' /\ TextIsAnchored' /\ LabelIsReferenced'
  BY <1>1 DEF FtsInSync, TextIsAnchored, LabelIsReferenced
<1>6. NothingDeletedIsIndexed' /\ NoDeletedReference'
  BY <1>1 DEF NothingDeletedIsIndexed, NoDeletedReference
<1> QED BY <1>2, <1>3, <1>4, <1>5, <1>6

(* index_units writes only what the recorded tombstones admit. *)
LEMMA IndexIInv ==
  ASSUME IInv, NEW batch \in Batch, IndexUnits(batch)
  PROVE  IInv'
<1> USE DEF IInv, IndexUnits
<1> DEFINE written == {u \in DOMAIN batch : ~Blocked(u, batch[u].refs)}
<1>1. DOMAIN batch \subseteq Unit /\ \A u \in DOMAIN batch : batch[u] \in Built(u)
  BY DEF Batch
<1>2. \A u \in written :
        /\ u \in Unit /\ IsRow(batch[u]) /\ batch[u] # NoRow
        /\ Anchored(batch[u].only) /\ Anchored(batch[u].text)
        /\ \A m \in Message \ batch[u].refs :
             Unlabelled(batch[u].only, m) /\ Unlabelled(batch[u].text, m)
  BY <1>1, BuiltRow
<1>3. /\ row' = [u \in Unit |-> IF u \in written THEN batch[u] ELSE row[u]]
      /\ fts' = [u \in Unit |-> IF u \in written THEN <<batch[u].only>> ELSE fts[u]]
      /\ UNCHANGED <<tombstones, legacy, schema, conn, told>> /\ conn = "open"
  OBVIOUS
<1>4. \A t \in told, u \in written :
        /\ ~Covers(t, u)
        /\ t.unit = AnyUnit => t.message \notin batch[u].refs
  BY DEF RecordsHeld, Holding, Blocked, TypeOK
<1> HIDE DEF written, IndexUnits
<1>5. /\ \A u \in written : row'[u] = batch[u] /\ fts'[u] = <<batch[u].only>>
      /\ \A u \in Unit \ written : row'[u] = row[u] /\ fts'[u] = fts[u]
  BY <1>2, <1>3
<1>6. TypeOK'
  <2>1. \A u \in Unit : row'[u] = NoRow \/ IsRow(row'[u])
    BY <1>2, <1>5 DEF TypeOK
  <2>2. row' = [u \in Unit |-> row'[u]] /\ fts' = [u \in Unit |-> fts'[u]]
    BY <1>3
  <2> QED BY <1>3, <2>1, <2>2 DEF TypeOK
<1>7. SchemaKnown' /\ RecordsHeld'
  BY <1>3 DEF SchemaKnown, RecordsHeld, Holding
<1>8. FtsInSync'
  BY <1>2, <1>5 DEF FtsInSync
<1>9. TextIsAnchored' /\ LabelIsReferenced'
  <2>1. TextIsAnchored'
    BY <1>2, <1>5 DEF TextIsAnchored
  <2>2. LabelIsReferenced'
    BY <1>2, <1>5 DEF LabelIsReferenced
  <2> QED BY <2>1, <2>2
<1>10. NothingDeletedIsIndexed'
  BY <1>3, <1>4, <1>5 DEF NothingDeletedIsIndexed, Covers
<1>11. NoDeletedReference'
  BY <1>3, <1>4, <1>5 DEF NoDeletedReference
<1> QED BY <1>6, <1>7, <1>8, <1>9, <1>10, <1>11

(* consume_tombstone_projection removes what its records name, and records  *)
(* them.                                                                    *)
LEMMA ConsumeIInv ==
  ASSUME IInv, NEW records \in SUBSET Tombstone, ConsumeProjection(records)
  PROVE  IInv'
<1> USE DEF IInv
<1> DEFINE covered == {u \in Unit : row[u] # NoRow /\ \E t \in records : Covers(t, u)}
           stale   == {u \in Unit \ covered : row[u] # NoRow /\ Contributors(records, u) # {}}
           Kept(u) == Scrubbed(row[u], Contributors(records, u), u.message)
<1>1. ASSUME NEW u \in Unit, row[u] # NoRow
      PROVE  /\ IsRow(Kept(u)) /\ Kept(u) # NoRow
             /\ Kept(u).refs = row[u].refs \ Contributors(records, u)
             /\ Anchored(Kept(u).only) /\ Anchored(Kept(u).text)
             /\ \A m \in Message \ Kept(u).refs :
                  Unlabelled(Kept(u).only, m) /\ Unlabelled(Kept(u).text, m)
  <2> DEFINE names == Contributors(records, u)
             only == ScrubbedText(row[u].only, names, u.message, FALSE)
             text == ScrubbedText(row[u].text, names, u.message, TRUE)
  <2>1. /\ IsRow(row[u]) /\ IsText(row[u].only) /\ IsText(row[u].text)
        /\ row[u].refs \subseteq Message /\ row[u].missing \subseteq Message
        /\ Anchored(row[u].only) /\ Anchored(row[u].text)
        /\ names \subseteq Message
    BY <1>1 DEF TypeOK, IsRow, TextIsAnchored, Contributors
  <2>2. Kept(u) = [refs |-> row[u].refs \ names, only |-> only, text |-> text,
                   missing |-> row[u].missing \union names]
    BY DEF Scrubbed
  <2>3. IsText(only) /\ IsText(text) /\ Anchored(only) /\ Anchored(text)
    BY <2>1, ScrubRestricts, ScrubAnchored
  <2>4. ASSUME NEW m \in Message, m \notin row[u].refs \ names
        PROVE  Unlabelled(only, m) /\ Unlabelled(text, m)
    <3>1. \/ m \in names
          \/ Unlabelled(row[u].only, m) /\ Unlabelled(row[u].text, m)
      BY <1>1, <2>4 DEF LabelIsReferenced
    <3> QED BY <2>1, <3>1, ScrubUnlabelled
  <2> HIDE DEF names, only, text, Kept
  <2>5. /\ Kept(u).refs = row[u].refs \ names /\ Kept(u).only = only /\ Kept(u).text = text
        /\ IsRow(Kept(u))
    BY <2>1, <2>2, <2>3 DEF IsRow
  <2>6. Kept(u) # NoRow
    <3>1. "refs" \in DOMAIN Kept(u) /\ "refs" \notin DOMAIN NoRow
      BY <2>2 DEF NoRow
    <3> QED BY <3>1
  <2> QED BY <2>3, <2>4, <2>5, <2>6 DEF names
<1>2. /\ row' = [u \in Unit |-> IF u \in covered THEN NoRow
                                ELSE IF u \in stale THEN Kept(u) ELSE row[u]]
      /\ fts' = [u \in Unit |-> IF u \in covered THEN <<>>
                                ELSE IF u \in stale THEN <<Kept(u).only>> ELSE fts[u]]
  BY DEF ConsumeProjection
<1>3. /\ \A t \in records : tombstones'[t] > 0
      /\ \A t \in Tombstone \ records : tombstones'[t] = tombstones[t]
      /\ tombstones' \in [Tombstone -> 0 .. MaxCopies]
  BY DEF ConsumeProjection, Inserted, TypeOK
<1>4. told' = told \union records /\ conn = "open" /\ UNCHANGED <<legacy, schema, conn>>
  BY DEF ConsumeProjection
<1>5. \A u \in Unit : /\ u \in covered => row[u] # NoRow
                      /\ u \in stale => row[u] # NoRow /\ u \notin covered
                      /\ u \notin stale /\ u \notin covered =>
                           row[u] = NoRow \/ Contributors(records, u) = {}
                      /\ row[u] # NoRow /\ u \notin covered =>
                           \A t \in records : ~Covers(t, u)
  OBVIOUS
<1> HIDE DEF covered, stale, Kept
<1>6. /\ \A u \in covered \intersect Unit : row'[u] = NoRow /\ fts'[u] = <<>>
      /\ \A u \in stale \intersect Unit :
           row'[u] = Kept(u) /\ fts'[u] = <<Kept(u).only>>
      /\ \A u \in Unit \ (covered \union stale) : row'[u] = row[u] /\ fts'[u] = fts[u]
  BY <1>2, <1>5
<1>7. TypeOK'
  <2>1. \A u \in Unit : row'[u] = NoRow \/ IsRow(row'[u])
    BY <1>1, <1>5, <1>6 DEF TypeOK
  <2>2. row' = [u \in Unit |-> row'[u]] /\ fts' = [u \in Unit |-> fts'[u]]
    BY <1>2
  <2>3. told' \subseteq Tombstone
    BY <1>4 DEF TypeOK
  <2> QED BY <1>3, <1>4, <2>1, <2>2, <2>3 DEF TypeOK
<1>8. SchemaKnown' /\ RecordsHeld'
  BY <1>3, <1>4 DEF SchemaKnown, RecordsHeld, Holding, TypeOK
<1>9. FtsInSync'
  BY <1>1, <1>5, <1>6 DEF FtsInSync
<1>10. TextIsAnchored' /\ LabelIsReferenced'
  <2>1. TextIsAnchored'
    BY <1>1, <1>5, <1>6 DEF TextIsAnchored
  <2>2. LabelIsReferenced'
    BY <1>1, <1>5, <1>6 DEF LabelIsReferenced
  <2> QED BY <2>1, <2>2
<1>11. NothingDeletedIsIndexed'
  <2> SUFFICES ASSUME NEW t \in told \union records, NEW u \in Unit, Covers(t, u)
               PROVE  row'[u] = NoRow /\ fts'[u] = <<>>
    BY <1>4 DEF NothingDeletedIsIndexed, Covers
  <2>1. CASE row[u] = NoRow
    BY <1>5, <1>6, <2>1 DEF FtsInSync
  <2>2. CASE row[u] # NoRow
    <3>1. t \in records
      BY <2>2 DEF NothingDeletedIsIndexed
    <3> QED BY <1>5, <1>6, <2>2, <3>1
  <2> QED BY <2>1, <2>2
<1>12. NoDeletedReference'
  <2> SUFFICES ASSUME NEW t \in told \union records, NEW u \in Unit,
                      t.unit = AnyUnit, row'[u] # NoRow
               PROVE  t.message \notin row'[u].refs
    BY <1>4 DEF NoDeletedReference
  <2>1. u \notin covered /\ row[u] # NoRow
    BY <1>5, <1>6
  <2>2. t \in records => (t.message \in row[u].refs => t.message \in Contributors(records, u))
    BY DEF Contributors
  <2>3. t \in told => t.message \notin row[u].refs
    BY <2>1 DEF NoDeletedReference
  <2>4. CASE u \in stale
    BY <1>1, <1>6, <2>1, <2>2, <2>3, <2>4
  <2>5. CASE u \notin stale
    BY <1>5, <1>6, <2>1, <2>2, <2>3, <2>5
  <2> QED BY <2>4, <2>5
<1> QED BY <1>7, <1>8, <1>9, <1>10, <1>11, <1>12

(* Every step keeps the invariant.                                          *)
LEMMA NextIInv == IInv /\ [Next]_vars => IInv'
<1> SUFFICES ASSUME IInv, [Next]_vars PROVE IInv'
  OBVIOUS
<1>1. CASE UNCHANGED vars
  BY <1>1 DEF vars, IInv, TypeOK, SchemaKnown, RecordsHeld, Holding, FtsInSync,
              TextIsAnchored, LabelIsReferenced, NothingDeletedIsIndexed,
              NoDeletedReference
<1>2. \A records \in Projection : records \in SUBSET Tombstone
  BY DEF Projection
<1> QED BY <1>1, <1>2, ConnectionIInv, IndexIInv, ConsumeIInv DEF Next

(* The store keeps the inductive invariant. *)
THEOREM Invariance == Spec => []IInv
  BY InitIInv, NextIInv, PTL DEF Spec

(* The FTS index shows exactly the canonical rows. *)
THEOREM Synchronized == Spec => []FtsInSync
  BY Invariance, PTL DEF IInv

(* No unit of a deleted message is ever indexed again. *)
THEOREM DeletedStaysOut == Spec => []NothingDeletedIsIndexed
  BY Invariance, PTL DEF IInv

(* A field without a labelled block of m holds only what the scan misreads  *)
(* of it.                                                                   *)
LEMMA UnlabelledIsMisread ==
  ASSUME NEW txt, NEW m, IsText(txt), Anchored(txt), Unlabelled(txt, m)
  PROVE  OnlyMisread(txt, m)
BY DEF IsText, Anchored, Unlabelled, OnlyMisread, Misread

(* No row holds context of a deleted message, but for the paragraphs that   *)
(* imitate a marker or follow a hidden label.                               *)
THEOREM ContextIsScrubbed == Spec => []NoDeletedContext
<1>1. IInv => NoDeletedContext
  <2> SUFFICES ASSUME IInv, NEW t \in told, NEW u \in Unit,
                      t.unit = AnyUnit, row[u] # NoRow, t.message # u.message
               PROVE  OnlyMisread(row[u].only, t.message) /\ OnlyMisread(row[u].text, t.message)
    BY DEF NoDeletedContext
  <2>1. t.message \in Message /\ t.message \notin row[u].refs
    BY DEF IInv, TypeOK, NoDeletedReference
  <2>2. /\ Unlabelled(row[u].only, t.message) /\ Unlabelled(row[u].text, t.message)
        /\ Anchored(row[u].only) /\ Anchored(row[u].text)
        /\ IsText(row[u].only) /\ IsText(row[u].text)
    BY <2>1 DEF IInv, TypeOK, IsRow, LabelIsReferenced, TextIsAnchored
  <2> QED BY <2>2, UnlabelledIsMisread
<1> QED BY <1>1, Invariance, PTL

(* The table _is_blocked reads holds every record, on every open store. *)
THEOREM RecordsAreKept == Spec => []TombstonesKept
<1>1. IInv => TombstonesKept
  BY DEF IInv, TombstonesKept, RecordsHeld, Holding
<1> QED BY <1>1, Invariance, PTL
=============================================================================
