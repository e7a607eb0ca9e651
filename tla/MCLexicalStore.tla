--------------------------- MODULE MCLexicalStore ---------------------------
(* A small instance of LexicalStore for TLC: a thread m3 <- m1 <- m2 with    *)
(* two revisions of m1, one message that replies to it, and a root that is  *)
(* only context.                                                            *)
EXTENDS LexicalStore

CONSTANTS m1, m2, m3, v1, v2

First  == [message |-> m1, revision |-> v1, span |-> 0]
Edited == [message |-> m1, revision |-> v2, span |-> 0]
Reply  == [message |-> m2, revision |-> v1, span |-> 0]

Units == {First, Edited, Reply}

(* What a bundle may hold of the thread above the unit. *)
Chains == [u \in Units |-> IF u = Reply THEN {<<>>, <<m1>>, <<m3>>, <<m3, m1>>}
                                        ELSE {<<>>, <<m3>>}]

(* After a paragraph that reads as nothing, the root imitates the marker of *)
(* m1 and then its own, m1 the focus marker of its reply; the root ends in  *)
(* a newline, which hides the label of m1 behind it.                        *)
Bodies == [m \in {m1, m2, m3} |-> CASE m = m3 -> <<Plain, Marker(m1), Marker(m3)>>
                                    [] m = m1 -> <<Plain, FocusMarker(m2)>>
                                    [] m = m2 -> <<Plain>>]

(* Wide, exact, and of one unit; of a unit's own message and of a message   *)
(* that is only context.                                                    *)
Tombstones ==
    { [message |-> m1, revision |-> AnyRevision, unit |-> AnyUnit],
      [message |-> m1, revision |-> v1, unit |-> AnyUnit],
      [message |-> m1, revision |-> v2, unit |-> Edited],
      [message |-> m3, revision |-> v1, unit |-> AnyUnit] }
=============================================================================
