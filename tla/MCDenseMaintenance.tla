-------------------------- MODULE MCDenseMaintenance --------------------------
(* Two revisions of one message and a reply whose context quotes it; the    *)
(* corpus grows, or the reply loses the message from its context.           *)
EXTENDS DenseMaintenance, TLC

CONSTANTS m1, m2, r1, r2, x, y

First1 == [id |-> 1, message |-> m1, revision |-> r1]
Reply  == [id |-> 2, message |-> m2, revision |-> r1]
Edited == [id |-> 3, message |-> m1, revision |-> r2]

Units == {First1, Reply, Edited}
Quoted == [u \in Units |-> [v \in Content |-> IF u = Reply /\ v = x THEN {m1} ELSE {}]]

Corpora == { First1 :> x @@ Reply :> x,
             First1 :> x @@ Reply :> y,
             First1 :> x @@ Reply :> x @@ Edited :> x }

Records == { [message |-> m1, revision |-> AnyRevision, unit |-> AnyUnit],
             [message |-> m2, revision |-> AnyRevision, unit |-> Reply] }
=============================================================================
