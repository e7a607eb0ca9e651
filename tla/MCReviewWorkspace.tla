--------------------------- MODULE MCReviewWorkspace ---------------------------
(* Two candidates, one of them in two scenarios; the row of the other may be *)
(* blocked without its card.                                                 *)
EXTENDS ReviewWorkspace

CONSTANTS a, b, s1, s2

Both1 == [candidate |-> a, scenario |-> s1, order |-> 1]
Both2 == [candidate |-> a, scenario |-> s2, order |-> 3]
Other == [candidate |-> b, scenario |-> s1, order |-> 2]

Tasked == {Both1, Both2, Other}
Cards == {Both1}
=============================================================================
