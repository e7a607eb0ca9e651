-------------------------- MODULE TombstoneRequest --------------------------
(***************************************************************************)
(* What the tombstone outbox promises, without workers, claims or retries. *)
(* A deletion request is opened, its searchable copies are removed, and    *)
(* only when none is left is it closed; a closed request is settled, its   *)
(* derivative is not rewritten, and only then may a manifest certify it.   *)
(* A settled request may be opened again without losing anything that was  *)
(* removed; of such a request a manifest may name an earlier derivative.   *)
(* TombstoneOutbox implements this specification.                          *)
(***************************************************************************)
EXTENDS Naturals

CONSTANTS
    Identity,    \* deletion requests
    PointClass,  \* kinds of searchable dense points a request covers
    Generation   \* numbers a new derivative may be given

VARIABLES
    request,    \* "none", "open" or "settled"
    derivative, \* generation of the lexical derivative, 0 before the first
    points,     \* kinds of dense points still searchable
    certificate, \* derivative generation the published manifest names, or 0
    reopened    \* requests that were settled and opened again

vars == <<request, derivative, points, certificate, reopened>>

Init ==
    /\ request = [r \in Identity |-> "none"]
    /\ derivative = [r \in Identity |-> 0]
    /\ points = [r \in Identity |-> PointClass]
    /\ certificate = [r \in Identity |-> 0]
    /\ reopened = {}

Open(r) ==
    /\ request[r] = "none"
    /\ request' = [request EXCEPT ![r] = "open"]
    /\ UNCHANGED <<derivative, points, certificate, reopened>>

(* Every rewriting of the derivative is a new generation. *)
Rewrite(r) ==
    /\ request[r] = "open"
    /\ \E g \in Generation :
          g > derivative[r] /\ derivative' = [derivative EXCEPT ![r] = g]
    /\ UNCHANGED <<request, points, certificate, reopened>>

Remove(r, class) ==
    /\ request[r] = "open"
    /\ derivative[r] # 0
    /\ points' = [points EXCEPT ![r] = @ \ {class}]
    /\ UNCHANGED <<request, derivative, certificate, reopened>>

Settle(r) ==
    /\ request[r] = "open"
    /\ derivative[r] # 0
    /\ points[r] = {}
    /\ request' = [request EXCEPT ![r] = "settled"]
    /\ UNCHANGED <<derivative, points, certificate, reopened>>

Reopen(r) ==
    /\ request[r] = "settled"
    /\ request' = [request EXCEPT ![r] = "open"]
    /\ reopened' = reopened \union {r}
    /\ UNCHANGED <<derivative, points, certificate>>

Certify(r) ==
    /\ request[r] = "settled"
    /\ certificate' = [certificate EXCEPT ![r] = derivative[r]]
    /\ UNCHANGED <<request, derivative, points, reopened>>

CertifyReopened(r) ==
    /\ r \in reopened
    /\ \E g \in 1 .. derivative[r] : certificate' = [certificate EXCEPT ![r] = g]
    /\ UNCHANGED <<request, derivative, points, reopened>>

Next ==
    \E r \in Identity :
        \/ Open(r) \/ Rewrite(r) \/ Settle(r) \/ Reopen(r)
        \/ Certify(r) \/ CertifyReopened(r)
        \/ \E class \in PointClass : Remove(r, class)

Spec == Init /\ [][Next]_vars
=============================================================================
