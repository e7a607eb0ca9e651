---------------------------- MODULE MCArtifactPurge ----------------------------
(* Two messages; a wide, an exact and a mixed ledger that overlap. *)
EXTENDS ArtifactPurge

CONSTANTS m1, m2, r1

Wide1 == [message |-> m1, revision |-> AnyRevision]
Exact1 == [message |-> m1, revision |-> r1]
Exact2 == [message |-> m2, revision |-> r1]

Records == {Wide1, Exact1, Exact2}
Ledgers == {{Wide1}, {Exact1, Exact2}, {Exact1}}
TwoLedgers == {{Wide1}, {Exact1, Exact2}}
=============================================================================
