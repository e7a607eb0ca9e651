------------------------- MODULE MCTombstoneOutbox -------------------------
(* Small instances of TombstoneOutbox for TLC. *)
EXTENDS TombstoneOutbox, TLC

CONSTANTS r1, r2, w1, w2


ActorSymmetry == Permutations(Worker) \union Permutations(Identity)
=============================================================================
