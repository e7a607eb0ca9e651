------------------------------- MODULE MCIngest -------------------------------
(* Two archives.  In thread "t": the first message t, a reply a to it, two   *)
(* replies b and d to a, and c, a reply to b; in thread "u" its first        *)
(* message.  The second archive has an edited b whose parent is c, so that   *)
(* the way up from c is a cycle when that revision is the one that is kept.  *)
EXTENDS IngestPipeline, TLC

CONSTANTS r1, r2

Msg(n, r, t, p) == [name |-> n, revision |-> r, thread |-> t, parent |-> p]

T1 == Msg("t", r1, "t", None)
A1 == Msg("a", r1, "t", "t")
B1 == Msg("b", r1, "t", "a")
B2 == Msg("b", r2, "t", "c")
C1 == Msg("c", r1, "t", "b")
U1 == Msg("u", r1, "u", None)
D1 == Msg("d", r1, "t", "a")

Messages == {T1, A1, B1, B2, C1, U1, D1}

Archives == << [role |-> "discovery", lines |-> <<T1, B1, C1, D1, Malformed>>],
               [role |-> "context_only", lines |-> <<B2, Quarantined, U1, A1>>] >>

Tombstones == { [message |-> "b", revision |-> r1], [message |-> "c", revision |-> AnyRevision] }

Topics == {"t", "c", "d"}

Ranks == "t" :> 5 @@ "a" :> 3 @@ "b" :> 1 @@ "c" :> 2 @@ "u" :> 6 @@ "d" :> 4
ControlRanks == "t" :> 1 @@ "a" :> 2 @@ "b" :> 3 @@ "c" :> 4 @@ "u" :> 5 @@ "d" :> 6
=============================================================================
