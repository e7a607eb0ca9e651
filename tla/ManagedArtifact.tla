---------------------------- MODULE ManagedArtifact ----------------------------
(***************************************************************************)
(* What "tombstones purge" promises of a managed artifact: the published   *)
(* generation, its database and the manifest that binds it, is replaced in *)
(* one step, by the same generation with one ledger more propagated, after *)
(* it was backed up; and a ledger is reported purged only once the         *)
(* published generation suppresses it.  A replacement that is cut short    *)
(* may leave no whole generation, and then nothing happens any more.       *)
(***************************************************************************)
EXTENDS Naturals

CONSTANTS
    Ledger,             \* tombstone ledgers
    Initial,            \* the generation published first
    None,               \* no whole generation
    Propagated(_, _),   \* a generation with a ledger propagated to it
    Suppresses(_, _)    \* a generation holds nothing a ledger deletes

VARIABLES
    published,  \* the generation in the artifact root
    kept,       \* generations with a complete backup
    reported,   \* ledgers whose reconciliation manifest was written
    broken      \* a replacement was cut short

vars == <<published, kept, reported, broken>>

Init == published = Initial /\ kept = {} /\ reported = {} /\ broken = FALSE

BackUp ==
    /\ kept' = kept \union {published}
    /\ UNCHANGED <<published, reported, broken>>

(* A backup of the published generation is rewritten, and may fail half way. *)
SpoilBackup ==
    /\ kept' = kept \ {published}
    /\ UNCHANGED <<published, reported, broken>>

Replace ==
    /\ published \in kept
    /\ \E l \in Ledger : published' = Propagated(published, l)
    /\ UNCHANGED <<kept, reported, broken>>

(* A replacement of a generation that is backed up ends half way. *)
Break ==
    /\ published \in kept
    /\ published' = None
    /\ broken' = TRUE
    /\ UNCHANGED <<kept, reported>>

Report ==
    /\ \E l \in Ledger : Suppresses(published, l) /\ reported' = reported \union {l}
    /\ UNCHANGED <<published, kept, broken>>

Next == ~broken /\ (BackUp \/ SpoilBackup \/ Replace \/ Break \/ Report)

Spec == Init /\ [][Next]_vars
=============================================================================
