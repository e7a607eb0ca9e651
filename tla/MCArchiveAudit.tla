---------------------------- MODULE MCArchiveAudit ----------------------------
(* Three archives, first delivered without an error and with as many records *)
(* as the limit allows.  Another delivery of the first is not what its       *)
(* checksum says; one of the second is beyond the limit; those of the third  *)
(* lack the message of an exposed row, hold one the first has too, or have   *)
(* lines that cannot be used.                                                *)
EXTENDS ArchiveCoverage, TLC

CONSTANTS a, b, c

Contents == << << <<a>>, <<b>> >>,
               << <<c>>, <<a, c, b>> >>,
               << <<b>>, <<c>>, <<a>>, <<b, Malformed, Quarantined>> >> >>

Checksums == <<1, None, None>>

Exposures == << {a}, {b} >>
=============================================================================
