----------------------------- MODULE MCCliQueue -----------------------------
(* Small instances of CliQueue for TLC.                                    *)
EXTENDS CliQueueInv
=============================================================================
