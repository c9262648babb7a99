--------------------------- MODULE MCFileServing ---------------------------
(* Instances of FileServing for TLC.                                       *)
EXTENDS FileServing, TLC

CONSTANTS old, new, alike

(* Two of three contents have a stamp in common.                           *)
MCStamp == (old :> 1) @@ (new :> 2) @@ (alike :> 2)

Interchangeable == Permutations(Requests)
=============================================================================
