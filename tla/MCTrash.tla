------------------------------ MODULE MCTrash ------------------------------
(* Small instances of Trash for TLC: which handler, path or file is which  *)
(* makes no difference to the safety properties.                           *)
EXTENDS TrashInv, TLC

Interchangeable ==
    Permutations(Procs) \cup Permutations(Paths) \cup Permutations(Files)

(* Behaviours with two items are followed up to the first id that is       *)
(* marked, those with one throughout.                                      *)
Bounded == tainted \cup loose = {} \/ nextId <= 2
=============================================================================
