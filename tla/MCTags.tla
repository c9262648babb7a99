------------------------------- MODULE MCTags -------------------------------
(* Instances of Tags for TLC.                                              *)
EXTENDS TagsInv, TLC

Interchangeable == Permutations(Procs) \cup Permutations(Keys) \cup Permutations(Tags)
=============================================================================
