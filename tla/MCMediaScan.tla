---------------------------- MODULE MCMediaScan ----------------------------
(* Instances of MediaScan for TLC.                                         *)
EXTENDS MediaScan, TLC

Interchangeable ==
    Permutations(Paths) \cup Permutations(Ids) \cup Permutations(Scans)
        \cup Permutations(Clients)
=============================================================================
