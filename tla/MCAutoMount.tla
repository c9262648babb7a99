---------------------------- MODULE MCAutoMount ----------------------------
(* Small instances of AutoMount for TLC.  Filesystems are ordered, so only *)
(* disks and format requests are interchangeable.                          *)
EXTENDS AutoMountInv, TLC

Interchangeable == Permutations(Disks) \cup Permutations(Formatters)
=============================================================================
