------------------------------ MODULE MCUploads -----------------------------
(* Small instances of Uploads for TLC: a content of two chunks and one that*)
(* goes in one request, to two names.                                      *)
EXTENDS Uploads

CONSTANTS large, small, m, n

SizeOf == [f \in {large, small} |-> IF f = large THEN 2 ELSE 1]
SomeJobs == [file : {large}, name : {m}, replace : BOOLEAN]
            \cup {[file |-> small, name |-> m, replace |-> FALSE],
                  [file |-> small, name |-> n, replace |-> TRUE]}
=============================================================================
