----------------------------- MODULE MCFileTasks ----------------------------
(***************************************************************************)
(* Instances of FileTasks for TLC: paths a and b on two filesystems.       *)
(***************************************************************************)
EXTENDS FileTasks

Op1(src, dst, overwrite) == [src |-> src, dst |-> dst, overwrite |-> overwrite]
Choice(type, ops) == [type |-> type, ops |-> ops]

OnDisk == [n \in Names |-> IF n = "b" THEN 2 ELSE 1]

(* Copies and moves, within a filesystem and across, onto another file and *)
(* beside it, of one file after another, onto itself beside itself.        *)
SomeChoices ==
    {Choice("COPY", <<Op1("a", "b", FALSE)>>),
     Choice("MOVE", <<Op1("a", "b", TRUE), Op1("b", "b", FALSE)>>)}

OntoItself == {Choice("COPY", <<Op1("a", "a", TRUE)>>)}
=============================================================================
