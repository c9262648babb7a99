---------------------------- MODULE MCMediaSearch ---------------------------
(***************************************************************************)
(* An instance of MediaSearch for TLC.  Token 1 is a part of token 2 and   *)
(* shares an n-gram with it; token 3 is too short for n-grams.             *)
(***************************************************************************)
EXTENDS MediaSearch

SomeGrams == [t \in 1 .. 3 |-> CASE t = 1 -> <<1>> [] t = 2 -> <<1, 2>> [] OTHER -> <<>>]
SomeInside == {<<1, 2>>}
Value(name, path, ok) == [name |-> name, path |-> path, ok |-> ok]
SomeValues == {Value(<<1, 1>>, <<3>>, TRUE), Value(<<3, 2>>, <<1>>, TRUE)}
SomeQueries == {<<3, 1>>}

(* A directory that lists n-grams first, so that the index stands for a    *)
(* while, and then parts of both others, the dictionary of paths last.     *)
SomeOrders == {[i \in 1 .. 9 |-> File(<<7, 8, 9, 4, 1, 2, 3, 5, 6>>[i])]}

(* What the theorems take from the data of the index holds of this one.    *)
ASSUME DataAssumption == PostingsRight /\ ListsRight
=============================================================================
