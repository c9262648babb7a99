----------------------------- MODULE IndexFiles -----------------------------
(***************************************************************************)
(* The inverted indexes of files and of media (internal/search/fs_index.go, *)
(* mmap.go, util.go and internal/media/search_index.go, which holds the    *)
(* same code again).  An index is three files: the posting lists one after *)
(* another, each as its length and the differences of its sorted ids; the  *)
(* offset and length of each list; and the number of each term.            *)
(* A term is a number that stands for a token or an n-gram; a varint is    *)
(* one number of the data.                                                 *)
(***************************************************************************)
EXTENDS Naturals, Sequences, SequencesExt, FiniteSetsExt

Ascending(ids) == SetToSortSeq(ids, <)

(* The sorted ids of the documents of a term, one for each occurrence.     *)
Occurrences(terms, t) ==
    FoldLeft(LAMBDA ids, d : ids \o [i \in 1 .. Cardinality({j \in DOMAIN terms[d] : terms[d][j] = t}) |-> d],
             <<>>, Ascending(DOMAIN terms))

Encode(ids) ==
    <<Len(ids)>> \o [i \in DOMAIN ids |-> IF i = 1 THEN ids[1] ELSE ids[i] - ids[i - 1]]

(* buildIndexFiles, of what each document's terms are: the three contents. *)
Layout(terms) ==
    LET keys == Ascending(UNION {ToSet(terms[d]) : d \in DOMAIN terms})
        lists == [i \in DOMAIN keys |-> Encode(Occurrences(terms, keys[i]))]
        ends == [n \in 0 .. Len(keys) |-> FoldLeft(LAMBDA sum, l : sum + Len(l), 0, SubSeq(lists, 1, n))]
    IN [dat |-> FlattenSeq(lists),
        idx |-> [i \in DOMAIN keys |-> [off |-> ends[i - 1], len |-> Len(lists[i])]],
        dict |-> [t \in ToSet(keys) |-> CHOOSE i \in DOMAIN keys : keys[i] = t]]

(* The ids of a posting list as it is read back, as many as it says or as  *)
(* there are; none for an unknown term.                                    *)
Decode(list) ==
    LET sums[i \in 0 .. Len(list) - 1] == IF i = 0 THEN 0 ELSE sums[i - 1] + list[i + 1]
    IN [i \in 1 .. Min({list[1], Len(list) - 1}) |-> sums[i]]

Lists(index, t) == t \in DOMAIN index.dict /\ index.dict[t] <= Len(index.idx)

(* Parts of different builds may say that a list ends after the data.      *)
Overruns(index, t) ==
    Lists(index, t) /\ LET at == index.idx[index.dict[t]] IN at.off + at.len > Len(index.dat)

Posting(index, t) ==
    IF ~Lists(index, t) THEN <<>>
    ELSE LET at == index.idx[index.dict[t]]
         IN Decode(SubSeq(index.dat, at.off + 1, at.off + at.len))

(* Two sorted lists are walked together.                                   *)
Intersect(a, b) ==
    LET rest[i \in 1 .. Len(a) + 1, j \in 1 .. Len(b) + 1] ==
            CASE i > Len(a) \/ j > Len(b) -> <<>>
              [] a[i] = b[j] -> <<a[i]>> \o rest[i + 1, j + 1]
              [] a[i] < b[j] -> rest[i + 1, j]
              [] OTHER -> rest[i, j + 1]
    IN rest[1, 1]

(* The union of two sorted lists, in which repeated ids are dropped.       *)
Union(a, b) == Ascending(ToSet(a) \cup ToSet(b))

(* The lists are taken from the shortest on; an empty one ends it.         *)
IntersectAll(lists) ==
    LET sorted == SortSeq(lists, LAMBDA x, y : Len(x) < Len(y))
    IN IF lists = <<>> THEN <<>>
       ELSE FoldLeft(Intersect, sorted[1], Tail(sorted))

NonEmpty(lists) == SelectSeq(lists, LAMBDA l : l # <<>>)
=============================================================================
