------------------------------- MODULE TagsInv ------------------------------
(* What an actor of Tags knows between its calls to the database, which    *)
(* makes CountsRight, IndexAgrees and DeletedStaysDeleted inductive.       *)
EXTENDS Tags

Loading == {"count", "store", "save"}

(* Where an actor can be, and which of its locals are in use there.        *)
PointOK(p) ==
    /\ p = Rebuilder => pc[p] \in {"idle", "drop", "tally", "snapshot", "restore"}
    /\ p # Rebuilder => pc[p] \notin {"tally", "snapshot", "restore"}
    /\ pc[p] \in Loading => tg[p] \in Tags /\ rec[p] \in Nat
    /\ pc[p] = "index" => cur[p] \in Pairs
    /\ pc[p] \in {"idle", "tag", "primary", "index", "drop", "erase", "save", "tally",
                  "snapshot"} => due[p] = {}
    /\ pc[p] \notin Loading \cup {"snapshot", "restore"} => over[p] = {}

(* What was loaded or counted is still so, unless someone overtook it.     *)
LoadedOK(p) ==
    /\ pc[p] \in Loading /\ tg[p] \notin over[p] => tag[tg[p]] = rec[p]
    /\ pc[p] = "store" /\ tg[p] \notin over[p] => n[p] = NumberOf(tg[p], rel)

TalliedOK ==
    \A t \in Tags \ over[Rebuilder] :
        /\ pc[Rebuilder] \in {"snapshot", "restore"} => tally[t] = NumberOf(t, rel)
        /\ t \in due[Rebuilder] => seen[t] = tag[t] /\ seen[t] \in Nat

(* A pair whose first key is gone before the second one is written.        *)
HalvesKnown == \A p \in Actors : pc[p] = "index" /\ cur[p] \notin rel => cur[p] \in torn

(* Only ids that were handed out are written.                              *)
KnownIds ==
    /\ rel \subseteq used \X Keys
    /\ \A p \in Actors : req[p].ts \subseteq used /\ req[p].pairs \subseteq used \X Keys

(* The invariant of every step.                                            *)
Informed ==
    /\ \A p \in Actors : PointOK(p) /\ LoadedOK(p)
    /\ TalliedOK
    /\ HalvesKnown
    /\ KnownIds
=============================================================================
