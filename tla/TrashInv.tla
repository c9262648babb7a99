------------------------------ MODULE TrashInv ------------------------------
(* The parts of the inductive invariants of Trash: what holds at every     *)
(* control point, and so makes Consistent and NoClobber hold.              *)
EXTENDS Trash

(* The control points of each operation.                                   *)
PointsOf(o) ==
    CASE o = "none" -> {"idle"}
      [] o = "trash" -> {"lock", "tMove", "begin", "put", "setIdx", "back"}
      [] o = "restore" -> {"lock", "stat", "rMove", "rDrop", "dropIdx", "back"}
      [] o = "delete" -> {"lock", "raw", "dDrop", "dropIdx", "remove", "begin",
                          "put", "setIdx"}
      [] o = "stats" -> {"wStat", "wBegin", "put", "setIdx"}

LocalsOK(a) ==
    /\ pc[a] \in PointsOf(op[a])
    /\ op[a] = "stats" => a = Worker
    /\ a = Worker => op[a] \in {"none", "stats"}
    /\ op[a] # "none" <=> cur[a] # 0
    /\ op[a] # "none" /\ pc[a] # "raw" => it[a] # None
    /\ op[a] \in {"trash", "restore"} => path[a] # None

(* Exactly the handler inside its critical section holds the disk's flock: *)
(* no early return of trash.go under it keeps it.                          *)
Exclusive == \A p \in Procs : pc[p] \in LockedPoints <=> lock = p

(* What a handler is about to overwrite is free or was filled by a user.   *)
Overwritable(p) ==
    \/ pc[p] = "rMove"
    \/ op[p] = "trash" /\ pc[p] \in {"begin", "put", "setIdx", "back"}

TargetsFree ==
    \A p \in Procs : Overwritable(p) =>
        live[path[p]] = None \/ path[p] \in dirty

(* Nobody knows an id that is not handed out, nor, before its file is      *)
(* moved, one that is.                                                     *)
Unmoved(i) ==
    \/ i >= nextId
    \/ \E p \in Procs : op[p] = "trash" /\ pc[p] \in {"lock", "tMove"} /\ cur[p] = i

FreshIds ==
    \A i \in Ids : Unmoved(i) =>
        /\ item[i] = None
        /\ i \notin queue
        /\ \A a \in Actors : cur[a] = i => op[a] = "trash" /\ pc[a] \in {"lock", "tMove"}
        /\ \A a, b \in Actors : cur[a] = i /\ cur[b] = i => a = b
        /\ i >= nextId => \A a \in Actors : cur[a] # i

(* What an operation left behind at each point between its writes.         *)
Midway(a, i) ==
    /\ pc[a] \in {"begin", "put", "setIdx"} => bin[i] # None
    /\ pc[a] = "begin" => item[i] = None /\ HasKeys(i, {})
    /\ pc[a] = "put" =>
           /\ op[a] = "stats" <=> item[i] # None
           /\ old[a] = item[i] \/ (old[a] = None /\ i \in loose)
           /\ HasKeys(i, IF old[a] = None THEN Indexed(item[i]) ELSE {})
    /\ pc[a] = "setIdx" =>
           /\ item[i] = it[a]
           /\ HasKeys(i, {})
           /\ op[a] # "stats" => old[a] = None
    /\ pc[a] = "back" /\ op[a] = "trash" =>
           bin[i] # None /\ item[i] = None /\ HasKeys(i, {})
    /\ pc[a] = "rDrop" \/ (pc[a] = "back" /\ op[a] = "restore") =>
           /\ bin[i] = None
           /\ item[i] = it[a] \/ i \in loose
           /\ item[i] # None \/ i \in orphaned
           /\ HasKeys(i, Indexed(item[i]))
    /\ pc[a] = "dropIdx" =>
           item[i] = None /\ (idx[i] \in {{}, KeysOf(it[a])} \/ i \in loose)
    /\ pc[a] = "dropIdx" /\ op[a] = "restore" => bin[i] = None
    /\ pc[a] = "remove" => item[i] = None /\ HasKeys(i, {})

(* At most one actor is changing an id, it left the id as its control      *)
(* point says, and when there is none the id's parts agree.                *)
Ordered(i) ==
    /\ \A a, b \in Actors : Busy(a, i) /\ Busy(b, i) => a = b
    /\ \A a \in Actors : Busy(a, i) => Midway(a, i)
    /\ Quiet(i) => Agree(i)

WritesInOrder == \A i \in Ids \ tainted : Ordered(i)
=============================================================================
