---------------------------- MODULE TrashProofs ----------------------------
(* Trash, for every set of handlers, paths and files and any number of     *)
(* ids, with failures and crashes or without: type correctness, what the   *)
(* flock gives, and that file, record and listing keys agree.              *)
EXTENDS TrashInv, TLAPS

Typed == TypeOK /\ \A a \in Actors : LocalsOK(a)

(* Nothing has started in an initial state.                                *)
LEMMA TypedInit == Init => Typed
BY ActorsAssumption, MaxItemsAssumption, NoneAssumption
   DEF Init, Typed, TypeOK, LocalsOK, PointsOf, Actors, Ids, Points,
       LockedPoints, BusyPoints, Ops

(* Records, and the sets of listing keys they have.                        *)
LEMMA ItemFacts ==
  /\ None \notin Items
  /\ \A r \in Items : r.orig \in Paths /\ WithStats(r) \in Items
                       /\ KeysOf(r) \in SUBSET IndexKeys
  /\ \A q \in Paths : NewItem(q) \in Items
  /\ \A r \in Items \cup {None} : Indexed(r) \in SUBSET IndexKeys
BY NoneAssumption DEF Items, WithStats, NewItem, KeysOf, Indexed, IndexKeys

(* The locals an operation uses are set, and a control point tells the     *)
(* operation.                                                              *)
LEMMA LocalsFacts ==
  ASSUME Typed, NEW a \in Actors
  PROVE  /\ pc[a] # "idle" => cur[a] \in Ids
         /\ pc[a] \notin {"idle", "raw"} => it[a] \in Items
         /\ op[a] \in {"trash", "restore"} => path[a] \in Paths
         /\ pc[a] = "tMove" => op[a] = "trash"
         /\ pc[a] \in {"stat", "rMove", "rDrop"} => op[a] = "restore"
         /\ pc[a] \in {"raw", "dDrop", "remove"} => op[a] = "delete"
         /\ pc[a] = "dropIdx" => op[a] \in {"restore", "delete"}
         /\ pc[a] = "begin" => op[a] \in {"trash", "delete"}
         /\ pc[a] \in {"put", "setIdx"} => op[a] \in {"trash", "delete", "stats"}
         /\ pc[a] = "lock" => op[a] \in {"trash", "restore", "delete"}
BY DEF Typed, TypeOK, LocalsOK, PointsOf, Ops

(* Which operation belongs to which actor.                                 *)
LEMMA OpFacts ==
  ASSUME Typed, NEW a \in Actors
  PROVE  /\ pc[a] \in {"wStat", "wBegin"} => op[a] = "stats"
         /\ pc[a] = "back" => op[a] \in {"trash", "restore"}
         /\ op[a] = "stats" => a = Worker
         /\ a = Worker => op[a] \in {"none", "stats"}
         /\ pc[a] = "idle" <=> op[a] = "none"
BY DEF Typed, TypeOK, LocalsOK, PointsOf, Ops

(* The variables a handler's or the worker's return and unlock change.     *)
ControlTyped ==
    /\ lock \in Procs \cup {None}
    /\ pc \in [Actors -> Points]
    /\ op \in [Actors -> Ops]
    /\ cur \in [Actors -> Ids \cup {0}]
    /\ it \in [Actors -> Items \cup {None}]
    /\ old \in [Actors -> Items \cup {None}]
    /\ path \in [Actors -> Paths \cup {None}]
    /\ dirty \in SUBSET Paths

(* Returning keeps the types of the locals.                                *)
LEMMA ReturnTypes ==
  ASSUME TypeOK, NEW a \in Actors, Return(a)
  PROVE  /\ pc' \in [Actors -> Points]
         /\ op' \in [Actors -> Ops]
         /\ cur' \in [Actors -> Ids \cup {0}]
         /\ it' \in [Actors -> Items \cup {None}]
         /\ old' \in [Actors -> Items \cup {None}]
         /\ path' \in [Actors -> Paths \cup {None}]
BY DEF TypeOK, Return, Points, Ops

(* So does returning with an unlock.                                       *)
LEMMA UnlockTypes ==
  ASSUME TypeOK, NEW a \in Actors, UnlockAndReturn(a)
  PROVE  ControlTyped'
BY ReturnTypes DEF TypeOK, UnlockAndReturn, ControlTyped

(* So does going to another control point.                                 *)
LEMMA GotoTypes ==
  ASSUME TypeOK, NEW a \in Actors, NEW from, NEW to \in Points, Goto(a, from, to),
         UNCHANGED <<lock, locals, dirty>>
  PROVE  ControlTyped'
BY DEF TypeOK, Goto, locals, ControlTyped

(* Marking the current id keeps a set of marked ids a set of ids.          *)
LEMMA TaintTypes ==
  ASSUME TypeOK, NEW a \in Actors, cur[a] \in Ids, NEW hit, Taint(a, hit)
  PROVE  tainted' \in SUBSET Ids
BY DEF TypeOK, Taint
LEMMA LoosenTypes ==
  ASSUME TypeOK, NEW a \in Actors, cur[a] \in Ids, NEW hit, Loosen(a, hit)
  PROVE  loose' \in SUBSET Ids
BY DEF TypeOK, Loosen

(* Returning leaves locals that fit the idle control point.                *)
LEMMA ReturnLocals ==
  ASSUME Typed, NEW a \in Actors, NEW b \in Actors, Return(a)
  PROVE  LocalsOK(b)'
BY DEF Typed, TypeOK, Return, LocalsOK, PointsOf

(* The caller's reaction to a failed storeTrashItem keeps the types.       *)
LEMMA StoreFailedTypes ==
  ASSUME Typed, NEW a \in Actors, NEW hit, StoreFailed(a, hit),
         pc[a] \in {"put", "setIdx"},
         item' \in [Ids -> Items \cup {None}],
         idx' \in [Ids -> SUBSET IndexKeys]
  PROVE  TypeOK'
<1>1. cur[a] \in Ids
  BY LocalsFacts
<1>2. tainted' \in SUBSET Ids
  BY <1>1, TaintTypes DEF Typed, StoreFailed
<1>3. CASE op[a] = "trash"
  <2>1. pc' \in [Actors -> Points]
    BY <1>3 DEF StoreFailed, Typed, TypeOK, Points, LockedPoints, BusyPoints
  <2> QED BY <2>1, <1>3, <1>2 DEF StoreFailed, Typed, TypeOK, disk, locals
<1>4. CASE op[a] = "delete"
  <2>1. UnlockAndReturn(a)
    BY <1>4 DEF StoreFailed
  <2> QED BY <2>1, <1>4, <1>2, UnlockTypes
          DEF StoreFailed, Typed, TypeOK, disk, ControlTyped
<1>5. CASE op[a] = "stats"
  <2>1. Return(a)
    BY <1>5 DEF StoreFailed
  <2> QED BY <2>1, <1>5, <1>2, ReturnTypes DEF StoreFailed, Typed, TypeOK, disk
<1> QED BY <1>3, <1>4, <1>5 DEF StoreFailed

(* The caller's reaction to a failed storeTrashItem keeps the locals.      *)
LEMMA StoreFailedLocals ==
  ASSUME Typed, NEW a \in Actors, NEW b \in Actors, NEW hit,
         StoreFailed(a, hit), pc[a] \in {"put", "setIdx"}
  PROVE  LocalsOK(b)'
<1>1. CASE op[a] = "trash"
  BY <1>1 DEF StoreFailed, Typed, TypeOK, locals, LocalsOK, PointsOf
<1>2. CASE op[a] = "delete"
  BY <1>2, ReturnLocals DEF StoreFailed, UnlockAndReturn
<1>3. CASE op[a] = "stats"
  BY <1>3, ReturnLocals DEF StoreFailed
<1> QED BY <1>1, <1>2, <1>3 DEF StoreFailed

(* A failed write of the record keeps the types.                           *)
LEMMA StoreItemFailsTypes ==
  ASSUME Typed, NEW a \in Actors, StoreItemFails(a)
  PROVE  TypeOK'
<1>1. PICK back \in {Indexed(old[a]), {}} :
        /\ idx' = [idx EXCEPT ![cur[a]] = @ \cup back]
        /\ StoreFailed(a, back # Indexed(old[a]))
  BY DEF StoreItemFails
<1>2. back \in SUBSET IndexKeys
  BY <1>1, ItemFacts DEF Typed, TypeOK
<1>3. idx' \in [Ids -> SUBSET IndexKeys] /\ item' \in [Ids -> Items \cup {None}]
  BY <1>1, <1>2 DEF StoreItemFails, Typed, TypeOK
<1> QED BY <1>1, <1>3, StoreFailedTypes DEF StoreItemFails

(* A failed write of a listing key keeps the types.                        *)
LEMMA StoreIndexesFailsTypes ==
  ASSUME Typed, NEW a \in Actors, StoreIndexesFails(a)
  PROVE  TypeOK'
<1>1. cur[a] \in Ids /\ it[a] \in Items /\ old[a] \in Items \cup {None}
  BY LocalsFacts DEF StoreIndexesFails, Typed, TypeOK
<1>2. /\ KeysOf(it[a]) \in SUBSET IndexKeys
      /\ Indexed(old[a]) \in SUBSET IndexKeys
      /\ idx[cur[a]] \in SUBSET IndexKeys
  BY <1>1, ItemFacts DEF Typed, TypeOK
<1>3. item' \in [Ids -> Items \cup {None}]
  BY <1>1 DEF StoreIndexesFails, Typed, TypeOK
<1>4. PICK keys \in SUBSET IndexKeys : idx' = [idx EXCEPT ![cur[a]] = keys]
  BY <1>2 DEF StoreIndexesFails
<1>5. idx' \in [Ids -> SUBSET IndexKeys]
  BY <1>4 DEF Typed, TypeOK
<1>6. \E hit : StoreFailed(a, hit)
  BY DEF StoreIndexesFails
<1> QED BY <1>3, <1>5, <1>6, StoreFailedTypes DEF StoreIndexesFails

(* Deleting the old record's listing keys keeps the types.                 *)
LEMMA StoreBeginTypes ==
  ASSUME Typed, NEW a \in Actors, StoreBegin(a)
  PROVE  TypeOK'
<1>1. cur[a] \in Ids /\ item[cur[a]] \in Items \cup {None}
  BY LocalsFacts DEF StoreBegin, Goto, Typed, TypeOK
<1>2. \E hit : Loosen(a, hit)
  BY DEF StoreBegin
<1>3. tainted' \in SUBSET Ids /\ loose' \in SUBSET Ids
  BY <1>1, <1>2, TaintTypes, LoosenTypes DEF Typed, StoreBegin
<1>4. \E gone : idx' = [idx EXCEPT ![cur[a]] = @ \ gone]
  BY DEF StoreBegin
<1>5. idx' \in [Ids -> SUBSET IndexKeys]
  BY <1>1, <1>4 DEF Typed, TypeOK
<1>6. old' \in [Actors -> Items \cup {None}]
  BY <1>1 DEF StoreBegin, Typed, TypeOK
<1>7. pc' \in [Actors -> Points]
  BY DEF StoreBegin, Goto, Typed, TypeOK, Points, LockedPoints, BusyPoints
<1> QED BY <1>3, <1>5, <1>6, <1>7 DEF StoreBegin, Typed, TypeOK, disk

(* Setting the listing keys keeps the types.                               *)
LEMMA StoreIndexesTypes ==
  ASSUME Typed, NEW a \in Actors, StoreIndexes(a)
  PROVE  TypeOK'
<1>1. cur[a] \in Ids /\ KeysOf(it[a]) \in SUBSET IndexKeys
  BY LocalsFacts, ItemFacts DEF StoreIndexes
<1>2. idx' \in [Ids -> SUBSET IndexKeys]
  BY <1>1 DEF StoreIndexes, Typed, TypeOK
<1>3. queue' \in SUBSET Ids
  BY <1>1 DEF StoreIndexes, EnqueueStats, Typed, TypeOK
<1>4. ControlTyped'
  BY ReturnTypes, UnlockTypes DEF StoreIndexes, Typed, TypeOK, ControlTyped
<1> QED BY <1>2, <1>3, <1>4 DEF StoreIndexes, Typed, TypeOK, ControlTyped, disk, marks

(* Deleting a record's listing keys keeps the types.                       *)
LEMMA DropIndexesTypes ==
  ASSUME Typed, NEW p \in Procs, DropIndexes(p)
  PROVE  TypeOK'
<1>1. cur[p] \in Ids /\ p \in Actors
  BY LocalsFacts DEF DropIndexes, Actors
<1>2. \E hit : Loosen(p, hit)
  BY DEF DropIndexes
<1>3. \E gone : idx' = [idx EXCEPT ![cur[p]] = @ \ gone]
  BY DEF DropIndexes
<1>4. loose' \in SUBSET Ids
  BY <1>1, <1>2, LoosenTypes DEF Typed
<1>5. idx' \in [Ids -> SUBSET IndexKeys]
  BY <1>1, <1>3 DEF Typed, TypeOK
<1>6. "remove" \in Points
  BY DEF Points, LockedPoints, BusyPoints
<1>7. ControlTyped'
  BY <1>1, <1>6, GotoTypes, UnlockTypes DEF DropIndexes, Typed
<1> QED BY <1>4, <1>5, <1>7 DEF DropIndexes, Typed, TypeOK, ControlTyped, disk

(* Failing to delete them keeps the types.                                 *)
LEMMA DropIndexesFailsTypes ==
  ASSUME Typed, NEW p \in Procs, DropIndexesFails(p)
  PROVE  TypeOK'
<1>1. cur[p] \in Ids /\ p \in Actors
  BY LocalsFacts DEF DropIndexesFails, Actors
<1>2. loose' \in SUBSET Ids /\ orphaned' \in SUBSET Ids
  BY <1>1, LoosenTypes DEF Typed, TypeOK, DropIndexesFails
<1>3. "back" \in Points
  BY DEF Points, LockedPoints, BusyPoints
<1>4. ControlTyped'
  BY <1>1, <1>3, GotoTypes, UnlockTypes DEF DropIndexesFails, Typed
<1> QED BY <1>2, <1>4 DEF DropIndexesFails, Typed, TypeOK, ControlTyped, disk, db

(* Deleting the record keeps the types.                                    *)
LEMMA DropItemTypes ==
  ASSUME Typed, NEW p \in Procs, DropItem(p)
  PROVE  TypeOK'
<1>1. p \in Actors /\ cur[p] \in Ids /\ "dropIdx" \in Points
  BY LocalsFacts DEF DropItem, Goto, Actors, Points, LockedPoints, BusyPoints
<1>2. ControlTyped'
  BY <1>1, GotoTypes DEF DropItem, Typed
<1>3. (\E hit : Taint(p, hit)) \/ tainted' = tainted
  BY DEF DropItem
<1>4. (\E hit : Loosen(p, hit)) \/ loose' = loose
  BY DEF DropItem
<1>5. tainted' \in SUBSET Ids /\ loose' \in SUBSET Ids
  BY <1>1, <1>3, <1>4, TaintTypes, LoosenTypes DEF Typed, TypeOK
<1> QED BY <1>2, <1>5 DEF DropItem, Typed, TypeOK, ControlTyped, disk

(* Failing to delete the record keeps the types.                           *)
LEMMA DropItemFailsTypes ==
  ASSUME Typed, NEW p \in Procs, DropItemFails(p)
  PROVE  TypeOK'
<1>1. p \in Actors /\ "back" \in Points
  BY DEF Actors, Points, LockedPoints, BusyPoints
<1>2. ControlTyped'
  BY <1>1, GotoTypes, UnlockTypes DEF DropItemFails, Typed
<1> QED BY <1>2 DEF DropItemFails, Typed, TypeOK, ControlTyped, disk, db, marks

(* What a failed storeTrashItem does to everything but the listing keys.   *)
GivesUp(a) ==
    /\ pc[a] \in {"put", "setIdx"}
    /\ UNCHANGED <<disk, queue, nextId, loose, orphaned>>
    /\ \A i \in Ids \ {cur[a]} : item'[i] = item[i]
    /\ \/ /\ op[a] = "trash"
          /\ pc' = [pc EXCEPT ![a] = "back"]
          /\ UNCHANGED <<lock, locals, dirty>>
       \/ op[a] = "delete" /\ UnlockAndReturn(a)
       \/ op[a] = "stats" /\ Return(a) /\ UNCHANGED <<lock, dirty>>

(* A failed write of the record is such a failure.                         *)
LEMMA StoreItemGivesUp ==
  ASSUME Typed, NEW a \in Actors, StoreItemFails(a)
  PROVE  GivesUp(a)
<1>1. PICK hit : StoreFailed(a, hit)
  BY DEF StoreItemFails
<1>2. \A i \in Ids \ {cur[a]} : item'[i] = item[i]
  BY DEF StoreItemFails
<1>3. pc[a] \in {"put", "setIdx"}
  BY DEF StoreItemFails
<1> QED BY <1>1, <1>2, <1>3 DEF StoreFailed, GivesUp

(* A failed write of a listing key is such a failure.                      *)
LEMMA StoreIndexesGivesUp ==
  ASSUME Typed, NEW a \in Actors, StoreIndexesFails(a)
  PROVE  GivesUp(a)
<1>1. PICK hit : StoreFailed(a, hit)
  BY DEF StoreIndexesFails
<1>2. \E r : item' = [item EXCEPT ![cur[a]] = r]
  BY DEF StoreIndexesFails
<1>3. \A i \in Ids \ {cur[a]} : item'[i] = item[i]
  BY <1>2 DEF Typed, TypeOK
<1>4. pc[a] \in {"put", "setIdx"}
  BY DEF StoreIndexesFails
<1> QED BY <1>1, <1>3, <1>4 DEF StoreFailed, GivesUp

(* What starting storeTrashItem does to the control points.                *)
(* storeTrashItem starts in a handler's critical section or in the worker. *)
LEMMA StoreBegins ==
  ASSUME Typed, NEW a \in Actors, StoreBegin(a)
  PROVE  /\ pc[a] = "begin" \/ (pc[a] = "wBegin" /\ a = Worker)
         /\ pc' = [pc EXCEPT ![a] = "put"]
         /\ UNCHANGED <<lock, dirty, live, path, op>>
<1>1. UNCHANGED <<lock, dirty, live, path, op>>
  BY DEF StoreBegin, disk
<1>2. pc[a] \in {"begin", "wBegin"} /\ pc' = [pc EXCEPT ![a] = "put"]
  BY DEF StoreBegin, Goto
<1>3. pc[a] = "wBegin" => a = Worker
  BY OpFacts
<1> QED BY <1>1, <1>2, <1>3

(* Every step keeps the types.                                             *)
LEMMA TypeStep == Typed /\ [Next]_vars => TypeOK'
<1> SUFFICES ASSUME Typed, [Next]_vars PROVE TypeOK'
    OBVIOUS
<1> USE LocalsFacts, ItemFacts, ActorsAssumption, MaxItemsAssumption, NoneAssumption
    DEF Typed, TypeOK, Actors, Ids, Points, LockedPoints,
        BusyPoints, Ops, disk, db, locals, marks, Goto, Return,
        UnlockAndReturn, Taint, Loosen
<1>1. ASSUME NEW p \in Procs, NEW q \in Paths, TrashStart(p, q) PROVE TypeOK'
  BY <1>1, SMTT(30) DEF TrashStart, Start
<1>2. ASSUME NEW p \in Procs, NEW i \in Ids, RestoreStart(p, i) PROVE TypeOK'
  BY <1>2 DEF RestoreStart, Start, Known
<1>3. ASSUME NEW p \in Procs, NEW i \in Ids, DeleteStart(p, i) PROVE TypeOK'
  BY <1>3 DEF DeleteStart, Start, Known
<1>4. ASSUME NEW p \in Procs, Acquire(p) PROVE TypeOK'
  BY <1>4 DEF Acquire, AfterLock, LockGranted
<1>5. ASSUME NEW p \in Procs, LockFails(p) PROVE TypeOK'
  BY <1>5 DEF LockFails
<1>6. ASSUME NEW p \in Procs, RawRemove(p) PROVE TypeOK'
  BY <1>6 DEF RawRemove
<1>7. ASSUME NEW p \in Procs, TrashMove(p) PROVE TypeOK'
  BY <1>7 DEF TrashMove
<1>8. ASSUME NEW p \in Procs, TrashMoveFails(p) PROVE TypeOK'
  BY <1>8 DEF TrashMoveFails
<1>9. ASSUME NEW p \in Procs, TrashBack(p) PROVE TypeOK'
  BY <1>9, ZenonT(30) DEF TrashBack
<1>10. ASSUME NEW p \in Procs, RestoreStat(p) PROVE TypeOK'
  BY <1>10 DEF RestoreStat
<1>11. ASSUME NEW p \in Procs, RestoreStatFails(p) PROVE TypeOK'
  BY <1>11 DEF RestoreStatFails
<1>12. ASSUME NEW p \in Procs, RestoreMove(p) PROVE TypeOK'
  BY <1>12 DEF RestoreMove
<1>13. ASSUME NEW p \in Procs, RestoreMoveFails(p) PROVE TypeOK'
  BY <1>13 DEF RestoreMoveFails
<1>14. ASSUME NEW p \in Procs, RestoreBack(p) PROVE TypeOK'
  BY <1>14, ZenonT(30) DEF RestoreBack
<1>15. ASSUME NEW p \in Procs, DropItem(p) PROVE TypeOK'
  BY <1>15, DropItemTypes
<1>16. ASSUME NEW p \in Procs, DropItemFails(p) PROVE TypeOK'
  BY <1>16, DropItemFailsTypes
<1>17. ASSUME NEW p \in Procs, DropIndexes(p) PROVE TypeOK'
  BY <1>17, DropIndexesTypes
<1>18. ASSUME NEW p \in Procs, DropIndexesFails(p) PROVE TypeOK'
  BY <1>18, DropIndexesFailsTypes
<1>19. ASSUME NEW p \in Procs, DeleteRemove(p) PROVE TypeOK'
  BY <1>19 DEF DeleteRemove
<1>20. ASSUME NEW p \in Procs, DeleteRemoveFails(p) PROVE TypeOK'
  BY <1>20 DEF DeleteRemoveFails
<1>21. ASSUME NEW b \in Actors, StoreBegin(b) PROVE TypeOK'
  BY <1>21, StoreBeginTypes
<1>22. ASSUME NEW b \in Actors, StoreItem(b) PROVE TypeOK'
  BY <1>22 DEF StoreItem
<1>23. ASSUME NEW b \in Actors, StoreItemFails(b) PROVE TypeOK'
  BY <1>23, StoreItemFailsTypes
<1>24. ASSUME NEW b \in Actors, StoreIndexes(b) PROVE TypeOK'
  BY <1>24, StoreIndexesTypes
<1>25. ASSUME NEW b \in Actors, StoreIndexesFails(b) PROVE TypeOK'
  BY <1>25, StoreIndexesFailsTypes
<1>26. ASSUME NEW i \in Ids, WorkerTake(i) PROVE TypeOK'
  BY <1>26 DEF WorkerTake
<1>27. ASSUME WorkerStat PROVE TypeOK'
  BY <1>27 DEF WorkerStat
<1>28. ASSUME WorkerStatFails PROVE TypeOK'
  BY <1>28 DEF WorkerStatFails
<1>29. ASSUME NEW q \in Paths, NEW f \in Files, UserCreate(q, f) PROVE TypeOK'
  BY <1>29 DEF UserCreate
<1>30. ASSUME NEW q \in Paths, UserRemove(q) PROVE TypeOK'
  BY <1>30 DEF UserRemove
<1>31. ASSUME Crash PROVE TypeOK'
  BY <1>31 DEF Crash
<1>32. CASE UNCHANGED vars
  BY <1>32 DEF vars
<1> QED BY <1>1, <1>2, <1>3, <1>4, <1>5, <1>6, <1>7, <1>8, <1>9, <1>10, <1>11, <1>12, <1>13, <1>14, <1>15, <1>16, <1>17, <1>18, <1>19, <1>20, <1>21, <1>22, <1>23, <1>24, <1>25, <1>26, <1>27, <1>28, <1>29, <1>30, <1>31, <1>32
  DEF Next, Request, Locked, Store, WorkerStep, User, Actors

(* Every step keeps control points, operations and locals in agreement.    *)
LEMMA LocalsStep == Typed /\ [Next]_vars => \A a \in Actors : LocalsOK(a)'
<1> SUFFICES ASSUME Typed, [Next]_vars, NEW a \in Actors PROVE LocalsOK(a)'
    OBVIOUS
<1> USE LocalsFacts, ItemFacts, ActorsAssumption, MaxItemsAssumption, NoneAssumption
    DEF Typed, TypeOK, LocalsOK, PointsOf, Actors, Ids, Ops, disk, db, locals, Goto, Return,
        UnlockAndReturn
<1>1. ASSUME NEW p \in Procs, NEW q \in Paths, TrashStart(p, q) PROVE LocalsOK(a)'
  BY <1>1 DEF TrashStart, Start
<1>2. ASSUME NEW p \in Procs, NEW i \in Ids, RestoreStart(p, i) PROVE LocalsOK(a)'
  BY <1>2 DEF RestoreStart, Start, Known
<1>3. ASSUME NEW p \in Procs, NEW i \in Ids, DeleteStart(p, i) PROVE LocalsOK(a)'
  BY <1>3 DEF DeleteStart, Start, Known
<1>4. ASSUME NEW p \in Procs, Acquire(p) PROVE LocalsOK(a)'
  BY <1>4 DEF Acquire, AfterLock, LockGranted
<1>5. ASSUME NEW p \in Procs, LockFails(p) PROVE LocalsOK(a)'
  BY <1>5 DEF LockFails
<1>6. ASSUME NEW p \in Procs, RawRemove(p) PROVE LocalsOK(a)'
  BY <1>6 DEF RawRemove
<1>7. ASSUME NEW p \in Procs, TrashMove(p) PROVE LocalsOK(a)'
  BY <1>7 DEF TrashMove
<1>8. ASSUME NEW p \in Procs, TrashMoveFails(p) PROVE LocalsOK(a)'
  BY <1>8 DEF TrashMoveFails
<1>9. ASSUME NEW p \in Procs, TrashBack(p) PROVE LocalsOK(a)'
  BY <1>9 DEF TrashBack
<1>10. ASSUME NEW p \in Procs, RestoreStat(p) PROVE LocalsOK(a)'
  BY <1>10 DEF RestoreStat
<1>11. ASSUME NEW p \in Procs, RestoreStatFails(p) PROVE LocalsOK(a)'
  BY <1>11 DEF RestoreStatFails
<1>12. ASSUME NEW p \in Procs, RestoreMove(p) PROVE LocalsOK(a)'
  BY <1>12 DEF RestoreMove
<1>13. ASSUME NEW p \in Procs, RestoreMoveFails(p) PROVE LocalsOK(a)'
  BY <1>13 DEF RestoreMoveFails
<1>14. ASSUME NEW p \in Procs, RestoreBack(p) PROVE LocalsOK(a)'
  BY <1>14 DEF RestoreBack
<1>15. ASSUME NEW p \in Procs, DropItem(p) PROVE LocalsOK(a)'
  BY <1>15 DEF DropItem
<1>16. ASSUME NEW p \in Procs, DropItemFails(p) PROVE LocalsOK(a)'
  BY <1>16 DEF DropItemFails
<1>17. ASSUME NEW p \in Procs, DropIndexes(p) PROVE LocalsOK(a)'
  <2>1. CASE op[p] = "restore"
    BY <1>17, <2>1, ReturnLocals DEF DropIndexes
  <2>2. CASE op[p] = "delete"
    BY <1>17, <2>2, ZenonT(30) DEF DropIndexes
  <2> QED BY <1>17, <2>1, <2>2 DEF DropIndexes
<1>18. ASSUME NEW p \in Procs, DropIndexesFails(p) PROVE LocalsOK(a)'
  <2>1. CASE op[p] = "restore"
    BY <1>18, <2>1, ZenonT(30) DEF DropIndexesFails
  <2>2. CASE op[p] = "delete"
    BY <1>18, <2>2, ReturnLocals DEF DropIndexesFails
  <2> QED BY <1>18, <2>1, <2>2 DEF DropIndexesFails
<1>19. ASSUME NEW p \in Procs, DeleteRemove(p) PROVE LocalsOK(a)'
  BY <1>19 DEF DeleteRemove
<1>20. ASSUME NEW p \in Procs, DeleteRemoveFails(p) PROVE LocalsOK(a)'
  BY <1>20 DEF DeleteRemoveFails
<1>21. ASSUME NEW b \in Actors, StoreBegin(b) PROVE LocalsOK(a)'
  BY <1>21, ZenonT(30) DEF StoreBegin, OldKeys
<1>22. ASSUME NEW b \in Actors, StoreItem(b) PROVE LocalsOK(a)'
  BY <1>22 DEF StoreItem
<1>23. ASSUME NEW b \in Actors, StoreItemFails(b) PROVE LocalsOK(a)'
  BY <1>23, StoreFailedLocals DEF StoreItemFails
<1>24. ASSUME NEW b \in Actors, StoreIndexes(b) PROVE LocalsOK(a)'
  BY <1>24 DEF StoreIndexes, EnqueueStats
<1>25. ASSUME NEW b \in Actors, StoreIndexesFails(b) PROVE LocalsOK(a)'
  BY <1>25, StoreFailedLocals DEF StoreIndexesFails
<1>26. ASSUME NEW i \in Ids, WorkerTake(i) PROVE LocalsOK(a)'
  BY <1>26 DEF WorkerTake
<1>27. ASSUME WorkerStat PROVE LocalsOK(a)'
  BY <1>27 DEF WorkerStat
<1>28. ASSUME WorkerStatFails PROVE LocalsOK(a)'
  BY <1>28 DEF WorkerStatFails
<1>29. ASSUME NEW q \in Paths, NEW f \in Files, UserCreate(q, f) PROVE LocalsOK(a)'
  BY <1>29 DEF UserCreate
<1>30. ASSUME NEW q \in Paths, UserRemove(q) PROVE LocalsOK(a)'
  BY <1>30 DEF UserRemove
<1>31. ASSUME Crash PROVE LocalsOK(a)'
  BY <1>31 DEF Crash
<1>32. CASE UNCHANGED vars
  BY <1>32 DEF vars
<1> QED BY <1>1, <1>2, <1>3, <1>4, <1>5, <1>6, <1>7, <1>8, <1>9, <1>10, <1>11, <1>12, <1>13, <1>14, <1>15, <1>16, <1>17, <1>18, <1>19, <1>20, <1>21, <1>22, <1>23, <1>24, <1>25, <1>26, <1>27, <1>28, <1>29, <1>30, <1>31, <1>32
  DEF Next, Request, Locked, Store, WorkerStep, User, Actors

(* Variables keep their types, control points fit the operations, and the  *)
(* locals an operation needs are set.                                      *)
THEOREM TypedAlways == Spec => []Typed
<1>1. Typed /\ [Next]_vars => Typed'
  BY TypeStep, LocalsStep DEF Typed
<1> QED BY <1>1, TypedInit, PTL DEF Spec

(* The variables of the trash have their types, at every step of an        *)
(* operation and after every failure and restart.                          *)
THEOREM TypeCorrect == Spec => []TypeOK
BY TypedAlways, PTL DEF Typed

(***************************************************************************)
(* What the flock on .lock gives: mutual exclusion of the handlers, and no *)
(* handler renames over a file that another handler put in place.          *)
(***************************************************************************)
(* The lock is free and no handler is in its critical section initially.   *)
LEMMA LockInit == Init => Exclusive /\ TargetsFree
BY NoneAssumption
   DEF Init, Exclusive, TargetsFree, Overwritable, LockedPoints, BusyPoints, Actors

(* Every step keeps the flock with the handler in its critical section.    *)
LEMMA ExclusiveStep == Typed /\ Exclusive /\ [Next]_vars => Exclusive'
<1> SUFFICES ASSUME Typed, Exclusive, [Next]_vars PROVE Exclusive'
    OBVIOUS
<1> USE LocalsFacts, OpFacts, ActorsAssumption, NoneAssumption
    DEF Typed, TypeOK, Exclusive, Actors, LockedPoints, BusyPoints, locals, Goto, Return, UnlockAndReturn
<1>1. ASSUME NEW p \in Procs, NEW q \in Paths, TrashStart(p, q) PROVE Exclusive'
  BY <1>1 DEF TrashStart, Start
<1>2. ASSUME NEW p \in Procs, NEW i \in Ids, RestoreStart(p, i) PROVE Exclusive'
  BY <1>2 DEF RestoreStart, Start, Known
<1>3. ASSUME NEW p \in Procs, NEW i \in Ids, DeleteStart(p, i) PROVE Exclusive'
  BY <1>3 DEF DeleteStart, Start, Known
<1>4. ASSUME NEW p \in Procs, Acquire(p) PROVE Exclusive'
  BY <1>4 DEF Acquire, AfterLock, LockGranted
<1>5. ASSUME NEW p \in Procs, LockFails(p) PROVE Exclusive'
  BY <1>5 DEF LockFails
<1>6. ASSUME NEW p \in Procs, RawRemove(p) PROVE Exclusive'
  BY <1>6 DEF RawRemove
<1>7. ASSUME NEW p \in Procs, TrashMove(p) PROVE Exclusive'
  BY <1>7 DEF TrashMove
<1>8. ASSUME NEW p \in Procs, TrashMoveFails(p) PROVE Exclusive'
  BY <1>8 DEF TrashMoveFails
<1>9. ASSUME NEW p \in Procs, TrashBack(p) PROVE Exclusive'
  BY <1>9 DEF TrashBack
<1>10. ASSUME NEW p \in Procs, RestoreStat(p) PROVE Exclusive'
  BY <1>10 DEF RestoreStat
<1>11. ASSUME NEW p \in Procs, RestoreStatFails(p) PROVE Exclusive'
  BY <1>11 DEF RestoreStatFails
<1>12. ASSUME NEW p \in Procs, RestoreMove(p) PROVE Exclusive'
  BY <1>12 DEF RestoreMove
<1>13. ASSUME NEW p \in Procs, RestoreMoveFails(p) PROVE Exclusive'
  BY <1>13 DEF RestoreMoveFails
<1>14. ASSUME NEW p \in Procs, RestoreBack(p) PROVE Exclusive'
  BY <1>14 DEF RestoreBack
<1>15. ASSUME NEW p \in Procs, DropItem(p) PROVE Exclusive'
  BY <1>15 DEF DropItem
<1>16. ASSUME NEW p \in Procs, DropItemFails(p) PROVE Exclusive'
  BY <1>16 DEF DropItemFails
<1>17. ASSUME NEW p \in Procs, DropIndexes(p) PROVE Exclusive'
  BY <1>17 DEF DropIndexes
<1>18. ASSUME NEW p \in Procs, DropIndexesFails(p) PROVE Exclusive'
  BY <1>18 DEF DropIndexesFails
<1>19. ASSUME NEW p \in Procs, DeleteRemove(p) PROVE Exclusive'
  BY <1>19 DEF DeleteRemove
<1>20. ASSUME NEW p \in Procs, DeleteRemoveFails(p) PROVE Exclusive'
  BY <1>20 DEF DeleteRemoveFails
<1>21. ASSUME NEW b \in Actors, StoreBegin(b) PROVE Exclusive'
  BY <1>21, StoreBegins
<1>22. ASSUME NEW b \in Actors, StoreItem(b) PROVE Exclusive'
  BY <1>22 DEF StoreItem
<1>23. ASSUME NEW b \in Actors, StoreItemFails(b) PROVE Exclusive'
  <2>1. GivesUp(b)
    BY <1>23, StoreItemGivesUp
  <2>2. CASE op[b] = "trash"
    BY <2>1, <2>2 DEF GivesUp
  <2>3. CASE op[b] = "delete"
    BY <2>1, <2>3 DEF GivesUp
  <2>4. CASE op[b] = "stats"
    BY <2>1, <2>4 DEF GivesUp
  <2> QED BY <2>1, <2>2, <2>3, <2>4 DEF GivesUp
<1>24. ASSUME NEW b \in Actors, StoreIndexes(b) PROVE Exclusive'
  BY <1>24 DEF StoreIndexes, EnqueueStats
<1>25. ASSUME NEW b \in Actors, StoreIndexesFails(b) PROVE Exclusive'
  <2>1. GivesUp(b)
    BY <1>25, StoreIndexesGivesUp
  <2>2. CASE op[b] = "trash"
    BY <2>1, <2>2 DEF GivesUp
  <2>3. CASE op[b] = "delete"
    BY <2>1, <2>3 DEF GivesUp
  <2>4. CASE op[b] = "stats"
    BY <2>1, <2>4 DEF GivesUp
  <2> QED BY <2>1, <2>2, <2>3, <2>4 DEF GivesUp
<1>26. ASSUME NEW i \in Ids, WorkerTake(i) PROVE Exclusive'
  BY <1>26 DEF WorkerTake
<1>27. ASSUME WorkerStat PROVE Exclusive'
  BY <1>27 DEF WorkerStat
<1>28. ASSUME WorkerStatFails PROVE Exclusive'
  BY <1>28 DEF WorkerStatFails
<1>29. ASSUME NEW q \in Paths, NEW f \in Files, UserCreate(q, f) PROVE Exclusive'
  BY <1>29 DEF UserCreate
<1>30. ASSUME NEW q \in Paths, UserRemove(q) PROVE Exclusive'
  BY <1>30 DEF UserRemove
<1>31. ASSUME Crash PROVE Exclusive'
  BY <1>31 DEF Crash
<1>32. CASE UNCHANGED vars
  BY <1>32 DEF vars
<1> QED BY <1>1, <1>2, <1>3, <1>4, <1>5, <1>6, <1>7, <1>8, <1>9, <1>10, <1>11, <1>12, <1>13, <1>14, <1>15, <1>16, <1>17, <1>18, <1>19, <1>20, <1>21, <1>22, <1>23, <1>24, <1>25, <1>26, <1>27, <1>28, <1>29, <1>30, <1>31, <1>32
  DEF Next, Request, Locked, Store, WorkerStep, User, Actors

(* Every step keeps the target of a pending rename free of everything but  *)
(* what a user put there while the handler held the lock.                  *)
LEMMA TargetsFreeStep ==
  Typed /\ Exclusive /\ TargetsFree /\ [Next]_vars => TargetsFree'
<1> SUFFICES ASSUME Typed, Exclusive, TargetsFree, [Next]_vars PROVE TargetsFree'
    OBVIOUS
<1> USE LocalsFacts, OpFacts, ActorsAssumption, NoneAssumption
    DEF Typed, TypeOK, Exclusive, TargetsFree, Overwritable, Actors, LockedPoints, BusyPoints, disk, locals, Goto, Return, UnlockAndReturn
<1>1. ASSUME NEW p \in Procs, NEW q \in Paths, TrashStart(p, q) PROVE TargetsFree'
  BY <1>1 DEF TrashStart, Start
<1>2. ASSUME NEW p \in Procs, NEW i \in Ids, RestoreStart(p, i) PROVE TargetsFree'
  BY <1>2 DEF RestoreStart, Start, Known
<1>3. ASSUME NEW p \in Procs, NEW i \in Ids, DeleteStart(p, i) PROVE TargetsFree'
  BY <1>3 DEF DeleteStart, Start, Known
<1>4. ASSUME NEW p \in Procs, Acquire(p) PROVE TargetsFree'
  BY <1>4 DEF Acquire, AfterLock, LockGranted
<1>5. ASSUME NEW p \in Procs, LockFails(p) PROVE TargetsFree'
  BY <1>5 DEF LockFails
<1>6. ASSUME NEW p \in Procs, RawRemove(p) PROVE TargetsFree'
  BY <1>6 DEF RawRemove
<1>7. ASSUME NEW p \in Procs, TrashMove(p) PROVE TargetsFree'
  BY <1>7 DEF TrashMove
<1>8. ASSUME NEW p \in Procs, TrashMoveFails(p) PROVE TargetsFree'
  BY <1>8 DEF TrashMoveFails
<1>9. ASSUME NEW p \in Procs, TrashBack(p) PROVE TargetsFree'
  BY <1>9 DEF TrashBack
<1>10. ASSUME NEW p \in Procs, RestoreStat(p) PROVE TargetsFree'
  BY <1>10 DEF RestoreStat
<1>11. ASSUME NEW p \in Procs, RestoreStatFails(p) PROVE TargetsFree'
  BY <1>11 DEF RestoreStatFails
<1>12. ASSUME NEW p \in Procs, RestoreMove(p) PROVE TargetsFree'
  BY <1>12 DEF RestoreMove
<1>13. ASSUME NEW p \in Procs, RestoreMoveFails(p) PROVE TargetsFree'
  BY <1>13 DEF RestoreMoveFails
<1>14. ASSUME NEW p \in Procs, RestoreBack(p) PROVE TargetsFree'
  BY <1>14 DEF RestoreBack
<1>15. ASSUME NEW p \in Procs, DropItem(p) PROVE TargetsFree'
  BY <1>15 DEF DropItem
<1>16. ASSUME NEW p \in Procs, DropItemFails(p) PROVE TargetsFree'
  BY <1>16 DEF DropItemFails
<1>17. ASSUME NEW p \in Procs, DropIndexes(p) PROVE TargetsFree'
  BY <1>17 DEF DropIndexes
<1>18. ASSUME NEW p \in Procs, DropIndexesFails(p) PROVE TargetsFree'
  BY <1>18 DEF DropIndexesFails
<1>19. ASSUME NEW p \in Procs, DeleteRemove(p) PROVE TargetsFree'
  BY <1>19 DEF DeleteRemove
<1>20. ASSUME NEW p \in Procs, DeleteRemoveFails(p) PROVE TargetsFree'
  BY <1>20 DEF DeleteRemoveFails
<1>21. ASSUME NEW b \in Actors, StoreBegin(b) PROVE TargetsFree'
  BY <1>21, StoreBegins
<1>22. ASSUME NEW b \in Actors, StoreItem(b) PROVE TargetsFree'
  BY <1>22 DEF StoreItem
<1>23. ASSUME NEW b \in Actors, StoreItemFails(b) PROVE TargetsFree'
  <2>1. GivesUp(b)
    BY <1>23, StoreItemGivesUp
  <2>2. CASE op[b] = "trash"
    BY <2>1, <2>2 DEF GivesUp
  <2>3. CASE op[b] = "delete"
    BY <2>1, <2>3 DEF GivesUp
  <2>4. CASE op[b] = "stats"
    BY <2>1, <2>4 DEF GivesUp
  <2> QED BY <2>1, <2>2, <2>3, <2>4 DEF GivesUp
<1>24. ASSUME NEW b \in Actors, StoreIndexes(b) PROVE TargetsFree'
  BY <1>24 DEF StoreIndexes, EnqueueStats
<1>25. ASSUME NEW b \in Actors, StoreIndexesFails(b) PROVE TargetsFree'
  <2>1. GivesUp(b)
    BY <1>25, StoreIndexesGivesUp
  <2>2. CASE op[b] = "trash"
    BY <2>1, <2>2 DEF GivesUp
  <2>3. CASE op[b] = "delete"
    BY <2>1, <2>3 DEF GivesUp
  <2>4. CASE op[b] = "stats"
    BY <2>1, <2>4 DEF GivesUp
  <2> QED BY <2>1, <2>2, <2>3, <2>4 DEF GivesUp
<1>26. ASSUME NEW i \in Ids, WorkerTake(i) PROVE TargetsFree'
  BY <1>26 DEF WorkerTake
<1>27. ASSUME WorkerStat PROVE TargetsFree'
  BY <1>27 DEF WorkerStat
<1>28. ASSUME WorkerStatFails PROVE TargetsFree'
  BY <1>28 DEF WorkerStatFails
<1>29. ASSUME NEW q \in Paths, NEW f \in Files, UserCreate(q, f) PROVE TargetsFree'
  BY <1>29 DEF UserCreate
<1>30. ASSUME NEW q \in Paths, UserRemove(q) PROVE TargetsFree'
  BY <1>30 DEF UserRemove
<1>31. ASSUME Crash PROVE TargetsFree'
  BY <1>31 DEF Crash
<1>32. CASE UNCHANGED vars
  BY <1>32 DEF vars
<1> QED BY <1>1, <1>2, <1>3, <1>4, <1>5, <1>6, <1>7, <1>8, <1>9, <1>10, <1>11, <1>12, <1>13, <1>14, <1>15, <1>16, <1>17, <1>18, <1>19, <1>20, <1>21, <1>22, <1>23, <1>24, <1>25, <1>26, <1>27, <1>28, <1>29, <1>30, <1>31, <1>32
  DEF Next, Request, Locked, Store, WorkerStep, User, Actors

(* Mutual exclusion: exactly the handler that holds the flock is between   *)
(* its Acquire and its Unlock, so there is never more than one.            *)
THEOREM ExclusiveAlways == Spec => []Exclusive
<1>1. Typed /\ Exclusive /\ [Next]_vars => Exclusive'
  BY ExclusiveStep
<1> QED BY <1>1, LockInit, TypedAlways, PTL DEF Spec

(* The target of every pending rename is free, or a user filled it while   *)
(* the handler held the lock.                                              *)
THEOREM TargetsFreeAlways == Spec => []TargetsFree
<1>1. Typed /\ Exclusive /\ TargetsFree /\ [Next]_vars => TargetsFree'
  BY TargetsFreeStep
<1> QED BY <1>1, LockInit, TypedAlways, ExclusiveAlways, PTL DEF Spec

(* A step that replaces a file by another one renames over a file a user   *)
(* put there.                                                              *)
LEMMA ClobberStep ==
  Typed /\ TargetsFree /\ [Next]_vars =>
    [\A q \in Paths : live[q] # None /\ live'[q] \notin {live[q], None}
                         => q \in dirty]_vars
<1> SUFFICES ASSUME Typed, TargetsFree, Next, NEW q \in Paths,
                    live[q] # None, live'[q] \notin {live[q], None}
             PROVE  q \in dirty
    OBVIOUS
<1>1. PICK p \in Procs : TrashBack(p) \/ RestoreMove(p)
  <2>1. ~UNCHANGED live
    OBVIOUS
  <2>2. ASSUME NEW p \in Procs, Request(p) \/ Acquire(p) \/ LockFails(p) \/ RawRemove(p)
        PROVE  FALSE
    BY <2>1, <2>2 DEF Request, TrashStart, RestoreStart, DeleteStart, Start,
                      Acquire, LockFails, RawRemove, disk
  <2>3. ASSUME NEW a \in Actors, Store(a) PROVE FALSE
    BY <2>1, <2>3, StoreItemGivesUp, StoreIndexesGivesUp, StoreBegins
       DEF Store, StoreItem, StoreIndexes, GivesUp, disk
  <2>4. ASSUME NEW p \in Procs, TrashMove(p) \/ RestoreBack(p) PROVE FALSE
    BY <2>4 DEF TrashMove, RestoreBack, disk, Typed, TypeOK
  <2>5. ASSUME NEW p \in Procs, Locked(p), ~TrashBack(p), ~RestoreMove(p)
        PROVE  FALSE
    BY <2>1, <2>3, <2>4, <2>5
       DEF Locked, TrashMoveFails, RestoreStat, RestoreStatFails,
           RestoreMoveFails, DropItem, DropItemFails, DropIndexes,
           DropIndexesFails, DeleteRemove, DeleteRemoveFails, disk, Actors
  <2>6. ASSUME WorkerStep \/ Crash PROVE FALSE
    BY <2>1, <2>3, <2>6
       DEF WorkerStep, WorkerTake, WorkerStat, WorkerStatFails, Crash, disk, Actors
  <2>7. ASSUME User PROVE FALSE
    BY <2>7 DEF User, UserCreate, UserRemove, Typed, TypeOK
  <2> QED BY <2>2, <2>5, <2>6, <2>7 DEF Next
<1>2. q = path[p] /\ Overwritable(p)
  BY <1>1 DEF TrashBack, RestoreMove, Goto, disk, Overwritable, Typed, TypeOK
<1> QED BY <1>2 DEF TargetsFree

(* No handler's rename overwrites a file, unless a user put it there after *)
(* the handler took the lock.                                              *)
THEOREM NeverClobbers == Spec => NoClobber
<1>1. Typed /\ TargetsFree /\ [Next]_vars =>
        [\A q \in Paths : live[q] # None /\ live'[q] \notin {live[q], None}
                             => q \in dirty]_vars
  BY ClobberStep
<1> QED BY <1>1, TypedAlways, TargetsFreeAlways, PTL DEF Spec, NoClobber

(***************************************************************************)
(* The file, the record and the listing keys of an id agree whenever no    *)
(* operation is between two of its writes.                                 *)
(***************************************************************************)
(* No id is handed out in an initial state.                                *)
LEMMA FreshIdsInit == Init => FreshIds
BY ActorsAssumption, MaxItemsAssumption
   DEF Init, FreshIds, Unmoved, Actors, Ids

(* A return that has touched no other id keeps unknown ids unknown.        *)
LEMMA ReturnFresh ==
  ASSUME Typed, FreshIds, NEW a \in Actors, Return(a),
         \A i \in Ids \ {cur[a]} : item'[i] = item[i],
         queue' \subseteq queue \cup {cur[a]}, nextId' = nextId
  PROVE  FreshIds'
<1> SUFFICES ASSUME NEW i \in Ids, Unmoved(i)'
    PROVE  /\ item'[i] = None /\ i \notin queue'
           /\ \A b \in Actors :
                 cur'[b] = i => op'[b] = "trash" /\ pc'[b] \in {"lock", "tMove"}
           /\ \A b, c \in Actors : cur'[b] = i /\ cur'[c] = i => b = c
           /\ i >= nextId' => \A b \in Actors : cur'[b] # i
    BY DEF FreshIds
<1>1. /\ pc'[a] = "idle" /\ cur'[a] = 0 /\ i # 0
      /\ \A b \in Actors \ {a} :
            pc'[b] = pc[b] /\ op'[b] = op[b] /\ cur'[b] = cur[b]
  BY DEF Return, Typed, TypeOK, Ids
<1>2. Unmoved(i) /\ i # cur[a]
  <2>1. CASE i >= nextId
    BY <2>1 DEF Unmoved, FreshIds
  <2>2. CASE ~(i >= nextId)
    <3>1. PICK p \in Procs \ {a} :
            op[p] = "trash" /\ pc[p] \in {"lock", "tMove"} /\ cur[p] = i
      BY <1>1, <2>2 DEF Unmoved, Actors
    <3> QED BY <3>1 DEF Unmoved, FreshIds, Actors
  <2> QED BY <2>1, <2>2
<1> QED BY <1>1, <1>2 DEF FreshIds

(* Every step keeps ids unknown to everybody else until their file is      *)
(* moved.                                                                  *)
LEMMA FreshIdsStep ==
  Typed /\ FreshIds /\ [Next]_vars => FreshIds'
<1> SUFFICES ASSUME Typed, FreshIds, [Next]_vars PROVE FreshIds'
    OBVIOUS
<1> USE LocalsFacts, OpFacts, ActorsAssumption, NoneAssumption
    DEF Typed, TypeOK, FreshIds, Unmoved, Actors, Ids, db, locals, Goto, Return, UnlockAndReturn
<1>1. ASSUME NEW p \in Procs, NEW q \in Paths, TrashStart(p, q) PROVE FreshIds'
  BY <1>1 DEF TrashStart, Start
<1>2. ASSUME NEW p \in Procs, NEW i \in Ids, RestoreStart(p, i) PROVE FreshIds'
  BY <1>2 DEF RestoreStart, Start, Known
<1>3. ASSUME NEW p \in Procs, NEW i \in Ids, DeleteStart(p, i) PROVE FreshIds'
  BY <1>3 DEF DeleteStart, Start, Known
<1>4. ASSUME NEW p \in Procs, Acquire(p) PROVE FreshIds'
  BY <1>4 DEF Acquire, AfterLock, LockGranted
<1>5. ASSUME NEW p \in Procs, LockFails(p) PROVE FreshIds'
  BY <1>5 DEF LockFails
<1>6. ASSUME NEW p \in Procs, RawRemove(p) PROVE FreshIds'
  BY <1>6 DEF RawRemove
<1>7. ASSUME NEW p \in Procs, TrashMove(p) PROVE FreshIds'
  BY <1>7 DEF TrashMove
<1>8. ASSUME NEW p \in Procs, TrashMoveFails(p) PROVE FreshIds'
  BY <1>8 DEF TrashMoveFails
<1>9. ASSUME NEW p \in Procs, TrashBack(p) PROVE FreshIds'
  BY <1>9 DEF TrashBack
<1>10. ASSUME NEW p \in Procs, RestoreStat(p) PROVE FreshIds'
  BY <1>10 DEF RestoreStat
<1>11. ASSUME NEW p \in Procs, RestoreStatFails(p) PROVE FreshIds'
  BY <1>11 DEF RestoreStatFails
<1>12. ASSUME NEW p \in Procs, RestoreMove(p) PROVE FreshIds'
  BY <1>12 DEF RestoreMove
<1>13. ASSUME NEW p \in Procs, RestoreMoveFails(p) PROVE FreshIds'
  BY <1>13 DEF RestoreMoveFails
<1>14. ASSUME NEW p \in Procs, RestoreBack(p) PROVE FreshIds'
  BY <1>14 DEF RestoreBack
<1>15. ASSUME NEW p \in Procs, DropItem(p) PROVE FreshIds'
  BY <1>15 DEF DropItem
<1>16. ASSUME NEW p \in Procs, DropItemFails(p) PROVE FreshIds'
  <2>1. CASE pc[p] = "rDrop"
    BY <1>16, <2>1 DEF DropItemFails
  <2>2. CASE pc[p] = "dDrop"
    BY <1>16, <2>2, ReturnFresh DEF DropItemFails
  <2> QED BY <1>16, <2>1, <2>2 DEF DropItemFails
<1>17. ASSUME NEW p \in Procs, DropIndexes(p) PROVE FreshIds'
  <2>1. CASE op[p] = "restore"
    BY <1>17, <2>1, ReturnFresh DEF DropIndexes
  <2>2. CASE op[p] = "delete"
    BY <1>17, <2>2 DEF DropIndexes
  <2> QED BY <1>17, <2>1, <2>2 DEF DropIndexes
<1>18. ASSUME NEW p \in Procs, DropIndexesFails(p) PROVE FreshIds'
  <2>1. CASE op[p] = "restore"
    BY <1>18, <2>1 DEF DropIndexesFails
  <2>2. CASE op[p] = "delete"
    BY <1>18, <2>2, ReturnFresh DEF DropIndexesFails
  <2> QED BY <1>18, <2>1, <2>2 DEF DropIndexesFails
<1>19. ASSUME NEW p \in Procs, DeleteRemove(p) PROVE FreshIds'
  BY <1>19 DEF DeleteRemove
<1>20. ASSUME NEW p \in Procs, DeleteRemoveFails(p) PROVE FreshIds'
  BY <1>20 DEF DeleteRemoveFails
<1>21. ASSUME NEW b \in Actors, StoreBegin(b) PROVE FreshIds'
  BY <1>21 DEF StoreBegin, OldKeys
<1>22. ASSUME NEW b \in Actors, StoreItem(b) PROVE FreshIds'
  BY <1>22 DEF StoreItem
<1>23. ASSUME NEW b \in Actors, StoreItemFails(b) PROVE FreshIds'
  <2>1. GivesUp(b)
    BY <1>23, StoreItemGivesUp
  <2>2. CASE op[b] = "trash"
    BY <2>1, <2>2 DEF GivesUp
  <2>3. CASE op[b] = "delete"
    BY <2>1, <2>3, ReturnFresh DEF GivesUp
  <2>4. CASE op[b] = "stats"
    BY <2>1, <2>4 DEF GivesUp
  <2> QED BY <2>1, <2>2, <2>3, <2>4 DEF GivesUp
<1>24. ASSUME NEW b \in Actors, StoreIndexes(b) PROVE FreshIds'
  <2>1. Return(b) /\ item' = item /\ nextId' = nextId
    BY <1>24 DEF StoreIndexes
  <2>2. queue' \subseteq queue \cup {cur[b]}
    BY <1>24 DEF StoreIndexes, EnqueueStats
  <2> QED BY <2>1, <2>2, ReturnFresh
<1>25. ASSUME NEW b \in Actors, StoreIndexesFails(b) PROVE FreshIds'
  <2>1. GivesUp(b)
    BY <1>25, StoreIndexesGivesUp
  <2>2. CASE op[b] = "trash"
    BY <2>1, <2>2 DEF GivesUp
  <2>3. CASE op[b] = "delete"
    BY <2>1, <2>3, ReturnFresh DEF GivesUp
  <2>4. CASE op[b] = "stats"
    BY <2>1, <2>4 DEF GivesUp
  <2> QED BY <2>1, <2>2, <2>3, <2>4 DEF GivesUp
<1>26. ASSUME NEW i \in Ids, WorkerTake(i) PROVE FreshIds'
  BY <1>26 DEF WorkerTake
<1>27. ASSUME WorkerStat PROVE FreshIds'
  BY <1>27 DEF WorkerStat
<1>28. ASSUME WorkerStatFails PROVE FreshIds'
  BY <1>28 DEF WorkerStatFails
<1>29. ASSUME NEW q \in Paths, NEW f \in Files, UserCreate(q, f) PROVE FreshIds'
  BY <1>29 DEF UserCreate
<1>30. ASSUME NEW q \in Paths, UserRemove(q) PROVE FreshIds'
  BY <1>30 DEF UserRemove
<1>31. ASSUME Crash PROVE FreshIds'
  BY <1>31 DEF Crash
<1>32. CASE UNCHANGED vars
  BY <1>32 DEF vars
<1> QED BY <1>1, <1>2, <1>3, <1>4, <1>5, <1>6, <1>7, <1>8, <1>9, <1>10, <1>11, <1>12, <1>13, <1>14, <1>15, <1>16, <1>17, <1>18, <1>19, <1>20, <1>21, <1>22, <1>23, <1>24, <1>25, <1>26, <1>27, <1>28, <1>29, <1>30, <1>31, <1>32
  DEF Next, Request, Locked, Store, WorkerStep, User, Actors

(* Nobody knows an id that is not handed out, nor one whose file is still  *)
(* in place, but the handler that is trashing it.                          *)
THEOREM FreshIdsAlways == Spec => []FreshIds
<1>1. Typed /\ FreshIds /\ [Next]_vars => FreshIds'
  BY FreshIdsStep
<1> QED BY <1>1, FreshIdsInit, TypedAlways, PTL DEF Spec

-----------------------------------------------------------------------------
(* Nobody but a moves.                                                     *)
Only(a) ==
    \A b \in Actors \ {a} :
        /\ pc'[b] = pc[b] /\ op'[b] = op[b] /\ cur'[b] = cur[b]
        /\ it'[b] = it[b] /\ old'[b] = old[b]

Same(i) == /\ bin'[i] = bin[i] /\ item'[i] = item[i] /\ idx'[i] = idx[i]
           /\ i \in loose' <=> i \in loose
           /\ i \in orphaned' <=> i \in orphaned

(* Nobody else starts or stops changing an id.                             *)
LEMMA BusyFrame ==
  ASSUME NEW a \in Actors, NEW b \in Actors \ {a}, NEW i \in Ids, Only(a)
  PROVE  Busy(b, i)' <=> Busy(b, i)
BY DEF Only, Busy

(* A step of an actor that is not changing the id, and that leaves it as   *)
(* it is, keeps it in order.                                               *)
LEMMA Elsewhere ==
  ASSUME NEW a \in Actors, NEW i \in Ids, Ordered(i), Only(a), Same(i),
         ~Busy(a, i), ~Busy(a, i)'
  PROVE  Ordered(i)'
<1>1. \A b \in Actors : Busy(b, i)' <=> Busy(b, i)
  BY BusyFrame
<1>2. \A b \in Actors : Busy(b, i) => Midway(b, i)'
  <2> SUFFICES ASSUME NEW b \in Actors, Busy(b, i) PROVE Midway(b, i)'
      OBVIOUS
  <2>1. Midway(b, i) /\ b # a
    BY DEF Ordered
  <2> QED BY <2>1 DEF Midway, Only, Same, HasKeys, Indexed, KeysOf
<1>3. Agree(i)' <=> Agree(i)
  BY DEF Agree, Same, HasKeys, Indexed, KeysOf
<1> QED BY <1>1, <1>2, <1>3 DEF Ordered, Quiet

(* A step of the only actor that may be changing the id keeps it in order  *)
(* when it leaves the id as its next control point says.                   *)
LEMMA Alone ==
  ASSUME NEW a \in Actors, NEW i \in Ids, Only(a),
         \A b \in Actors \ {a} : ~Busy(b, i),
         Busy(a, i)' => Midway(a, i)',
         ~Busy(a, i)' => Agree(i)'
  PROVE  Ordered(i)'
<1>1. \A b \in Actors \ {a} : ~Busy(b, i)'
  BY BusyFrame
<1> QED BY <1>1 DEF Ordered, Quiet

(* An actor that is changing an id is alone.                               *)
LEMMA Sole ==
  ASSUME NEW a \in Actors, NEW i \in Ids, Ordered(i), Busy(a, i)
  PROVE  (\A b \in Actors \ {a} : ~Busy(b, i)) /\ Midway(a, i)
BY DEF Ordered

(* A step keeps the ids in order that it does not work on.                 *)
LEMMA OtherIds ==
  ASSUME NEW a \in Actors, NEW i \in Ids, Ordered(i), Only(a), Same(i),
         i # cur[a], cur'[a] \in {cur[a], 0}
  PROVE  Ordered(i)'
<1>1. ~Busy(a, i) /\ ~Busy(a, i)'
  BY MaxItemsAssumption DEF Busy, Ids
<1> QED BY <1>1, Elsewhere

(* What a step of an actor that stays in its operation, and of one that    *)
(* leaves it, says of the locals.                                          *)
Steps(a, to) ==
    /\ Only(a) /\ pc'[a] = to
    /\ cur'[a] = cur[a] /\ op'[a] = op[a] /\ it'[a] = it[a] /\ old'[a] = old[a]
Leaves(a) == Only(a) /\ pc'[a] = "idle" /\ cur'[a] = 0

(* Going to another control point stays in the operation.                  *)
LEMMA GotoSteps ==
  ASSUME Typed, NEW a \in Actors, NEW from, NEW to, Goto(a, from, to),
         UNCHANGED locals
  PROVE  Steps(a, to)
BY DEF Typed, TypeOK, Goto, Only, Steps, locals

(* Returning leaves it.                                                    *)
LEMMA ReturnLeaves ==
  ASSUME Typed, NEW a \in Actors, Return(a)
  PROVE  Leaves(a)
BY DEF Typed, TypeOK, Return, Only, Leaves

(* TrashPaths renames the file: nobody knows the id yet.                   *)
LEMMA TrashMoveOrdered ==
  ASSUME Typed, FreshIds, WritesInOrder, NEW p \in Procs, TrashMove(p),
         NEW i \in Ids \ tainted'
  PROVE  Ordered(i)'
<1>1. p \in Actors /\ cur[p] \in Ids /\ i \in Ids \ tainted /\ op[p] = "trash"
  BY LocalsFacts DEF Actors, TrashMove, Goto, marks
<1>2. Ordered(i)
  BY <1>1 DEF WritesInOrder
<1>3. Steps(p, "begin")
  BY <1>1, GotoSteps DEF TrashMove
<1>4. CASE i # cur[p]
  BY <1>1, <1>2, <1>3, <1>4, OtherIds DEF Steps, TrashMove, Same, db, marks, Typed, TypeOK
<1>5. CASE i = cur[p]
  <2>1. Unmoved(i)
    BY <1>1, <1>5 DEF Unmoved, TrashMove, Goto
  <2>2. item[i] = None /\ \A b \in Actors : ~Busy(b, i)
    BY <2>1 DEF FreshIds, Busy, BusyPoints
  <2>3. Agree(i)
    BY <1>2, <2>2 DEF Ordered, Quiet
  <2>4. bin'[i] # None /\ HasKeys(i, {})' /\ item'[i] = None
    BY <1>1, <1>5, <2>2, <2>3
       DEF TrashMove, Agree, HasKeys, Indexed, db, marks, Typed, TypeOK
  <2>5. Busy(p, i)' /\ Midway(p, i)'
    BY <1>1, <1>3, <1>5, <2>4 DEF Midway, Steps, Busy, BusyPoints
  <2> QED BY <1>1, <1>3, <2>2, <2>5, Alone DEF Steps
<1> QED BY <1>4, <1>5

(* TrashPaths renames the file back: no record, no keys and no file are    *)
(* left.                                                                   *)
LEMMA TrashBackOrdered ==
  ASSUME Typed, WritesInOrder, NEW p \in Procs, TrashBack(p),
         NEW i \in Ids \ tainted'
  PROVE  Ordered(i)'
<1>1. p \in Actors /\ cur[p] \in Ids /\ i \in Ids \ tainted /\ op[p] = "trash"
  BY LocalsFacts DEF Actors, TrashBack, Taint
<1>2. Ordered(i)
  BY <1>1 DEF WritesInOrder
<1>3. Leaves(p)
  BY <1>1, ReturnLeaves DEF TrashBack, UnlockAndReturn
<1>4. CASE i # cur[p]
  BY <1>1, <1>2, <1>3, <1>4, OtherIds
     DEF Leaves, TrashBack, Same, disk, db, Typed, TypeOK
<1>5. CASE i = cur[p]
  <2>1. Busy(p, i)
    BY <1>5 DEF TrashBack, Busy, BusyPoints
  <2>2. (\A b \in Actors \ {p} : ~Busy(b, i)) /\ Midway(p, i)
    BY <1>1, <1>2, <2>1, Sole
  <2>3. bin'[i] = None /\ item'[i] = None /\ HasKeys(i, {})'
    BY <1>1, <1>5, <2>2 DEF TrashBack, Taint, Midway, HasKeys, db, Typed, TypeOK
  <2>4. ~Busy(p, i)' /\ Agree(i)'
    BY <1>3, <2>3 DEF Leaves, Busy, BusyPoints, Agree, HasKeys, Indexed
  <2> QED BY <1>1, <1>3, <2>2, <2>4, Alone DEF Leaves
<1> QED BY <1>4, <1>5

(* RestorePaths renames the file back to its place.                        *)
LEMMA RestoreMoveOrdered ==
  ASSUME Typed, WritesInOrder, NEW p \in Procs, RestoreMove(p),
         NEW i \in Ids \ tainted'
  PROVE  Ordered(i)'
<1>1. p \in Actors /\ cur[p] \in Ids /\ i \in Ids \ tainted /\ op[p] = "restore"
      /\ it[p] \in Items
  BY LocalsFacts DEF Actors, RestoreMove, Taint, Goto
<1>2. Ordered(i)
  BY <1>1 DEF WritesInOrder
<1>3. Steps(p, "rDrop")
  BY <1>1, GotoSteps DEF RestoreMove
<1>4. CASE i # cur[p]
  BY <1>1, <1>2, <1>3, <1>4, OtherIds
     DEF Steps, RestoreMove, Loosen, Same, db, Typed, TypeOK
<1>5. CASE i = cur[p]
  <2>1. ~Overlapped(p) /\ (item[i] = it[p] \/ i \in loose')
    BY <1>5 DEF RestoreMove, Taint, Loosen, Stale
  <2>2. \A b \in Actors : ~Busy(b, i)
    BY <1>5, <2>1 DEF RestoreMove, Goto, Overlapped, Busy, BusyPoints
  <2>3. Agree(i)
    BY <1>2, <2>2 DEF Ordered, Quiet
  <2>4. /\ bin'[i] = None /\ item'[i] = item[i] /\ HasKeys(i, Indexed(item[i]))'
        /\ item[i] # None \/ i \in orphaned'
    BY <1>1, <1>5, <2>1, <2>3
       DEF RestoreMove, Goto, Loosen, Agree, HasKeys, Indexed, KeysOf, db, Typed, TypeOK
  <2>5. Busy(p, i)' /\ Midway(p, i)'
    BY <1>1, <1>3, <1>5, <2>1, <2>4
       DEF Midway, Steps, Busy, BusyPoints, HasKeys, Indexed, KeysOf
  <2> QED BY <1>1, <1>3, <2>2, <2>5, Alone DEF Steps
<1> QED BY <1>4, <1>5

(* RestorePaths rolls back: the record and its keys are still there.       *)
LEMMA RestoreBackOrdered ==
  ASSUME Typed, WritesInOrder, NEW p \in Procs, RestoreBack(p),
         NEW i \in Ids \ tainted'
  PROVE  Ordered(i)'
<1>1. p \in Actors /\ cur[p] \in Ids /\ i \in Ids \ tainted /\ op[p] = "restore"
      /\ path[p] \in Paths /\ it[p] \in Items
  BY LocalsFacts DEF Actors, RestoreBack, Taint
<1>2. Ordered(i)
  BY <1>1 DEF WritesInOrder
<1>3. Leaves(p)
  BY <1>1, ReturnLeaves DEF RestoreBack, UnlockAndReturn
<1>4. CASE i # cur[p]
  BY <1>1, <1>2, <1>3, <1>4, OtherIds
     DEF Leaves, RestoreBack, Same, disk, db, Typed, TypeOK
<1>5. CASE i = cur[p]
  <2>1. Busy(p, i)
    BY <1>5 DEF RestoreBack, Busy, BusyPoints
  <2>2. (\A b \in Actors \ {p} : ~Busy(b, i)) /\ Midway(p, i)
    BY <1>1, <1>2, <2>1, Sole
  <2>3. /\ bin'[i] # None /\ item'[i] = item[i] /\ HasKeys(i, Indexed(item[i]))'
        /\ item[i] # None \/ i \in orphaned'
    BY <1>1, <1>5, <2>2
       DEF RestoreBack, Taint, Midway, HasKeys, Indexed, KeysOf, db, Typed, TypeOK
  <2>4. ~Busy(p, i)' /\ Agree(i)'
    BY <1>1, <1>3, <2>3
       DEF Leaves, Busy, BusyPoints, Agree, HasKeys, Indexed, KeysOf
  <2> QED BY <1>1, <1>3, <2>2, <2>4, Alone DEF Leaves
<1> QED BY <1>4, <1>5

(* The record is deleted, its keys are not yet.                            *)
LEMMA DropItemOrdered ==
  ASSUME Typed, WritesInOrder, NEW p \in Procs, DropItem(p),
         NEW i \in Ids \ tainted'
  PROVE  Ordered(i)'
<1>1. p \in Actors /\ cur[p] \in Ids /\ i \in Ids \ tainted /\ it[p] \in Items
  BY LocalsFacts DEF Actors, DropItem, Taint, Goto
<1>2. Ordered(i)
  BY <1>1 DEF WritesInOrder
<1>3. Steps(p, "dropIdx")
  BY <1>1, GotoSteps DEF DropItem
<1>4. CASE i # cur[p]
  BY <1>1, <1>2, <1>3, <1>4, OtherIds
     DEF Steps, DropItem, Loosen, Same, disk, Typed, TypeOK
<1>5. CASE i = cur[p]
  <2>1. /\ \A b \in Actors \ {p} : ~Busy(b, i)
        /\ idx[i] \in {{}, KeysOf(it[p])} \/ i \in loose'
        /\ op[p] = "restore" => bin[i] = None
    <3>1. CASE pc[p] = "rDrop"
      BY <1>1, <1>2, <1>5, <3>1, Sole
         DEF DropItem, Goto, Busy, BusyPoints, Midway, HasKeys, Indexed
    <3>2. CASE pc[p] = "dDrop"
      <4>1. ~Overlapped(p) /\ op[p] = "delete" /\ (Stale(p) => i \in loose')
        BY <1>1, <1>5, <3>2, LocalsFacts DEF DropItem, Goto, Taint, Loosen
      <4>2. \A b \in Actors : ~Busy(b, i)
        BY <1>5, <3>2, <4>1 DEF Overlapped, Busy, BusyPoints
      <4>3. Agree(i)
        BY <1>2, <4>2 DEF Ordered, Quiet
      <4>4. i \in loose => i \in loose'
        BY DEF DropItem, Loosen
      <4> QED BY <1>5, <4>1, <4>2, <4>3, <4>4 DEF Agree, HasKeys, Indexed, Stale
    <3> QED BY <3>1, <3>2 DEF DropItem, Goto
  <2>2. item'[i] = None /\ idx'[i] = idx[i] /\ bin'[i] = bin[i]
    BY <1>1, <1>5 DEF DropItem, disk, Typed, TypeOK
  <2>3. Busy(p, i)' /\ Midway(p, i)'
    BY <1>1, <1>3, <1>5, <2>1, <2>2 DEF Midway, Steps, Busy, BusyPoints, KeysOf
  <2> QED BY <1>1, <1>3, <2>1, <2>3, Alone DEF Steps
<1> QED BY <1>4, <1>5

(* The record could not be deleted: nothing has changed.                   *)
LEMMA DropItemFailsOrdered ==
  ASSUME Typed, WritesInOrder, NEW p \in Procs, DropItemFails(p),
         NEW i \in Ids \ tainted'
  PROVE  Ordered(i)'
<1>1. p \in Actors /\ cur[p] \in Ids /\ i \in Ids \ tainted /\ it[p] \in Items
  BY LocalsFacts DEF Actors, DropItemFails, Goto, marks
<1>2. Ordered(i) /\ Same(i)
  BY <1>1 DEF WritesInOrder, Same, DropItemFails, disk, db, marks
<1>3. CASE pc[p] = "dDrop"
  <2>1. Leaves(p)
    BY <1>1, <1>3, ReturnLeaves DEF DropItemFails, UnlockAndReturn, Goto
  <2>2. ~Busy(p, i) /\ ~Busy(p, i)'
    BY <1>3, <2>1 DEF Busy, BusyPoints, Leaves
  <2> QED BY <1>1, <1>2, <2>1, <2>2, Elsewhere DEF Leaves
<1>4. CASE pc[p] = "rDrop"
  <2>1. Steps(p, "back") /\ op[p] = "restore"
    BY <1>1, <1>4, GotoSteps, LocalsFacts DEF DropItemFails
  <2>2. CASE i # cur[p]
    BY <1>1, <1>2, <2>1, <2>2, OtherIds DEF Steps
  <2>3. CASE i = cur[p]
    <3>1. (\A b \in Actors \ {p} : ~Busy(b, i)) /\ Midway(p, i)
      BY <1>1, <1>2, <1>4, <2>3, Sole DEF Busy, BusyPoints
    <3>2. Busy(p, i)' /\ Midway(p, i)'
      BY <1>1, <1>2, <1>4, <2>1, <2>3, <3>1
         DEF Midway, Steps, Same, Busy, BusyPoints, HasKeys, Indexed, KeysOf
    <3> QED BY <1>1, <2>1, <3>1, <3>2, Alone DEF Steps
  <2> QED BY <2>2, <2>3
<1> QED BY <1>3, <1>4 DEF DropItemFails, Goto

(* The keys of the deleted record go.                                      *)
LEMMA DropIndexesOrdered ==
  ASSUME Typed, WritesInOrder, NEW p \in Procs, DropIndexes(p),
         NEW i \in Ids \ tainted'
  PROVE  Ordered(i)'
<1>1. p \in Actors /\ cur[p] \in Ids /\ i \in Ids \ tainted /\ it[p] \in Items
      /\ pc[p] = "dropIdx"
  BY LocalsFacts DEF Actors, DropIndexes
<1>2. Ordered(i)
  BY <1>1 DEF WritesInOrder
<1>3. (Leaves(p) /\ op[p] = "restore") \/ (Steps(p, "remove") /\ op[p] = "delete")
  <2>1. CASE op[p] = "restore"
    <3>1. Return(p)
      BY <2>1 DEF DropIndexes, UnlockAndReturn
    <3> QED BY <1>1, <2>1, <3>1, ReturnLeaves
  <2>2. CASE op[p] = "delete"
    <3>1. Goto(p, "dropIdx", "remove") /\ UNCHANGED locals
      BY <2>2 DEF DropIndexes
    <3> QED BY <1>1, <2>2, <3>1, GotoSteps
  <2> QED BY <2>1, <2>2 DEF DropIndexes
<1>4. CASE i # cur[p]
  <2>1. Same(i)
    BY <1>1, <1>4 DEF DropIndexes, Loosen, Same, disk, Typed, TypeOK
  <2> QED BY <1>1, <1>2, <1>3, <1>4, <2>1, OtherIds DEF Steps, Leaves
<1>5. CASE i = cur[p]
  <2>1. (\A b \in Actors \ {p} : ~Busy(b, i)) /\ Midway(p, i)
    BY <1>1, <1>2, <1>5, Sole DEF Busy, BusyPoints
  <2>2. idx'[i] = idx[i] \ KeysOf(it[p]) \/ i \in loose'
    <3>1. PICK gone \in SUBSET KeysOf(it[p]) :
            /\ idx' = [idx EXCEPT ![i] = @ \ gone]
            /\ Loosen(p, gone # KeysOf(it[p]))
      BY <1>5 DEF DropIndexes
    <3> QED BY <1>1, <1>5, <3>1 DEF Loosen, Typed, TypeOK
  <2>3. HasKeys(i, {})' /\ item'[i] = None /\ bin'[i] = bin[i]
    <3>1. i \in loose => i \in loose'
      BY DEF DropIndexes, Loosen
    <3> QED BY <1>1, <2>1, <2>2, <3>1
            DEF DropIndexes, Midway, HasKeys, disk, Typed, TypeOK
  <2>4. CASE op[p] = "restore"
    <3>1. ~Busy(p, i)' /\ Agree(i)'
      BY <1>1, <1>3, <2>1, <2>3, <2>4
         DEF Leaves, Busy, BusyPoints, Agree, HasKeys, Indexed, Midway
    <3> QED BY <1>1, <1>3, <2>1, <2>4, <3>1, Alone DEF Leaves
  <2>5. CASE op[p] = "delete"
    <3>1. Busy(p, i)' /\ Midway(p, i)'
      BY <1>1, <1>3, <1>5, <2>3, <2>5 DEF Midway, Steps, Busy, BusyPoints
    <3> QED BY <1>1, <1>3, <2>1, <2>5, <3>1, Alone DEF Steps
  <2> QED BY <1>3, <2>4, <2>5
<1> QED BY <1>4, <1>5

(* They do not: the file is left without its record.                       *)
LEMMA DropIndexesFailsOrdered ==
  ASSUME Typed, WritesInOrder, NEW p \in Procs, DropIndexesFails(p),
         NEW i \in Ids \ tainted'
  PROVE  Ordered(i)'
<1>1. p \in Actors /\ cur[p] \in Ids /\ i \in Ids \ tainted /\ pc[p] = "dropIdx"
  BY LocalsFacts DEF Actors, DropIndexesFails
<1>2. Ordered(i) /\ bin'[i] = bin[i] /\ item'[i] = item[i] /\ idx'[i] = idx[i]
  BY <1>1 DEF WritesInOrder, DropIndexesFails, disk, db
<1>3. (Steps(p, "back") /\ op[p] = "restore") \/ Leaves(p)
  BY <1>1, GotoSteps, ReturnLeaves DEF DropIndexesFails, UnlockAndReturn
<1>4. CASE i # cur[p]
  <2>1. Same(i)
    BY <1>2, <1>4 DEF Same, DropIndexesFails, Loosen
  <2> QED BY <1>1, <1>2, <1>3, <1>4, <2>1, OtherIds DEF Steps, Leaves
<1>5. CASE i = cur[p]
  <2>1. (\A b \in Actors \ {p} : ~Busy(b, i)) /\ Midway(p, i)
    BY <1>1, <1>2, <1>5, Sole DEF Busy, BusyPoints
  <2>2. item'[i] = None /\ i \in loose' /\ i \in orphaned'
    BY <1>1, <1>2, <1>5, <2>1 DEF Midway, DropIndexesFails, Loosen
  <2>3. CASE Steps(p, "back") /\ op[p] = "restore"
    <3>1. Busy(p, i)' /\ Midway(p, i)'
      BY <1>1, <1>2, <1>5, <2>1, <2>2, <2>3
         DEF Midway, Steps, Busy, BusyPoints, HasKeys, Indexed
    <3> QED BY <1>1, <2>1, <2>3, <3>1, Alone DEF Steps
  <2>4. CASE Leaves(p)
    <3>1. ~Busy(p, i)' /\ Agree(i)'
      BY <2>2, <2>4 DEF Leaves, Busy, BusyPoints, Agree, HasKeys, Indexed
    <3> QED BY <1>1, <2>1, <2>4, <3>1, Alone DEF Leaves
  <2> QED BY <1>3, <2>3, <2>4
<1> QED BY <1>4, <1>5

(* The file goes after the record and its keys.                            *)
LEMMA DeleteRemoveOrdered ==
  ASSUME Typed, WritesInOrder, NEW p \in Procs, DeleteRemove(p),
         NEW i \in Ids \ tainted'
  PROVE  Ordered(i)'
<1>1. p \in Actors /\ cur[p] \in Ids /\ i \in Ids \ tainted
  BY LocalsFacts DEF Actors, DeleteRemove, marks
<1>2. Ordered(i)
  BY <1>1 DEF WritesInOrder
<1>3. Leaves(p)
  BY <1>1, ReturnLeaves DEF DeleteRemove, UnlockAndReturn
<1>4. CASE i # cur[p]
  BY <1>1, <1>2, <1>3, <1>4, OtherIds
     DEF Leaves, DeleteRemove, Same, db, marks, Typed, TypeOK
<1>5. CASE i = cur[p]
  <2>1. (\A b \in Actors \ {p} : ~Busy(b, i)) /\ Midway(p, i)
    BY <1>1, <1>2, <1>5, Sole DEF DeleteRemove, Busy, BusyPoints
  <2>2. bin'[i] = None /\ item'[i] = None /\ HasKeys(i, {})'
    BY <1>1, <1>5, <2>1 DEF DeleteRemove, Midway, HasKeys, db, marks, Typed, TypeOK
  <2>3. ~Busy(p, i)' /\ Agree(i)'
    BY <1>3, <2>2 DEF Leaves, Busy, BusyPoints, Agree, HasKeys, Indexed
  <2> QED BY <1>1, <1>3, <2>1, <2>3, Alone DEF Leaves
<1> QED BY <1>4, <1>5

(* It does not: the record is about to be stored again.                    *)
LEMMA DeleteRemoveFailsOrdered ==
  ASSUME Typed, WritesInOrder, NEW p \in Procs, DeleteRemoveFails(p),
         NEW i \in Ids \ tainted'
  PROVE  Ordered(i)'
<1>1. p \in Actors /\ i \in Ids \ tainted /\ pc[p] = "remove"
  BY DEF Actors, DeleteRemoveFails, Goto, marks
<1>2. Ordered(i) /\ Same(i)
  BY <1>1 DEF WritesInOrder, Same, DeleteRemoveFails, disk, db, marks
<1>3. Steps(p, "begin")
  BY <1>1, GotoSteps DEF DeleteRemoveFails
<1>4. CASE i # cur[p]
  BY <1>1, <1>2, <1>3, <1>4, OtherIds DEF Steps
<1>5. CASE i = cur[p]
  <2>1. (\A b \in Actors \ {p} : ~Busy(b, i)) /\ Midway(p, i)
    BY <1>1, <1>2, <1>5, Sole DEF Busy, BusyPoints
  <2>2. Busy(p, i)' /\ Midway(p, i)'
    BY <1>1, <1>2, <1>3, <1>5, <2>1
       DEF DeleteRemoveFails, Midway, Steps, Same, Busy, BusyPoints, HasKeys
  <2> QED BY <1>1, <1>3, <2>1, <2>2, Alone DEF Steps
<1> QED BY <1>4, <1>5

(* A file without a record goes.                                           *)
LEMMA RawRemoveOrdered ==
  ASSUME Typed, WritesInOrder, NEW p \in Procs, RawRemove(p),
         NEW i \in Ids \ tainted'
  PROVE  Ordered(i)'
<1>1. p \in Actors /\ cur[p] \in Ids /\ i \in Ids \ tainted /\ pc[p] = "raw"
  BY LocalsFacts DEF Actors, RawRemove, Taint
<1>2. Ordered(i)
  BY <1>1 DEF WritesInOrder
<1>3. Leaves(p)
  BY <1>1, ReturnLeaves DEF RawRemove
<1>4. CASE i # cur[p]
  BY <1>1, <1>2, <1>3, <1>4, OtherIds
     DEF Leaves, RawRemove, Same, db, Typed, TypeOK
<1>5. CASE i = cur[p]
  <2>1. ~Overlapped(p) /\ item[i] = None
    BY <1>5 DEF RawRemove, Taint
  <2>2. \A b \in Actors : ~Busy(b, i)
    BY <1>1, <1>5, <2>1 DEF Overlapped, Busy, BusyPoints
  <2>3. bin'[i] = None /\ item'[i] = None /\ HasKeys(i, {})'
    BY <1>1, <1>2, <1>5, <2>1, <2>2
       DEF RawRemove, Ordered, Quiet, Agree, HasKeys, Indexed, db, Typed, TypeOK
  <2>4. ~Busy(p, i)' /\ Agree(i)'
    BY <1>3, <2>3 DEF Leaves, Busy, BusyPoints, Agree, HasKeys, Indexed
  <2> QED BY <1>1, <1>3, <2>2, <2>4, Alone DEF Leaves
<1> QED BY <1>4, <1>5

(* The old record's keys go.                                               *)
LEMMA StoreBeginOrdered ==
  ASSUME Typed, WritesInOrder, NEW a \in Actors, StoreBegin(a),
         NEW i \in Ids \ tainted'
  PROVE  Ordered(i)'
<1>1. cur[a] \in Ids /\ i \in Ids \ tainted /\ pc[a] \in {"begin", "wBegin"}
  BY LocalsFacts DEF StoreBegin, Taint, Goto
<1>2. Ordered(i)
  BY <1>1 DEF WritesInOrder
<1>3. /\ Only(a) /\ pc'[a] = "put" /\ cur'[a] = cur[a] /\ op'[a] = op[a]
      /\ bin' = bin /\ item' = item
  BY DEF StoreBegin, Goto, Only, disk, Typed, TypeOK
<1>4. CASE i # cur[a]
  <2>1. Same(i)
    BY <1>1, <1>3, <1>4 DEF StoreBegin, Loosen, Same, Typed, TypeOK
  <2> QED BY <1>1, <1>2, <1>3, <1>4, <2>1, OtherIds
<1>5. CASE i = cur[a]
  <2> DEFINE found == old'[a]
  <2>1. PICK gone \in SUBSET Indexed(found) :
           /\ found \in {item[i], None}
           /\ idx'[i] = idx[i] \ gone
           /\ found # item[i] \/ gone # Indexed(found) => i \in loose'
           /\ i \in loose => i \in loose'
    BY <1>1, <1>5 DEF StoreBegin, OldKeys, Loosen, Typed, TypeOK
  <2>2. /\ \A b \in Actors \ {a} : ~Busy(b, i)
        /\ bin[i] # None /\ HasKeys(i, Indexed(item[i]))
        /\ op[a] = "stats" <=> item[i] # None
    <3>1. CASE pc[a] = "begin"
      <4>1. Busy(a, i)
        BY <1>5, <3>1 DEF Busy, BusyPoints
      <4>2. (\A b \in Actors \ {a} : ~Busy(b, i)) /\ Midway(a, i)
        BY <1>1, <1>2, <4>1, Sole
      <4> QED BY <3>1, <4>2, LocalsFacts DEF Midway, Indexed
    <3>2. CASE pc[a] = "wBegin"
      <4>1. ~Overlapped(a) /\ item[i] # None /\ op[a] = "stats"
        BY <1>1, <1>5, <3>2, OpFacts DEF StoreBegin, Taint
      <4>2. \A b \in Actors : ~Busy(b, i)
        BY <1>5, <3>2, <4>1 DEF Overlapped, Busy, BusyPoints
      <4> QED BY <1>2, <4>1, <4>2 DEF Ordered, Quiet, Agree
    <3> QED BY <1>1, <3>1, <3>2
  <2>3. HasKeys(i, IF old[a] = None THEN Indexed(item[i]) ELSE {})'
    <3>1. item'[i] = item[i] /\ Indexed(item[i])' = Indexed(item[i])
      BY <1>3 DEF Indexed, KeysOf
    <3>2. CASE found = item[i] /\ gone = Indexed(found)
      <4>1. CASE found = None
        BY <2>1, <2>2, <3>1, <3>2, <4>1 DEF HasKeys, Indexed
      <4>2. CASE found # None
        BY <2>1, <2>2, <3>1, <3>2, <4>2 DEF HasKeys
      <4> QED BY <4>1, <4>2
    <3>3. CASE i \in loose' /\ found = None
      BY <2>1, <2>2, <3>1, <3>3 DEF HasKeys, Indexed
    <3>4. CASE i \in loose' /\ found # None
      BY <3>4 DEF HasKeys
    <3> QED BY <2>1, <3>2, <3>3, <3>4
  <2>4. Busy(a, i)' /\ Midway(a, i)'
    BY <1>1, <1>3, <1>5, <2>1, <2>2, <2>3
       DEF Midway, Busy, BusyPoints, HasKeys, Indexed, KeysOf
  <2> QED BY <1>1, <1>3, <2>2, <2>4, Alone
<1> QED BY <1>4, <1>5

(* The record is written, its keys are not yet.                            *)
LEMMA StoreItemOrdered ==
  ASSUME Typed, WritesInOrder, NEW a \in Actors, StoreItem(a),
         NEW i \in Ids \ tainted'
  PROVE  Ordered(i)'
<1>1. cur[a] \in Ids /\ i \in Ids \ tainted /\ pc[a] = "put"
  BY LocalsFacts DEF StoreItem, Goto, marks
<1>2. Ordered(i)
  BY <1>1 DEF WritesInOrder
<1>3. Steps(a, "setIdx")
  BY <1>1, GotoSteps DEF StoreItem
<1>4. CASE i # cur[a]
  BY <1>1, <1>2, <1>3, <1>4, OtherIds
     DEF Steps, StoreItem, Same, disk, marks, Typed, TypeOK
<1>5. CASE i = cur[a]
  <2>1. (\A b \in Actors \ {a} : ~Busy(b, i)) /\ Midway(a, i)
    BY <1>1, <1>2, <1>5, Sole DEF Busy, BusyPoints
  <2>2. item'[i] = it[a] /\ idx'[i] = idx[i] /\ bin'[i] = bin[i]
        /\ loose' = loose
    BY <1>1, <1>5 DEF StoreItem, disk, marks, Typed, TypeOK
  <2>3. Busy(a, i)' /\ Midway(a, i)'
    BY <1>1, <1>3, <1>5, <2>1, <2>2 
       DEF Midway, Steps, Busy, BusyPoints, HasKeys, Indexed, KeysOf
  <2> QED BY <1>1, <1>3, <2>1, <2>3, Alone DEF Steps
<1> QED BY <1>4, <1>5

(* The record's keys are written.                                          *)
LEMMA StoreIndexesOrdered ==
  ASSUME Typed, WritesInOrder, NEW a \in Actors, StoreIndexes(a),
         NEW i \in Ids \ tainted'
  PROVE  Ordered(i)'
<1>1. cur[a] \in Ids /\ i \in Ids \ tainted /\ it[a] \in Items
  BY LocalsFacts DEF StoreIndexes, marks
<1>2. Ordered(i)
  BY <1>1 DEF WritesInOrder
<1>3. Leaves(a)
  BY <1>1, ReturnLeaves DEF StoreIndexes, UnlockAndReturn
<1>4. CASE i # cur[a]
  BY <1>1, <1>2, <1>3, <1>4, OtherIds
     DEF Leaves, StoreIndexes, Same, disk, marks, Typed, TypeOK
<1>5. CASE i = cur[a]
  <2>1. (\A b \in Actors \ {a} : ~Busy(b, i)) /\ Midway(a, i)
    BY <1>1, <1>2, <1>5, Sole DEF StoreIndexes, Busy, BusyPoints
  <2>2. /\ bin'[i] # None /\ item'[i] = it[a]
        /\ \/ idx'[i] = KeysOf(it[a])
           \/ i \in loose' /\ KeysOf(it[a]) \subseteq idx'[i]
    <3>1. /\ bin' = bin /\ item' = item /\ loose' = loose
          /\ idx'[i] = idx[i] \cup KeysOf(it[a]) /\ pc[a] = "setIdx"
      BY <1>1, <1>5 DEF StoreIndexes, disk, marks, Typed, TypeOK
    <3>2. HasKeys(i, {}) /\ bin[i] # None /\ item[i] = it[a]
      BY <2>1, <3>1 DEF Midway
    <3>3. idx'[i] = KeysOf(it[a]) \/ (i \in loose' /\ KeysOf(it[a]) \subseteq idx'[i])
      BY <3>1, <3>2 DEF HasKeys
    <3> QED BY <3>1, <3>2, <3>3
  <2>3. ~Busy(a, i)' /\ Agree(i)'
    BY <1>1, <1>3, <2>2, NoneAssumption
       DEF Leaves, Busy, BusyPoints, Agree, HasKeys, Indexed, KeysOf
  <2> QED BY <1>1, <1>3, <2>1, <2>3, Alone DEF Leaves
<1> QED BY <1>4, <1>5

(* A failed storeTrashItem that cleans up leaves what it found.            *)
LEMMA GivesUpOrdered ==
  ASSUME Typed, WritesInOrder, NEW a \in Actors, GivesUp(a),
         NEW i \in Ids \ tainted', cur[a] \in Ids, tainted \subseteq tainted',
         i # cur[a] => Same(i),
         i = cur[a] /\ Midway(a, i) /\ op[a] # "delete" =>
            /\ item'[i] # None <=> op[a] = "stats"
            /\ HasKeys(i, Indexed(item[i]))',
         op[a] = "delete" => i # cur[a]
  PROVE  Ordered(i)'
<1>1. i \in Ids \ tainted /\ Ordered(i) /\ bin' = bin
  BY DEF WritesInOrder, GivesUp, disk
<1>2. \/ op[a] = "trash" /\ Steps(a, "back")
      \/ op[a] \in {"delete", "stats"} /\ Leaves(a)
  <2>1. CASE op[a] = "trash"
    BY <2>1 DEF GivesUp, Steps, Only, locals, Typed, TypeOK
  <2>2. CASE op[a] = "delete" \/ op[a] = "stats"
    BY <2>2, ReturnLeaves DEF GivesUp, UnlockAndReturn
  <2> QED BY <2>1, <2>2 DEF GivesUp
<1>3. CASE i # cur[a]
  BY <1>1, <1>2, <1>3, OtherIds DEF Steps, Leaves
<1>4. CASE i = cur[a]
  <2>1. (\A b \in Actors \ {a} : ~Busy(b, i)) /\ Midway(a, i)
    BY <1>1, <1>4, Sole DEF GivesUp, Busy, BusyPoints
  <2>2. /\ item'[i] # None <=> op[a] = "stats"
        /\ HasKeys(i, Indexed(item[i]))' /\ bin'[i] # None
    BY <1>1, <1>4, <2>1 DEF Midway, GivesUp
  <2>3. CASE op[a] = "trash"
    <3>1. Busy(a, i)' /\ Midway(a, i)'
      BY <1>2, <1>4, <2>2, <2>3 
         DEF Midway, Steps, Busy, BusyPoints, HasKeys, Indexed
    <3> QED BY <1>2, <2>1, <2>3, <3>1, Alone DEF Steps
  <2>4. CASE op[a] = "stats"
    <3>1. ~Busy(a, i)' /\ Agree(i)'
      BY <1>2, <2>2, <2>4 DEF Leaves, Busy, BusyPoints, Agree
    <3> QED BY <1>2, <2>1, <2>4, <3>1, Alone DEF Leaves
  <2> QED BY <1>2, <1>4, <2>3, <2>4
<1> QED BY <1>3, <1>4

(* Writing the record failed and the old keys are back.                    *)
LEMMA StoreItemFailsOrdered ==
  ASSUME Typed, WritesInOrder, NEW a \in Actors, StoreItemFails(a),
         NEW i \in Ids \ tainted'
  PROVE  Ordered(i)'
<1>1. PICK back \in {Indexed(old[a]), {}} :
        /\ idx' = [idx EXCEPT ![cur[a]] = @ \cup back]
        /\ StoreFailed(a, back # Indexed(old[a]))
  BY DEF StoreItemFails
<1>2. cur[a] \in Ids /\ pc[a] = "put" /\ item' = item
  BY LocalsFacts DEF StoreItemFails
<1>3. GivesUp(a)
  BY StoreItemGivesUp
<1>4. tainted \subseteq tainted' /\ (op[a] = "delete" => i # cur[a])
  BY <1>1 DEF StoreFailed, Taint
<1>5. i # cur[a] => Same(i)
  BY <1>1, <1>2, <1>3 DEF Same, GivesUp, disk, Typed, TypeOK
<1>6. i = cur[a] /\ Midway(a, i) /\ op[a] # "delete" =>
         /\ item'[i] # None <=> op[a] = "stats"
         /\ HasKeys(i, Indexed(item[i]))'
  <2> SUFFICES ASSUME i = cur[a], Midway(a, i), op[a] # "delete"
      PROVE  /\ item'[i] # None <=> op[a] = "stats"
             /\ HasKeys(i, Indexed(item[i]))'
      OBVIOUS
  <2>1. back = Indexed(old[a])
    BY <1>1 DEF StoreFailed, Taint
  <2>2. idx'[i] = idx[i] \cup Indexed(old[a]) /\ item'[i] = item[i] /\ loose' = loose
    BY <1>1, <1>2, <1>3, <2>1 DEF GivesUp, Typed, TypeOK
  <2>3. item'[i] # None <=> op[a] = "stats"
    BY <1>2, <2>2 DEF Midway
  <2> QED BY <1>2, <2>2, <2>3 DEF Midway, HasKeys, Indexed, KeysOf
<1> QED BY <1>2, <1>3, <1>4, <1>5, <1>6, GivesUpOrdered

(* Writing a key failed and the old record and its keys are back.          *)
LEMMA StoreIndexesFailsOrdered ==
  ASSUME Typed, WritesInOrder, NEW a \in Actors, StoreIndexesFails(a),
         NEW i \in Ids \ tainted'
  PROVE  Ordered(i)'
<1>1. cur[a] \in Ids /\ pc[a] = "setIdx"
  BY LocalsFacts DEF StoreIndexesFails
<1>2. PICK hit, r, keys :
        /\ hit \in BOOLEAN /\ StoreFailed(a, hit)
        /\ item' = [item EXCEPT ![cur[a]] = r]
        /\ idx' = [idx EXCEPT ![cur[a]] = keys]
        /\ hit \/ ((op[a] = "stats" => old[a] # None) /\ r = old[a] /\ keys = (idx[cur[a]] \ KeysOf(it[a])) \cup Indexed(old[a]))
  BY DEF StoreIndexesFails
<1>3. GivesUp(a)
  BY StoreIndexesGivesUp
<1>4. tainted \subseteq tainted' /\ (op[a] = "delete" \/ hit => i # cur[a])
  BY <1>2 DEF StoreFailed, Taint
<1>5. i # cur[a] => Same(i)
  BY <1>1, <1>2, <1>3 DEF Same, GivesUp, disk, Typed, TypeOK
<1>6. i = cur[a] /\ Midway(a, i) /\ op[a] # "delete" =>
         /\ item'[i] # None <=> op[a] = "stats"
         /\ HasKeys(i, Indexed(item[i]))'
  <2> SUFFICES ASSUME i = cur[a], Midway(a, i), op[a] # "delete"
      PROVE  /\ item'[i] # None <=> op[a] = "stats"
             /\ HasKeys(i, Indexed(item[i]))'
      OBVIOUS
  <2>1. /\ ~hit /\ item'[i] = old[a] /\ loose' = loose
        /\ idx'[i] = (idx[i] \ KeysOf(it[a])) \cup Indexed(old[a])
    BY <1>1, <1>2, <1>3, <1>4 DEF GivesUp, Typed, TypeOK
  <2>2. item'[i] # None <=> op[a] = "stats"
    BY <1>1, <1>2, <2>1 DEF Midway
  <2> QED BY <1>1, <2>1, <2>2 DEF Midway, HasKeys, Indexed, KeysOf
<1> QED BY <1>1, <1>3, <1>4, <1>5, <1>6, GivesUpOrdered

(* A step of an actor that is between two operations on ids, before it and *)
(* after it, and that changes no id.                                       *)
LEMMA BystanderOrdered ==
  ASSUME WritesInOrder, NEW a \in Actors, Only(a), bin' = bin, item' = item,
         idx' = idx, UNCHANGED marks, pc[a] \notin BusyPoints,
         pc'[a] \notin BusyPoints, NEW i \in Ids \ tainted'
  PROVE  Ordered(i)'
<1>1. Ordered(i) /\ Same(i) /\ ~Busy(a, i) /\ ~Busy(a, i)'
  BY DEF WritesInOrder, Same, Busy, marks
<1> QED BY <1>1, Elsewhere

(* A crash taints every id that somebody was changing.                     *)
LEMMA CrashOrdered ==
  ASSUME Typed, WritesInOrder, Crash, NEW i \in Ids \ tainted'
  PROVE  Ordered(i)'
<1>1. i \in Ids \ tainted /\ \A a \in Actors : ~Busy(a, i)
  BY DEF Crash
<1>2. Agree(i)
  BY <1>1 DEF WritesInOrder, Ordered, Quiet
<1>3. Agree(i)' /\ \A a \in Actors : ~Busy(a, i)'
  BY <1>2 DEF Crash, Agree, HasKeys, Indexed, KeysOf, Busy, BusyPoints, disk, db
<1> QED BY <1>3 DEF Ordered

(* Nothing is in the trash in an initial state.                            *)
LEMMA WritesInOrderInit == Init => WritesInOrder
BY DEF Init, WritesInOrder, Ordered, Quiet, Agree, HasKeys, Busy, BusyPoints,
       Indexed

(* Every step keeps every untainted id in order.                           *)
LEMMA WritesInOrderStep ==
  Typed /\ FreshIds /\ WritesInOrder /\ [Next]_vars => WritesInOrder'
<1> SUFFICES ASSUME Typed, FreshIds, WritesInOrder, [Next]_vars,
                    NEW i \in Ids \ tainted'
             PROVE  Ordered(i)'
    BY DEF WritesInOrder
<1>1. ASSUME NEW p \in Procs, Request(p) \/ Acquire(p) \/ LockFails(p)
      PROVE  Ordered(i)'
  <2>1. p \in Actors /\ bin' = bin /\ item' = item /\ idx' = idx /\ UNCHANGED marks
    BY <1>1 DEF Request, TrashStart, RestoreStart, DeleteStart, Start, Acquire,
                LockFails, disk, db, Actors
  <2>2. Only(p)
    BY <1>1 DEF Request, TrashStart, RestoreStart, DeleteStart, Start, Acquire,
                LockFails, Return, Only, locals, Typed, TypeOK
  <2>3. pc[p] \notin BusyPoints /\ pc'[p] \notin BusyPoints
    BY <1>1, <2>1, LocalsFacts
       DEF Request, TrashStart, RestoreStart, DeleteStart, Start, Acquire,
           AfterLock, LockFails, Return, BusyPoints, Typed, TypeOK
  <2> QED BY <2>1, <2>2, <2>3, BystanderOrdered
<1>2. ASSUME NEW p \in Procs,
             \/ TrashMoveFails(p) \/ RestoreStat(p) \/ RestoreStatFails(p)
             \/ RestoreMoveFails(p)
      PROVE  Ordered(i)'
  <2>1. p \in Actors /\ bin' = bin /\ item' = item /\ idx' = idx /\ UNCHANGED marks
    BY <1>2 DEF TrashMoveFails, RestoreStat, RestoreStatFails, RestoreMoveFails,
                disk, db, Actors
  <2>2. Only(p)
    BY <1>2 DEF TrashMoveFails, RestoreStat, RestoreStatFails, RestoreMoveFails,
                Goto, Return, UnlockAndReturn, Only, Typed, TypeOK
  <2>3. pc[p] \notin BusyPoints /\ pc'[p] \notin BusyPoints
    BY <1>2, <2>1
       DEF TrashMoveFails, RestoreStat, RestoreStatFails, RestoreMoveFails,
           Goto, Return, UnlockAndReturn, BusyPoints, Typed, TypeOK
  <2> QED BY <2>1, <2>2, <2>3, BystanderOrdered
<1>3. ASSUME (\E j \in Ids : WorkerTake(j)) \/ WorkerStat \/ WorkerStatFails
      PROVE  Ordered(i)'
  <2>1. Worker \in Actors /\ bin' = bin /\ item' = item /\ idx' = idx /\ UNCHANGED marks
    BY <1>3 DEF WorkerTake, WorkerStat, WorkerStatFails, disk, db, Actors
  <2>2. Only(Worker)
    BY <1>3 DEF WorkerTake, WorkerStat, WorkerStatFails, Goto, Return, Only,
                Typed, TypeOK
  <2>3. pc[Worker] \notin BusyPoints /\ pc'[Worker] \notin BusyPoints
    BY <1>3, <2>1 DEF WorkerTake, WorkerStat, WorkerStatFails, Goto, Return,
                BusyPoints, Typed, TypeOK
  <2> QED BY <2>1, <2>2, <2>3, BystanderOrdered
<1>4. ASSUME User \/ UNCHANGED vars
      PROVE  Ordered(i)'
  <2>1. /\ UNCHANGED <<pc, op, cur, it, old>>
        /\ Same(i) /\ i \in Ids \ tainted
    BY <1>4 DEF User, UserCreate, UserRemove, vars, db, locals, marks, Same
  <2>2. Ordered(i)
    BY <2>1 DEF WritesInOrder
  <2>3. \A a \in Actors : Busy(a, i)' <=> Busy(a, i)
    BY <2>1 DEF Busy
  <2>4. \A a \in Actors : Midway(a, i) => Midway(a, i)'
    BY <2>1 DEF Midway, Same, HasKeys, Indexed, KeysOf
  <2>5. Agree(i) => Agree(i)'
    BY <2>1 DEF Agree, Same, HasKeys, Indexed, KeysOf
  <2> QED BY <2>2, <2>3, <2>4, <2>5 DEF Ordered, Quiet
<1>5. ASSUME NEW p \in Procs, RawRemove(p) \/ Locked(p)
      PROVE  Ordered(i)'
  BY <1>2, <1>5, TrashMoveOrdered, TrashBackOrdered, RestoreMoveOrdered,
     RestoreBackOrdered, DropItemOrdered, DropItemFailsOrdered,
     DropIndexesOrdered, DropIndexesFailsOrdered, DeleteRemoveOrdered,
     DeleteRemoveFailsOrdered, RawRemoveOrdered, StoreBeginOrdered,
     StoreItemOrdered, StoreItemFailsOrdered, StoreIndexesOrdered,
     StoreIndexesFailsOrdered DEF Locked, Store, Actors
<1>6. ASSUME WorkerStep PROVE Ordered(i)'
  BY <1>3, <1>6, StoreBeginOrdered, StoreItemOrdered, StoreItemFailsOrdered,
     StoreIndexesOrdered, StoreIndexesFailsOrdered DEF WorkerStep, Store, Actors
<1> QED BY <1>1, <1>4, <1>5, <1>6, CrashOrdered DEF Next

(* At most one actor changes an untainted id, and it left the id as its    *)
(* control point says.                                                     *)
THEOREM WritesInOrderAlways == Spec => []WritesInOrder
<1>1. Typed /\ FreshIds /\ WritesInOrder /\ [Next]_vars => WritesInOrder'
  BY WritesInOrderStep
<1> QED BY <1>1, WritesInOrderInit, TypedAlways, FreshIdsAlways, PTL DEF Spec

(* The file, the record and the listing keys of an id agree at rest, for   *)
(* every id that is not tainted, whatever the handlers do and whichever    *)
(* single call fails; an id of which a listing key could not be deleted    *)
(* may keep keys too many, and one that lost its record that way may keep  *)
(* its file without one.                                                   *)
THEOREM AlwaysConsistent == Spec => []Consistent
<1>1. WritesInOrder => Consistent
  BY DEF WritesInOrder, Ordered, Consistent
<1> QED BY <1>1, WritesInOrderAlways, PTL
=============================================================================
