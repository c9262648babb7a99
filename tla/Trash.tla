------------------------------- MODULE Trash -------------------------------
(***************************************************************************)
(* The per-disk trash of PlainNAS (internal/fs/trash*.go).                 *)
(*                                                                         *)
(* A file is trashed by renaming it into <mount>/.nas-trash under a fresh  *)
(* id and writing one record and four listing keys to Pebble; restoring    *)
(* and deleting undo this.  The three operations run in request handlers   *)
(* that hold a flock on the disk's .lock file; a background worker that    *)
(* fills in sizes rewrites the record without that lock; users create and  *)
(* remove files through the other APIs, without it too.                    *)
(*                                                                         *)
(* Every action is one system call or one group of database writes that    *)
(* the code issues in a row on one id.  One disk is modelled: ids, files   *)
(* and locks of different disks are disjoint, and the only thing they      *)
(* share, the worker's queue, may drop any id here.                        *)
(***************************************************************************)
EXTENDS Naturals, FiniteSets

CONSTANTS
    Procs,      \* request handlers
    Worker,     \* the goroutine started by ensureTrashWorker
    Paths,      \* locations outside .nas-trash on the disk
    Files,      \* identities of files, whatever their contents
    MaxItems,   \* bound on the ids handed out by shortid.New
    Faults,     \* whether system calls and database writes may fail
    Crashes,    \* whether the process may stop and start again
    None

Ids == 1..MaxItems
Actors == Procs \cup {Worker}

(* TrashItem: where the file came from and whether Size is filled in.      *)
Items == [orig : Paths, stats : BOOLEAN]

NewItem(q) == [orig |-> q, stats |-> FALSE]
WithStats(r) == [r EXCEPT !.stats = TRUE]

ASSUME ActorsAssumption == Worker \notin Procs
ASSUME MaxItemsAssumption == MaxItems \in Nat
ASSUME NoneAssumption == None \notin Files \cup Procs \cup Paths \cup Items
ASSUME EnvironmentAssumption == Faults \in BOOLEAN /\ Crashes \in BOOLEAN

VARIABLES
    live,       \* file at each path
    bin,        \* file in .nas-trash under each id
    item,       \* trash:item:<id>
    idx,        \* listing keys present for each id
    lock,       \* holder of the flock on .lock
    queue,      \* ids waiting in trashWorkCh
    nextId,     \* ids below it have been handed out
    pc, op, cur, it, old, path,  \* each actor's control point and locals
    dirty,      \* history: paths filled by a user since the lock was taken
    tainted,    \* history: ids hit by a crash, a second failure or a race
    loose,      \* history: ids of which a listing key was not deleted
    orphaned    \* history: ids that lost their record with such a failure

disk == <<live, bin>>
db == <<item, idx>>
locals == <<op, cur, it, old, path>>
marks == <<tainted, loose, orphaned>>
vars == <<live, bin, item, idx, lock, queue, nextId, pc, op, cur, it, old,
          path, dirty, tainted, loose, orphaned>>

Ops == {"none", "trash", "restore", "delete", "stats"}

(* Control points at which an actor is between two of its changes to one   *)
(* id's file, record and listing keys.                                     *)
BusyPoints == {"begin", "put", "setIdx", "back", "rDrop", "dropIdx", "remove"}

(* Control points of a handler that holds the lock.                        *)
LockedPoints == BusyPoints \cup {"tMove", "stat", "rMove", "dDrop"}

Points == LockedPoints \cup {"idle", "lock", "raw", "wStat", "wBegin"}

IndexKeys == {"at", "name", "size0", "sizeN"}

(* The listing keys of a record: by deletion time, by deletion time with   *)
(* directories first and by name (the last two as one, they never change), *)
(* and by size, where a record without Size sorts as size 0.               *)
KeysOf(r) == {"at", "name", IF r.stats THEN "sizeN" ELSE "size0"}

Indexed(r) == IF r = None THEN {} ELSE KeysOf(r)

Busy(a, i) == cur[a] = i /\ pc[a] \in BusyPoints

(* Some other actor is in the middle of changing the id that a works on.   *)
Overlapped(a) == \E b \in Actors \ {a} : Busy(b, cur[a])

Free(f) == /\ \A p \in Paths : live[p] # f
           /\ \A i \in Ids : bin[i] # f

TypeOK ==
    /\ live \in [Paths -> Files \cup {None}]
    /\ bin \in [Ids -> Files \cup {None}]
    /\ item \in [Ids -> Items \cup {None}]
    /\ idx \in [Ids -> SUBSET IndexKeys]
    /\ lock \in Procs \cup {None}
    /\ queue \in SUBSET Ids
    /\ nextId \in 1..(MaxItems + 1)
    /\ pc \in [Actors -> Points]
    /\ op \in [Actors -> Ops]
    /\ cur \in [Actors -> Ids \cup {0}]
    /\ it \in [Actors -> Items \cup {None}]
    /\ old \in [Actors -> Items \cup {None}]
    /\ path \in [Actors -> Paths \cup {None}]
    /\ dirty \in SUBSET Paths
    /\ tainted \in SUBSET Ids
    /\ loose \in SUBSET Ids
    /\ orphaned \in SUBSET Ids

Init ==
    /\ live \in [Paths -> Files \cup {None}]
    /\ \A p, q \in Paths : live[p] = live[q] /\ live[p] # None => p = q
    /\ bin = [i \in Ids |-> None]
    /\ item = [i \in Ids |-> None]
    /\ idx = [i \in Ids |-> {}]
    /\ lock = None
    /\ queue = {}
    /\ nextId = 1
    /\ pc = [a \in Actors |-> "idle"]
    /\ op = [a \in Actors |-> "none"]
    /\ cur = [a \in Actors |-> 0]
    /\ it = [a \in Actors |-> None]
    /\ old = [a \in Actors |-> None]
    /\ path = [a \in Actors |-> None]
    /\ dirty = {}
    /\ tainted = {}
    /\ loose = {}
    /\ orphaned = {}

-----------------------------------------------------------------------------
(* Control flow shared by the operations.                                  *)

Goto(a, from, to) == pc[a] = from /\ pc' = [pc EXCEPT ![a] = to]

(* The call returns and its locals are dropped.                            *)
Return(a) ==
    /\ pc' = [pc EXCEPT ![a] = "idle"]
    /\ op' = [op EXCEPT ![a] = "none"]
    /\ cur' = [cur EXCEPT ![a] = 0]
    /\ it' = [it EXCEPT ![a] = None]
    /\ old' = [old EXCEPT ![a] = None]
    /\ path' = [path EXCEPT ![a] = None]

(* defer l.Unlock() and return.                                            *)
UnlockAndReturn(a) ==
    /\ Return(a)
    /\ lock' = None
    /\ dirty' = {}

Taint(a, hit) == tainted' = IF hit THEN tainted \cup {cur[a]} ELSE tainted
Loosen(a, hit) == loose' = IF hit THEN loose \cup {cur[a]} ELSE loose

Start(p, o, i, r, q) ==
    /\ pc[p] = "idle"
    /\ pc' = [pc EXCEPT ![p] = IF r = None THEN "raw" ELSE "lock"]
    /\ op' = [op EXCEPT ![p] = o]
    /\ cur' = [cur EXCEPT ![p] = i]
    /\ it' = [it EXCEPT ![p] = r]
    /\ path' = [path EXCEPT ![p] = q]
    /\ UNCHANGED <<disk, db, lock, queue, old, dirty, marks>>

(* A client learns an id from TrashPaths, once the call is over, or from   *)
(* the listings, which show only ids that have a record.                   *)
Known == {i \in Ids : /\ i < nextId
                      /\ \/ item[i] # None
                         \/ \A a \in Procs : op[a] = "trash" => cur[a] # i}

(* TrashPaths up to the lock: Lstat finds the file, a fresh id is drawn.   *)
TrashStart(p, q) ==
    /\ live[q] # None
    /\ nextId \in Ids
    /\ nextId' = nextId + 1
    /\ Start(p, "trash", nextId, NewItem(q), q)

(* RestorePaths up to the lock: the record is loaded before locking.       *)
RestoreStart(p, i) ==
    /\ i \in Known
    /\ item[i] # None
    /\ Start(p, "restore", i, item[i], item[i].orig)
    /\ UNCHANGED nextId

(* DeleteTrashByPath and the purge loops: the record is loaded before      *)
(* locking, and without a record the path is removed without locking.      *)
DeleteStart(p, i) ==
    /\ i \in Known
    /\ Start(p, "delete", i, item[i], None)
    /\ UNCHANGED nextId

AfterLock(o) == CASE o = "trash" -> "tMove"
                  [] o = "restore" -> "stat"
                  [] o = "delete" -> "dDrop"

(* flock(LOCK_EX) on the disk's .lock file is granted.                     *)
LockGrantedToAll == TRUE
LockGranted == lock = None

Acquire(p) ==
    /\ pc[p] = "lock"
    /\ pc' = [pc EXCEPT ![p] = AfterLock(op[p])]
    /\ LockGranted
    /\ lock' = p
    /\ UNCHANGED <<disk, db, queue, nextId, locals, dirty, marks>>

LockFails(p) ==
    /\ Faults
    /\ pc[p] = "lock"
    /\ Return(p)
    /\ UNCHANGED <<disk, db, lock, queue, nextId, dirty, marks>>

-----------------------------------------------------------------------------
(* TrashPaths under the lock.                                              *)

TrashMove(p) ==
    /\ Goto(p, "tMove", "begin")
    /\ live[path[p]] # None
    /\ bin' = [bin EXCEPT ![cur[p]] = live[path[p]]]
    /\ live' = [live EXCEPT ![path[p]] = None]
    /\ UNCHANGED <<db, lock, queue, nextId, locals, dirty, marks>>

TrashMoveFailsKeepingLock(p) ==
    /\ pc[p] = "tMove"
    /\ live[path[p]] = None \/ Faults
    /\ Return(p)
    /\ UNCHANGED <<disk, db, lock, queue, nextId, dirty, marks>>

TrashMoveFails(p) ==
    /\ pc[p] = "tMove"
    /\ live[path[p]] = None \/ Faults
    /\ UnlockAndReturn(p)
    /\ UNCHANGED <<disk, db, queue, nextId, marks>>

(* The record could not be stored: rename the file back to its source,     *)
(* over whatever is there by now; the result of the rename is ignored.     *)
TrashBack(p) ==
    /\ pc[p] = "back" /\ op[p] = "trash"
    /\ \/ /\ bin[cur[p]] # None
          /\ live' = [live EXCEPT ![path[p]] = bin[cur[p]]]
          /\ bin' = [bin EXCEPT ![cur[p]] = None]
          /\ UNCHANGED tainted
       \/ /\ bin[cur[p]] = None \/ Faults
          /\ Taint(p, TRUE)
          /\ UNCHANGED disk
    /\ UnlockAndReturn(p)
    /\ UNCHANGED <<db, queue, nextId, loose, orphaned>>

-----------------------------------------------------------------------------
(* RestorePaths under the lock.                                            *)

(* Stat the original path and, when something is there, look for a free    *)
(* "(restored)" name.                                                      *)
RestoreStat(p) ==
    /\ Goto(p, "stat", "rMove")
    /\ \E q \in Paths :
         /\ live[q] = None
         /\ q = it[p].orig \/ live[it[p].orig] # None
         /\ path' = [path EXCEPT ![p] = q]
    /\ UNCHANGED <<disk, db, lock, queue, nextId, op, cur, it, old, dirty,
                   marks>>

(* MkdirAll fails.                                                         *)
RestoreStatFails(p) ==
    /\ Faults
    /\ pc[p] = "stat"
    /\ UnlockAndReturn(p)
    /\ UNCHANGED <<disk, db, queue, nextId, marks>>

(* The copy loaded before the lock is not the record any more: it may name *)
(* listing keys that are not the record's.                                 *)
Stale(p) == item[cur[p]] # it[p]

RestoreMove(p) ==
    /\ Goto(p, "rMove", "rDrop")
    /\ bin[cur[p]] # None
    /\ live' = [live EXCEPT ![path[p]] = bin[cur[p]]]
    /\ bin' = [bin EXCEPT ![cur[p]] = None]
    /\ Taint(p, Overlapped(p))
    /\ Loosen(p, Stale(p))
    /\ UNCHANGED <<db, lock, queue, nextId, locals, dirty, orphaned>>

RestoreMoveFails(p) ==
    /\ pc[p] = "rMove"
    /\ bin[cur[p]] = None \/ Faults
    /\ UnlockAndReturn(p)
    /\ UNCHANGED <<disk, db, queue, nextId, marks>>

(* deleteTrashItemKeys failed: rename the target back into the trash; the  *)
(* result of the rename is ignored.                                        *)
RestoreBack(p) ==
    /\ pc[p] = "back" /\ op[p] = "restore"
    /\ \/ /\ live[path[p]] # None
          /\ bin' = [bin EXCEPT ![cur[p]] = live[path[p]]]
          /\ live' = [live EXCEPT ![path[p]] = None]
          /\ UNCHANGED tainted
       \/ /\ live[path[p]] = None \/ Faults
          /\ Taint(p, TRUE)
          /\ UNCHANGED disk
    /\ UnlockAndReturn(p)
    /\ UNCHANGED <<db, queue, nextId, loose, orphaned>>

-----------------------------------------------------------------------------
(* deleteTrashItemKeys, called by RestorePaths and deleteTrashItem.        *)

DropItem(p) ==
    /\ \/ /\ Goto(p, "rDrop", "dropIdx")
          /\ UNCHANGED <<tainted, loose>>
       \/ /\ Goto(p, "dDrop", "dropIdx")
          /\ Taint(p, Overlapped(p))
          /\ Loosen(p, Stale(p))
    /\ item' = [item EXCEPT ![cur[p]] = None]
    /\ UNCHANGED <<disk, idx, lock, queue, nextId, locals, dirty, orphaned>>

DropItemFails(p) ==
    /\ Faults
    /\ \/ /\ Goto(p, "rDrop", "back")
          /\ UNCHANGED <<lock, locals, dirty>>
       \/ /\ pc[p] = "dDrop"
          /\ UnlockAndReturn(p)
    /\ UNCHANGED <<disk, db, queue, nextId, marks>>

(* deleteTrashItemIndexes: a failure on the first key is reported, and     *)
(* ignored on the others, which stay behind and name the id in a listing.  *)
DropIndexes(p) ==
    /\ pc[p] = "dropIdx"
    /\ \E gone \in SUBSET KeysOf(it[p]) :
         /\ "at" \in gone
         /\ gone = KeysOf(it[p]) \/ Faults
         /\ idx' = [idx EXCEPT ![cur[p]] = @ \ gone]
         /\ Loosen(p, gone # KeysOf(it[p]))
    /\ \/ /\ op[p] = "restore"
          /\ UnlockAndReturn(p)
       \/ /\ op[p] = "delete"
          /\ Goto(p, "dropIdx", "remove")
          /\ UNCHANGED <<lock, locals, dirty>>
    /\ UNCHANGED <<disk, item, queue, nextId, tainted, orphaned>>

(* The record is gone already: the file stays in the trash, or is renamed  *)
(* back into it, without one, and the listing keys stay.                   *)
DropIndexesFails(p) ==
    /\ Faults
    /\ pc[p] = "dropIdx"
    /\ \/ /\ op[p] = "restore"
          /\ Goto(p, "dropIdx", "back")
          /\ UNCHANGED <<lock, locals, dirty>>
       \/ /\ op[p] = "delete"
          /\ UnlockAndReturn(p)
    /\ Loosen(p, TRUE)
    /\ orphaned' = orphaned \cup {cur[p]}
    /\ UNCHANGED <<disk, db, queue, nextId, tainted>>

-----------------------------------------------------------------------------
(* deleteTrashItem after its keys are gone, and the unlocked fallback.     *)

DeleteRemove(p) ==
    /\ pc[p] = "remove"
    /\ bin' = [bin EXCEPT ![cur[p]] = None]
    /\ UnlockAndReturn(p)
    /\ UNCHANGED <<live, db, queue, nextId, marks>>

DeleteRemoveFailsSilently(p) ==
    /\ Faults
    /\ pc[p] = "remove"
    /\ bin[cur[p]] # None
    /\ UnlockAndReturn(p)
    /\ UNCHANGED <<disk, db, queue, nextId, marks>>

(* RemoveAll fails: the record is stored again.                            *)
DeleteRemoveFails(p) ==
    /\ Faults
    /\ Goto(p, "remove", "begin")
    /\ bin[cur[p]] # None
    /\ UNCHANGED <<disk, db, lock, queue, nextId, locals, dirty, marks>>

(* DeleteTrashByPath without a record: os.RemoveAll(trashedPath).          *)
RawRemove(p) ==
    /\ pc[p] = "raw"
    /\ bin' = [bin EXCEPT ![cur[p]] = None]
    /\ Taint(p, Overlapped(p) \/ item[cur[p]] # None)
    /\ Return(p)
    /\ UNCHANGED <<live, db, lock, queue, nextId, dirty, loose, orphaned>>

-----------------------------------------------------------------------------
(* storeTrashItem, called by TrashPaths, deleteTrashItem and the worker.   *)

(* The listing keys of the record being replaced.                          *)
NoOldKeys(r) == {}
OldKeys(r) == Indexed(r)

(* Load the old record and delete its listing keys, ignoring errors: a     *)
(* load that fails finds no record.                                        *)
StoreBegin(a) ==
    /\ Goto(a, "begin", "put") \/ Goto(a, "wBegin", "put")
    /\ \E found \in {item[cur[a]], None} : \E gone \in SUBSET OldKeys(found) :
         /\ Faults \/ (found = item[cur[a]] /\ gone = OldKeys(found))
         /\ old' = [old EXCEPT ![a] = found]
         /\ idx' = [idx EXCEPT ![cur[a]] = @ \ gone]
         /\ Loosen(a, found # item[cur[a]] \/ gone # OldKeys(found))
    /\ Taint(a, pc[a] = "wBegin" /\ (Overlapped(a) \/ item[cur[a]] = None))
    /\ UNCHANGED <<disk, item, lock, queue, nextId, op, cur, it, path, dirty,
                   orphaned>>

StoreItem(a) ==
    /\ Goto(a, "put", "setIdx")
    /\ item' = [item EXCEPT ![cur[a]] = it[a]]
    /\ UNCHANGED <<disk, idx, lock, queue, nextId, locals, dirty, marks>>

(* The caller's path after storeTrashItem returned an error: TrashPaths    *)
(* renames back, deleteTrashItem and the worker ignore it.                 *)
StoreFailed(a, hit) ==
    /\ \/ /\ op[a] = "trash"
          /\ pc' = [pc EXCEPT ![a] = "back"]
          /\ Taint(a, hit)
          /\ UNCHANGED <<lock, locals, dirty>>
       \/ /\ op[a] = "delete"
          /\ UnlockAndReturn(a)
          /\ Taint(a, TRUE)
       \/ /\ op[a] = "stats"
          /\ Return(a)
          /\ Taint(a, hit)
          /\ UNCHANGED <<lock, dirty>>
    /\ UNCHANGED <<disk, queue, nextId, loose, orphaned>>

(* Storing the record fails: set the old record's listing keys again,      *)
(* which may fail too.                                                     *)
StoreItemFails(a) ==
    /\ Faults
    /\ pc[a] = "put"
    /\ \E back \in {Indexed(old[a]), {}} :
         /\ idx' = [idx EXCEPT ![cur[a]] = @ \cup back]
         /\ StoreFailed(a, back # Indexed(old[a]))
    /\ UNCHANGED item

EnqueueNextId(i) == queue' \in {queue, queue \cup {nextId}}
EnqueueStats(i) == queue' \in {queue, queue \cup {i}}

(* Set the four listing keys and return; TrashPaths then queues the id for *)
(* the worker, which drops it when its channel is full.                    *)
StoreIndexes(a) ==
    /\ pc[a] = "setIdx"
    /\ idx' = [idx EXCEPT ![cur[a]] = @ \cup KeysOf(it[a])]
    /\ \/ /\ a = Worker
          /\ Return(a)
          /\ UNCHANGED <<lock, dirty, queue>>
       \/ /\ a # Worker
          /\ UnlockAndReturn(a)
          /\ IF op[a] = "trash" THEN EnqueueStats(cur[a]) ELSE UNCHANGED queue
    /\ UNCHANGED <<disk, item, nextId, marks>>

(* A listing key cannot be set: the new keys and the record are deleted    *)
(* and the old ones written back, any of which may fail too, leaving the   *)
(* new record, the old one or none.  Where the old one could not be loaded *)
(* either, it is lost with them.                                           *)
StoreIndexesFails(a) ==
    /\ Faults
    /\ pc[a] = "setIdx"
    /\ \/ /\ item' = [item EXCEPT ![cur[a]] = old[a]]
          /\ idx' = [idx EXCEPT ![cur[a]] =
                       (@ \ KeysOf(it[a])) \cup Indexed(old[a])]
          /\ StoreFailed(a, op[a] = "stats" /\ old[a] = None)
       \/ /\ \E r \in {None, it[a], old[a]} :
               item' = [item EXCEPT ![cur[a]] = r]
          /\ idx' = [idx EXCEPT ![cur[a]] =
                       @ \cup KeysOf(it[a]) \cup Indexed(old[a])]
          /\ StoreFailed(a, TRUE)

-----------------------------------------------------------------------------
(* The stats worker, which takes no lock.                                  *)

WorkerTake(i) ==
    /\ i \in queue
    /\ pc[Worker] = "idle"
    /\ queue' = queue \ {i}
    /\ IF item[i] = None \/ (item[i] # None /\ item[i].stats)
       THEN UNCHANGED <<pc, op, cur, it>>
       ELSE /\ pc' = [pc EXCEPT ![Worker] = "wStat"]
            /\ op' = [op EXCEPT ![Worker] = "stats"]
            /\ cur' = [cur EXCEPT ![Worker] = i]
            /\ it' = [it EXCEPT ![Worker] = item[i]]
    /\ UNCHANGED <<disk, db, lock, nextId, old, path, dirty, marks>>

WorkerStat ==
    /\ Goto(Worker, "wStat", "wBegin")
    /\ bin[cur[Worker]] # None
    /\ it' = [it EXCEPT ![Worker] = WithStats(@)]
    /\ UNCHANGED <<disk, db, lock, queue, nextId, op, cur, old, path, dirty,
                   marks>>

WorkerStatFails ==
    /\ pc[Worker] = "wStat"
    /\ bin[cur[Worker]] = None \/ Faults
    /\ Return(Worker)
    /\ UNCHANGED <<disk, db, lock, queue, nextId, dirty, marks>>

-----------------------------------------------------------------------------
(* Users, through upload, copy, move and delete, and the process itself.   *)

UserCreate(q, f) ==
    /\ live[q] = None
    /\ Free(f)
    /\ live' = [live EXCEPT ![q] = f]
    /\ dirty' = IF lock = None THEN dirty ELSE dirty \cup {q}
    /\ UNCHANGED <<bin, db, lock, queue, nextId, pc, locals, marks>>

UserRemove(q) ==
    /\ live[q] # None
    /\ live' = [live EXCEPT ![q] = None]
    /\ UNCHANGED <<bin, db, lock, queue, nextId, pc, locals, dirty, marks>>

(* The process stops between two writes and is started again: files and    *)
(* records survive, the flock, the handlers and the queue do not.  The ids *)
(* it interrupts are tainted, so that a group of listing keys written in   *)
(* part, which no operation but the listings reads, needs no state.        *)
Crash ==
    /\ Crashes
    /\ lock' = None
    /\ queue' = {}
    /\ dirty' = {}
    /\ pc' = [a \in Actors |-> "idle"]
    /\ op' = [a \in Actors |-> "none"]
    /\ cur' = [a \in Actors |-> 0]
    /\ it' = [a \in Actors |-> None]
    /\ old' = [a \in Actors |-> None]
    /\ path' = [a \in Actors |-> None]
    /\ tainted' = tainted \cup {i \in Ids : \E a \in Actors : Busy(a, i)}
    /\ UNCHANGED <<disk, db, nextId, loose, orphaned>>

-----------------------------------------------------------------------------
Store(a) == \/ StoreBegin(a) \/ StoreItem(a) \/ StoreItemFails(a)
            \/ StoreIndexes(a) \/ StoreIndexesFails(a)

Request(p) == \/ \E q \in Paths : TrashStart(p, q)
              \/ \E i \in Ids : RestoreStart(p, i) \/ DeleteStart(p, i)

(* The steps a handler takes with the lock held.                           *)
Locked(p) == \/ TrashMove(p) \/ TrashMoveFails(p) \/ TrashBack(p)
             \/ RestoreStat(p) \/ RestoreStatFails(p)
             \/ RestoreMove(p) \/ RestoreMoveFails(p) \/ RestoreBack(p)
             \/ DropItem(p) \/ DropItemFails(p)
             \/ DropIndexes(p) \/ DropIndexesFails(p)
             \/ DeleteRemove(p) \/ DeleteRemoveFails(p)
             \/ Store(p)

WorkerStep == \/ \E i \in Ids : WorkerTake(i)
              \/ WorkerStat \/ WorkerStatFails \/ Store(Worker)

User == \E q \in Paths : UserRemove(q) \/ \E f \in Files : UserCreate(q, f)

Next == \/ \E p \in Procs : \/ Request(p) \/ Acquire(p) \/ LockFails(p)
                            \/ RawRemove(p) \/ Locked(p)
        \/ WorkerStep
        \/ User
        \/ Crash

Spec == Init /\ [][Next]_vars

-----------------------------------------------------------------------------
(* Properties.                                                             *)

Quiet(i) == \A a \in Actors : ~Busy(a, i)

(* Exactly these listing keys, or also some that could not be deleted.     *)
HasKeys(i, keys) == idx[i] = keys \/ (i \in loose /\ keys \subseteq idx[i])

Agree(i) == /\ item[i] # None => bin[i] # None
            /\ bin[i] # None => item[i] # None \/ i \in orphaned
            /\ HasKeys(i, Indexed(item[i]))

(* The file, the record and the listing keys of an id agree whenever no    *)
(* operation is between two of its writes: a trashed file can be listed,   *)
(* restored and purged, and a record has a file.  Any failure to move or   *)
(* remove the file, to store or delete the record or to set a listing key  *)
(* is undone by the rollbacks of TrashPaths, RestorePaths, deleteTrashItem *)
(* and storeTrashItem, whatever the other handlers do.  The others are not *)
(* undone.  An ignored failure to delete a listing key, a load of the      *)
(* old record that fails, and keys deleted after an outdated copy leave    *)
(* keys too many (loose), but none too few.  A reported failure to delete  *)
(* one leaves the file without its record (orphaned), never a record       *)
(* without its file.  Nothing is said of an id in tainted: a crash hit it  *)
(* between two writes, a rollback or the writes that repair a failed       *)
(* delete failed too, or the worker or an unlocked delete, which take no   *)
(* lock, overtook another writer.                                          *)
Consistent == \A i \in Ids \ tainted : Quiet(i) => Agree(i)

(* A rename by the trash overwrites a file only when a user put that file  *)
(* there after the handler took the lock: two handlers never do it to each *)
(* other, whatever they restore to or roll back to.                        *)
NoClobber ==
    [][\A q \in Paths : live[q] # None /\ live'[q] \notin {live[q], None}
                           => q \in dirty]_vars

(* "All restore/GC logic uses Pebble metadata as the single source of      *)
(* truth" (trash.go): a record that no operation is changing has a file.   *)
MetadataIsTruth ==
    \A i \in Ids : Quiet(i) /\ item[i] # None => bin[i] # None

(* "Keep metadata as the only truth: roll back physical restore on         *)
(* metadata failure" (trash.go): a file that a failed restore renames back *)
(* into the trash has its record.                                          *)
RestoreRollbackKeepsRecord ==
    [][\A p \in Procs :
         /\ pc[p] = "back" /\ op[p] = "restore"
         /\ pc'[p] = "idle" /\ bin'[cur[p]] # None
         => item'[cur[p]] # None]_vars
=============================================================================
