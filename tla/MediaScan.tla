------------------------------ MODULE MediaScan -----------------------------
(***************************************************************************)
(* The media store and the scans that keep it like the disk                *)
(* (internal/media: scan.go, control.go, store.go, api.go, trash.go, and   *)
(* the requests of internal/graph that change files).                      *)
(*                                                                         *)
(* A file is known by an id made of its inode and change time: replacing,  *)
(* moving or restoring it gives it another one.  A scan lists the files of *)
(* its root, hands each to a worker that stores its record, and then a     *)
(* cleanup deletes the records it did not see, in the background, until    *)
(* another scan or a stop cancels it.  The first cleanup after a reset     *)
(* also deletes the tags of items without a record.  Nothing keeps two     *)
(* scans from running at once, nor requests from changing files meanwhile. *)
(* Here the root is one directory, UpsertMedia and DeleteMedia are one     *)
(* step each, and so are a request's look at a record and what it then     *)
(* does to the file.                                                       *)
(***************************************************************************)
EXTENDS Naturals, FiniteSets

CONSTANTS
    Paths,     \* files of the root that is scanned
    Ids,       \* identities of files, uuidFromTriplet
    Scans,     \* runs of ScanAndSync
    Clients,   \* request handlers
    MaxScans,  \* bound on the scans begun
    MaxChanges, \* bound on the requests, pauses, and changes made outside PlainNAS
    MaxTrashed, \* number of items in the trash at the start
    Bin,       \* a path in the trash
    None

ASSUME PlacesAssumption == Bin \notin Paths /\ None \notin Paths \cup {Bin} \cup Ids \cup Scans
ASSUME BoundAssumption == MaxScans \in Nat /\ MaxChanges \in Nat

VARIABLES
    disk,      \* the id of the file at each path, None if there is none
    bin,       \* the id of the file that each item has in the trash, None if it has none
    used,      \* ids files have had
    rec,       \* media:uuid:<id>: Path and OriginalPath, None if there is none
    byPath,    \* media:path:<path>
    tagged,    \* items with tags
    stop, pause, \* stopFlag and pauseFlag
    needed,    \* tagRelationCleanupNeeded
    current,   \* the scan whose cleanup cleanupCancel would cancel
    pc,        \* each scan's control point
    left, seen, jobs, \* its listing, what it has seen and what its workers have to do
    todo, batch, \* the keys its cleanup has still to look at and those to delete
    cancelled, sweep, \* its cleanup's context, needTagCleanup
    cpc, req,  \* each request's control point and arguments
    scans, changes, \* bounded counters
    lone,      \* history: the last scan to begin, if nothing else happened since
    still      \* history: files unchanged since each scan began, if not stopped

files == <<disk, bin, used>>
store == <<rec, byPath, tagged>>
flags == <<stop, pause, needed, current>>
walk == <<left, seen, jobs>>
clean == <<todo, batch, cancelled, sweep>>
handlers == <<cpc, req>>
vars == <<disk, bin, used, rec, byPath, tagged, stop, pause, needed, current, pc,
          left, seen, jobs, todo, batch, cancelled, sweep, cpc, req, scans, changes,
          lone, still>>

Records == [path : Paths \cup {Bin}, orig : Paths \cup {None}]
Request == [id : Ids \cup {None}, path : Paths \cup {None}, to : Paths \cup {None}]
NoRequest == [id |-> None, path |-> None, to |-> None]

ASSUME NoneAssumption == None \notin Records

Init ==
    /\ disk = [p \in Paths |-> None]
    /\ \E B \in {C \in SUBSET Ids : Cardinality(C) = MaxTrashed} :
          bin = [i \in Ids |-> IF i \in B THEN i ELSE None]
    /\ used = {i \in Ids : bin[i] # None}
    /\ rec \in [Ids -> Records \cup {None}]
    /\ \A i \in Ids : IF bin[i] = None THEN rec[i] = None
                     ELSE rec[i] # None /\ rec[i].path = Bin /\ rec[i].orig # None
    /\ byPath = [p \in Paths |-> None]
    /\ tagged = {}
    /\ stop = FALSE /\ pause = FALSE /\ needed = FALSE /\ current = None
    /\ pc = [s \in Scans |-> "idle"]
    /\ left = [s \in Scans |-> {}]
    /\ seen = [s \in Scans |-> {}]
    /\ jobs = [s \in Scans |-> {}]
    /\ todo = [s \in Scans |-> {}]
    /\ batch = [s \in Scans |-> {}]
    /\ cancelled = [s \in Scans |-> FALSE]
    /\ sweep = [s \in Scans |-> FALSE]
    /\ cpc = [c \in Clients |-> "idle"]
    /\ req = [c \in Clients |-> NoRequest]
    /\ scans = 0 /\ changes = 0
    /\ lone = None
    /\ still = [s \in Scans |-> {}]

Fresh == Ids \ used
OnDisk == {<<p, disk[p]>> : p \in {q \in Paths : disk[q] # None}}

(***************************************************************************)
(* The store.                                                              *)
(***************************************************************************)
(* UpsertMedia: nothing is written if the record is the same.              *)
Upsert(i, r) ==
    /\ rec' = [rec EXCEPT ![i] = r]
    /\ byPath' =
          IF rec[i] = r THEN byPath
          ELSE [p \in Paths |->
                   IF p = r.path THEN i
                   ELSE IF rec[i] # None /\ p = rec[i].path THEN None
                   ELSE byPath[p]]

(* DeleteMedia: the tags first, then the record and the keys of both paths.*)
Delete(i) ==
    /\ tagged' = tagged \ {i}
    /\ rec' = [rec EXCEPT ![i] = None]
    /\ byPath' = [p \in Paths |->
                     IF rec[i] # None /\ p \in {rec[i].path, rec[i].orig} THEN None
                     ELSE byPath[p]]

(***************************************************************************)
(* Scans.                                                                  *)
(***************************************************************************)
CancelCleanup == cancelled' = IF current = None THEN cancelled
                              ELSE [cancelled EXCEPT ![current] = TRUE]

AloneIs(s) == lone' = IF lone = s THEN s ELSE None

(* A scan begins, asked for by a request or launched by a reset: whatever  *)
(* was stopped or paused goes on.                                          *)
Begin(s) ==
    /\ \/ pc[s] = "idle" /\ scans < MaxScans /\ scans' = scans + 1
       \/ pc[s] = "launched" /\ UNCHANGED scans
    /\ pc' = [pc EXCEPT ![s] = "root"]
    /\ stop' = FALSE /\ pause' = FALSE
    /\ CancelCleanup
    /\ seen' = [seen EXCEPT ![s] = {}]
    /\ lone' = IF /\ \A q \in Scans \ {s} : pc[q] = "idle"
                  /\ \A c \in Clients : cpc[c] = "idle"
               THEN s ELSE None
    /\ still' = [still EXCEPT ![s] = OnDisk]
    /\ UNCHANGED <<files, store, needed, current, left, jobs, todo, batch, sweep,
                   handlers, changes>>

(* Each entry begins with a look at stopFlag ...                           *)
Check(s) ==
    /\ pc[s] = "root" \/ (pc[s] = "entry" /\ left[s] # {})
    /\ pc' = [pc EXCEPT ![s] = IF stop THEN "drain"
                               ELSE IF pc[s] = "root" THEN "list" ELSE "visit"]
    /\ left' = [left EXCEPT ![s] = IF stop THEN {} ELSE @]
    /\ still' = [still EXCEPT ![s] = IF stop THEN {} ELSE @]
    /\ AloneIs(s)
    /\ UNCHANGED <<files, store, flags, seen, jobs, clean, handlers, scans, changes>>

(* ... and then waits while pauseFlag is set.                              *)
List(s) ==
    /\ pc[s] = "list" /\ ~pause
    /\ pc' = [pc EXCEPT ![s] = "entry"]
    /\ left' = [left EXCEPT ![s] = {p \in Paths : disk[p] # None}]
    /\ AloneIs(s)
    /\ UNCHANGED <<files, store, flags, seen, jobs, clean, handlers, scans, changes,
                   still>>

(* Mutation for SparesUnmoved and Reconciled: a file that has a record is  *)
(* passed over.                                                            *)
VisitNew(s, p) ==
    /\ pc[s] = "visit" /\ ~pause
    /\ p \in left[s]
    /\ pc' = [pc EXCEPT ![s] = "entry"]
    /\ left' = [left EXCEPT ![s] = @ \ {p}]
    /\ IF disk[p] = None \/ byPath[p] = disk[p] THEN UNCHANGED <<seen, jobs>>
       ELSE /\ seen' = [seen EXCEPT ![s] = @ \cup {disk[p]}]
            /\ jobs' = [jobs EXCEPT ![s] = @ \cup {<<disk[p], p>>}]
    /\ AloneIs(s)
    /\ UNCHANGED <<files, store, flags, clean, handlers, scans, changes, still>>

(* A file that is gone since the listing is passed over.                   *)
Visit(s, p) ==
    /\ pc[s] = "visit" /\ ~pause
    /\ p \in left[s]
    /\ pc' = [pc EXCEPT ![s] = "entry"]
    /\ left' = [left EXCEPT ![s] = @ \ {p}]
    /\ IF disk[p] = None THEN UNCHANGED <<seen, jobs>>
       ELSE /\ seen' = [seen EXCEPT ![s] = @ \cup {disk[p]}]
            /\ jobs' = [jobs EXCEPT ![s] = @ \cup {<<disk[p], p>>}]
    /\ AloneIs(s)
    /\ UNCHANGED <<files, store, flags, clean, handlers, scans, changes, still>>

(* A worker stores the record of a file, without an OriginalPath.          *)
Work(s, j) ==
    /\ j \in jobs[s]
    /\ jobs' = [jobs EXCEPT ![s] = @ \ {j}]
    /\ Upsert(j[1], [path |-> j[2], orig |-> None])
    /\ AloneIs(s)
    /\ UNCHANGED <<files, tagged, flags, pc, left, seen, clean, handlers, scans, changes,
                   still>>

(* Mutation for TagsSurviveLone: nobody waits for the workers.             *)
EndScanEarly(s) ==
    /\ pc[s] = "drain" \/ (pc[s] = "entry" /\ left[s] = {})
    /\ pc' = [pc EXCEPT ![s] = "cleanup"]
    /\ current' = s
    /\ cancelled' = [cancelled EXCEPT ![s] = FALSE]
    /\ sweep' = [sweep EXCEPT ![s] = needed]
    /\ needed' = FALSE
    /\ AloneIs(s)
    /\ UNCHANGED <<files, store, stop, pause, walk, todo, batch, handlers, scans, changes,
                   still>>

(* The walk has ended or was stopped, and all jobs are done: the scan is   *)
(* over and its cleanup starts.                                            *)
EndScan(s) ==
    /\ pc[s] = "drain" \/ (pc[s] = "entry" /\ left[s] = {})
    /\ jobs[s] = {}
    /\ pc' = [pc EXCEPT ![s] = "cleanup"]
    /\ current' = s
    /\ cancelled' = [cancelled EXCEPT ![s] = FALSE]
    /\ sweep' = [sweep EXCEPT ![s] = needed]
    /\ needed' = FALSE
    /\ AloneIs(s)
    /\ UNCHANGED <<files, store, stop, pause, walk, todo, batch, handlers, scans, changes,
                   still>>

(***************************************************************************)
(* Cleanups.                                                               *)
(***************************************************************************)
(* The iterator sees the keys there are when it opens.                     *)
Open(s) ==
    /\ pc[s] = "cleanup"
    /\ pc' = [pc EXCEPT ![s] = "clean"]
    /\ todo' = [todo EXCEPT ![s] = {<<p, byPath[p]>> : p \in {q \in Paths : byPath[q] # None}}]
    /\ AloneIs(s)
    /\ UNCHANGED <<files, store, flags, walk, batch, cancelled, sweep, handlers, scans,
                   changes, still>>

(* What a cleanup that ends, or was cancelled, leaves.                     *)
Finish(s) ==
    /\ pc' = [pc EXCEPT ![s] = "idle"]
    /\ current' = IF current = s THEN None ELSE current
    /\ todo' = [todo EXCEPT ![s] = {}]
    /\ batch' = [batch EXCEPT ![s] = {}]
    /\ cancelled' = [cancelled EXCEPT ![s] = FALSE]
    /\ sweep' = [sweep EXCEPT ![s] = FALSE]
    /\ seen' = [seen EXCEPT ![s] = {}]
    /\ still' = [still EXCEPT ![s] = {}]

Cancelled(s) ==
    /\ pc[s] \in {"clean", "sweep"}
    /\ cancelled[s]
    /\ Finish(s)
    /\ AloneIs(s)
    /\ UNCHANGED <<files, store, stop, pause, needed, left, jobs, handlers, scans, changes>>

(* A record that was not seen goes, unless its item is in the trash; its   *)
(* key goes once more with the batch.                                      *)
Clean(s, e) ==
    LET outdated == rec[e[2]] # None /\ rec[e[2]].path # Bin /\ e[2] \notin seen[s] IN
    /\ pc[s] = "clean" /\ ~cancelled[s]
    /\ e \in todo[s]
    /\ todo' = [todo EXCEPT ![s] = @ \ {e}]
    /\ IF outdated
       THEN Delete(e[2]) /\ batch' = [batch EXCEPT ![s] = @ \cup {e[1]}]
       ELSE UNCHANGED <<store, batch>>
    /\ AloneIs(s)
    /\ UNCHANGED <<files, flags, pc, walk, cancelled, sweep, handlers, scans, changes, still>>

Cleaned(s) ==
    /\ pc[s] = "clean" /\ ~cancelled[s]
    /\ todo[s] = {}
    /\ byPath' = [p \in Paths |-> IF p \in batch[s] THEN None ELSE byPath[p]]
    /\ IF sweep[s]
       THEN /\ pc' = [pc EXCEPT ![s] = "sweep"]
            /\ todo' = [todo EXCEPT ![s] = tagged]
            /\ batch' = [batch EXCEPT ![s] = {}]
            /\ UNCHANGED <<current, cancelled, sweep, seen, still>>
       ELSE Finish(s)
    /\ AloneIs(s)
    /\ UNCHANGED <<files, rec, tagged, stop, pause, needed, left, jobs, handlers, scans,
                   changes>>

(* After a reset: the tags of items without a record ...                   *)
Missing(s, i) ==
    /\ pc[s] = "sweep" /\ ~cancelled[s]
    /\ i \in todo[s]
    /\ todo' = [todo EXCEPT ![s] = @ \ {i}]
    /\ batch' = [batch EXCEPT ![s] = IF rec[i] = None THEN @ \cup {i} ELSE @]
    /\ AloneIs(s)
    /\ UNCHANGED <<files, store, flags, pc, walk, cancelled, sweep, handlers, scans,
                   changes, still>>

(* ... are deleted in one batch.                                           *)
Swept(s) ==
    /\ pc[s] = "sweep" /\ ~cancelled[s]
    /\ todo[s] = {}
    /\ tagged' = tagged \ batch[s]
    /\ Finish(s)
    /\ AloneIs(s)
    /\ UNCHANGED <<files, rec, byPath, stop, pause, needed, left, jobs, handlers, scans,
                   changes>>

(***************************************************************************)
(* Control.                                                                *)
(***************************************************************************)
PauseScan ==
    /\ ~pause
    /\ changes < MaxChanges
    /\ changes' = changes + 1
    /\ pause' = TRUE
    /\ UNCHANGED <<files, store, stop, needed, current, pc, walk, clean, handlers, scans,
                   lone, still>>

ResumeScan ==
    /\ pause
    /\ pause' = FALSE
    /\ UNCHANGED <<files, store, stop, needed, current, pc, walk, clean, handlers, scans,
                   changes, lone, still>>

Stop ==
    /\ ~stop
    /\ stop' = TRUE
    /\ CancelCleanup
    /\ lone' = None
    /\ UNCHANGED <<files, store, pause, needed, current, pc, walk, todo, batch, sweep,
                   handlers, scans, changes, still>>

(* rebuildMediaIndex: stop, and ...                                        *)
Rebuild(c) ==
    /\ cpc[c] = "idle"
    /\ changes < MaxChanges
    /\ changes' = changes + 1
    /\ cpc' = [cpc EXCEPT ![c] = "reset"]
    /\ stop' = TRUE
    /\ CancelCleanup
    /\ lone' = None
    /\ UNCHANGED <<files, store, pause, needed, current, pc, walk, todo, batch, sweep,
                   req, scans, still>>

(* ... ResetAllMediaData, ResumeScan and a new scan.                       *)
Reset(c, s) ==
    /\ cpc[c] = "reset"
    /\ pc[s] = "idle" /\ scans < MaxScans
    /\ cpc' = [cpc EXCEPT ![c] = "idle"]
    /\ rec' = [i \in Ids |-> None]
    /\ byPath' = [p \in Paths |-> None]
    /\ needed' = TRUE
    /\ pause' = FALSE
    /\ pc' = [pc EXCEPT ![s] = "launched"]
    /\ scans' = scans + 1
    /\ lone' = None
    /\ UNCHANGED <<files, tagged, stop, current, walk, clean, req, changes, still>>

(***************************************************************************)
(* Files change: by requests, each of which then tells the store.          *)
(***************************************************************************)
(* The files are d from now on.                                            *)
Become(d) ==
    /\ disk' = d
    /\ still' = [s \in Scans |-> {e \in still[s] : d[e[1]] = e[2]}]
    /\ used' = used \cup {d[p] : p \in {q \in Paths : d[q] # None}}

Ask(c, point, q) ==
    /\ cpc[c] = "idle"
    /\ changes < MaxChanges
    /\ changes' = changes + 1
    /\ cpc' = [cpc EXCEPT ![c] = point]
    /\ req' = [req EXCEPT ![c] = q]
    /\ lone' = None
    /\ UNCHANGED <<store, flags, pc, walk, clean, scans>>

(* An upload, a copy or an edit of a text file, then ScanFile.             *)
Put(c, p, i) ==
    /\ i \in Fresh
    /\ Ask(c, "stat", [NoRequest EXCEPT !.to = p])
    /\ Become([disk EXCEPT ![p] = i])
    /\ UNCHANGED bin

(* deleteFiles or trashFiles, then RemovePath.                             *)
Remove(c, p) ==
    /\ Ask(c, "find", [NoRequest EXCEPT !.path = p])
    /\ Become([disk EXCEPT ![p] = None])
    /\ UNCHANGED bin

(* moveFile or renameFile, then RemovePath and ScanFile.  The change time  *)
(* has seconds, so that a file may keep its id.                            *)
Move(c, p, q, i) ==
    /\ disk[p] # None /\ disk[q] = None
    /\ i \in Fresh \cup {disk[p]}
    /\ Ask(c, "find", [NoRequest EXCEPT !.path = p, !.to = q])
    /\ Become([disk EXCEPT ![p] = None, ![q] = i])
    /\ UNCHANGED bin

(* TrashUUID moves the file that is at the path of a record; RestoreUUID   *)
(* brings it back, with its id if renaming left the change time as it was. *)
TrashItem(c, i) ==
    /\ rec[i] # None /\ rec[i].path # Bin
    /\ disk[rec[i].path] # None
    /\ Ask(c, "trash", [id |-> i, path |-> rec[i].path, to |-> rec[i].orig])
    /\ Become([disk EXCEPT ![rec[i].path] = None])
    /\ bin' = [bin EXCEPT ![i] = disk[rec[i].path]]

RestoreItem(c, i, q, new) ==
    /\ rec[i] # None /\ rec[i].path = Bin
    /\ bin[i] # None /\ disk[q] = None /\ new \in Fresh \cup {bin[i]}
    /\ Ask(c, "restore", [id |-> i, path |-> q, to |-> rec[i].orig])
    /\ Become([disk EXCEPT ![q] = new])
    /\ bin' = [bin EXCEPT ![i] = None]

(* restoreFiles brings it back without its record, which stays in the      *)
(* trash; deleteFiles deletes it there without its record.                 *)
RestoreFile(c, i, q, new) ==
    /\ bin[i] # None /\ disk[q] = None /\ new \in Fresh \cup {bin[i]}
    /\ Ask(c, "stat", [NoRequest EXCEPT !.to = q])
    /\ Become([disk EXCEPT ![q] = new])
    /\ bin' = [bin EXCEPT ![i] = None]

DeleteTrashed(i) ==
    /\ bin[i] # None
    /\ changes < MaxChanges
    /\ changes' = changes + 1
    /\ bin' = [bin EXCEPT ![i] = None]
    /\ lone' = None
    /\ UNCHANGED <<disk, used, store, flags, pc, walk, clean, handlers, scans, still>>

(* DeleteUUIDPermanently.                                                  *)
PurgeItem(c, i) ==
    /\ rec[i] # None
    /\ Ask(c, "delete", [NoRequest EXCEPT !.id = i])
    /\ Become(IF rec[i].path = Bin THEN disk ELSE [disk EXCEPT ![rec[i].path] = None])
    /\ bin' = IF rec[i].path = Bin THEN [bin EXCEPT ![i] = None] ELSE bin

(* A request goes on, or is over.                                          *)
Serve(c, point, i) ==
    /\ cpc' = [cpc EXCEPT ![c] = point]
    /\ req' = [req EXCEPT ![c] = IF point = "idle" THEN NoRequest ELSE [@ EXCEPT !.id = i]]
    /\ lone' = None
    /\ UNCHANGED <<files, flags, pc, walk, clean, scans, changes, still>>

(* RemovePath: FindByPath and DeleteMedia.                                 *)
Find(c) ==
    LET i == byPath[req[c].path] IN
    /\ cpc[c] = "find"
    /\ Serve(c, IF i # None THEN "delete" ELSE IF req[c].to # None THEN "stat" ELSE "idle", i)
    /\ UNCHANGED store

DeleteFound(c) ==
    /\ cpc[c] = "delete"
    /\ Delete(req[c].id)
    /\ Serve(c, IF req[c].to # None THEN "stat" ELSE "idle", req[c].id)

(* ScanFile: the file is looked at and then stored with an OriginalPath.   *)
Stat(c) ==
    LET i == disk[req[c].to] IN
    /\ cpc[c] = "stat"
    /\ Serve(c, IF i = None THEN "idle" ELSE "store", i)
    /\ UNCHANGED store

Store(c) ==
    /\ cpc[c] = "store"
    /\ Upsert(req[c].id, [path |-> req[c].to, orig |-> req[c].to])
    /\ Serve(c, "idle", None)
    /\ UNCHANGED tagged

(* Mutation for TypeOK: OriginalPath is set after Path was.                *)
StoreTrashedTwice(c) ==
    /\ cpc[c] = "trash"
    /\ Upsert(req[c].id, [path |-> Bin,
                          orig |-> IF req[c].to = None THEN Bin ELSE req[c].to])
    /\ tagged' = tagged \ {req[c].id}
    /\ Serve(c, "idle", None)

(* TrashUUID: the tags go, and the record as it was read moves to the trash.*)
StoreTrashed(c) ==
    /\ cpc[c] = "trash"
    /\ Upsert(req[c].id, [path |-> Bin,
                          orig |-> IF req[c].to = None THEN req[c].path ELSE req[c].to])
    /\ tagged' = tagged \ {req[c].id}
    /\ Serve(c, "idle", None)

StoreRestored(c) ==
    /\ cpc[c] = "restore"
    /\ Upsert(req[c].id, [path |-> req[c].path, orig |-> req[c].to])
    /\ Serve(c, "idle", None)
    /\ UNCHANGED tagged

(* Another program removes, writes or touches a file.                      *)
Outside(p, i) ==
    /\ i \in Fresh \cup {None} /\ i # disk[p]
    /\ changes < MaxChanges
    /\ changes' = changes + 1
    /\ Become([disk EXCEPT ![p] = i])
    /\ lone' = None
    /\ UNCHANGED <<bin, store, flags, pc, walk, clean, handlers, scans>>

(* addToTags, for items that have a record.                                *)
Tag(i) ==
    /\ rec[i] # None /\ i \notin tagged
    /\ tagged' = tagged \cup {i}
    /\ UNCHANGED <<files, rec, byPath, flags, pc, walk, clean, handlers, scans, changes,
                   lone, still>>

ScanStep(s) ==
    \/ Begin(s) \/ Check(s) \/ List(s) \/ EndScan(s) \/ Open(s)
    \/ Cancelled(s) \/ Cleaned(s) \/ Swept(s)
    \/ \E p \in Paths : Visit(s, p)
    \/ \E j \in jobs[s] : Work(s, j)
    \/ \E e \in Paths \X Ids : Clean(s, e)
    \/ \E i \in Ids : Missing(s, i)

Change(c) ==
    \/ Rebuild(c)
    \/ \E p \in Paths, i \in Ids : Put(c, p, i)
    \/ \E p \in Paths : Remove(c, p)
    \/ \E p, q \in Paths, i \in Ids : Move(c, p, q, i)
    \/ \E i \in Ids : TrashItem(c, i) \/ PurgeItem(c, i)
    \/ \E i, new \in Ids, q \in Paths : RestoreItem(c, i, q, new) \/ RestoreFile(c, i, q, new)

ClientStep(c) ==
    \/ Find(c) \/ DeleteFound(c) \/ Stat(c) \/ Store(c) \/ StoreTrashed(c)
    \/ StoreRestored(c) \/ \E s \in Scans : Reset(c, s)

Next ==
    \/ \E s \in Scans : ScanStep(s)
    \/ \E c \in Clients : Change(c) \/ ClientStep(c)
    \/ PauseScan \/ ResumeScan \/ Stop
    \/ \E p \in Paths, i \in Ids \cup {None} : Outside(p, i)
    \/ \E i \in Ids : Tag(i) \/ DeleteTrashed(i)

Spec == Init /\ [][Next]_vars

(***************************************************************************)
(* Properties.                                                             *)
(***************************************************************************)
(* The variables have their types.                                         *)
TypeOK ==
    /\ disk \in [Paths -> Ids \cup {None}]
    /\ bin \in [Ids -> Ids \cup {None}] /\ used \in SUBSET Ids
    /\ rec \in [Ids -> Records \cup {None}]
    /\ byPath \in [Paths -> Ids \cup {None}]
    /\ tagged \in SUBSET Ids
    /\ stop \in BOOLEAN /\ pause \in BOOLEAN /\ needed \in BOOLEAN
    /\ current \in Scans \cup {None}
    /\ pc \in [Scans -> {"idle", "launched", "root", "list", "entry", "visit", "drain",
                         "cleanup", "clean", "sweep"}]
    /\ left \in [Scans -> SUBSET Paths]
    /\ seen \in [Scans -> SUBSET Ids]
    /\ jobs \in [Scans -> SUBSET (Ids \X Paths)]
    /\ todo \in [Scans -> SUBSET ((Paths \X Ids) \cup Ids)]
    /\ batch \in [Scans -> SUBSET (Paths \cup Ids)]
    /\ cancelled \in [Scans -> BOOLEAN] /\ sweep \in [Scans -> BOOLEAN]
    /\ cpc \in [Clients -> {"idle", "reset", "stat", "store", "find", "delete", "trash",
                            "restore"}]
    /\ req \in [Clients -> Request]
    /\ scans \in Nat /\ changes \in Nat
    /\ lone \in Scans \cup {None}
    /\ still \in [Scans -> SUBSET (Paths \X Ids)]

(* docs/media-items.md:211, ScanAndSync "upserts items ... and cleans up   *)
(* missing files": whatever happened before, after a scan that nobody      *)
(* disturbed every file has its record, and a path of a missing file leads *)
(* nowhere.                                                                *)
Reconciled ==
    lone # None /\ pc[lone] = "idle" =>
        \A p \in Paths :
            /\ disk[p] # None => rec[disk[p]] # None /\ rec[disk[p]].path = p
            /\ disk[p] = None => byPath[p] = None

(* The cleanup of a scan that was not stopped deletes no record of a file  *)
(* that has been where it is since the scan began.                         *)
SparesUnmoved ==
    [][\A s \in Scans, e \in Paths \X Ids :
          Clean(s, e) /\ e[2] \in {x[2] : x \in still[s]} => rec'[e[2]] = rec[e[2]]]_vars

(* docs/tags.md:85-92: the tags that go after a rebuild are those of items *)
(* that are missing from the disk or in the trash.                         *)
TagsSurvive ==
    [][\A s \in Scans : Swept(s) =>
          \A i \in tagged \ tagged' : \A p \in Paths : disk[p] # i]_vars

(* So it is when no other scan, stop, rebuild or change of a file disturbs *)
(* the scan whose cleanup it is.                                           *)
TagsSurviveLone ==
    [][\A s \in Scans : Swept(s) /\ lone = s =>
          \A i \in tagged \ tagged' : \A p \in Paths : disk[p] # i]_vars
=============================================================================
