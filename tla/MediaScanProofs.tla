--------------------------- MODULE MediaScanProofs --------------------------
(* Types, what a scan owes the files it passed, and what one owes store and*)
(* tags that nothing disturbs, for every set of paths and ids, any number  *)
(* of scans, and any requests meanwhile.                                   *)
EXTENDS MediaScan, TLAPS

Points == {"idle", "launched", "root", "list", "entry", "visit", "drain", "cleanup",
           "clean", "sweep"}
Doing == {"idle", "reset", "stat", "store", "find", "delete", "trash", "restore"}

(* The special values are none of the ordinary ones.                       *)
LEMMA Values ==
  /\ Bin \notin Paths /\ None \notin Paths /\ None # Bin /\ None \notin Ids
  /\ None \notin Scans
BY PlacesAssumption

(* A counter that is counted up.                                           *)
LEMMA Succ == \A n \in Nat : n + 1 \in Nat
OBVIOUS

(* Records as they are made.                                               *)
LEMMA RecordTypes ==
  /\ \A p \in Paths \cup {Bin}, q \in Paths \cup {None} :
        [path |-> p, orig |-> q] \in Records
  /\ \A r \in Records : r.path \in Paths \cup {Bin} /\ r.orig \in Paths \cup {None}
  /\ NoRequest \in Request
  /\ \A q \in Request : q.id \in Ids \cup {None} /\ q.path \in Paths \cup {None}
                        /\ q.to \in Paths \cup {None}
  /\ \A i \in Ids \cup {None}, p, q \in Paths \cup {None} :
        [id |-> i, path |-> p, to |-> q] \in Request
  /\ \A q \in Request, i \in Ids \cup {None} : [q EXCEPT !.id = i] \in Request
  /\ \A p \in Paths \cup {None} : [NoRequest EXCEPT !.path = p] \in Request
  /\ \A p \in Paths \cup {None} : [NoRequest EXCEPT !.to = p] \in Request
  /\ \A p, q \in Paths \cup {None} : [NoRequest EXCEPT !.path = p, !.to = q] \in Request
  /\ \A i \in Ids \cup {None} : [NoRequest EXCEPT !.id = i] \in Request
BY DEF Records, Request, NoRequest

(* UpsertMedia and DeleteMedia keep the types of the store.                *)
LEMMA StoreTypes ==
  ASSUME TypeOK, NEW i \in Ids
  PROVE  /\ \A r \in Records : Upsert(i, r) =>
               /\ rec' \in [Ids -> Records \cup {None}]
               /\ byPath' \in [Paths -> Ids \cup {None}]
         /\ Delete(i) =>
               /\ rec' \in [Ids -> Records \cup {None}]
               /\ byPath' \in [Paths -> Ids \cup {None}]
               /\ tagged' \in SUBSET Ids
<1>1. ASSUME NEW r \in Records, Upsert(i, r)
      PROVE  /\ rec' \in [Ids -> Records \cup {None}]
             /\ byPath' \in [Paths -> Ids \cup {None}]
  BY <1>1 DEF Upsert, TypeOK
<1>2. ASSUME Delete(i)
      PROVE  /\ rec' \in [Ids -> Records \cup {None}]
             /\ byPath' \in [Paths -> Ids \cup {None}]
             /\ tagged' \in SUBSET Ids
  BY <1>2 DEF Delete, TypeOK
<1> QED BY <1>1, <1>2

(* A change of the files keeps theirs.                                     *)
LEMMA BecomeTypes ==
  ASSUME TypeOK, NEW d \in [Paths -> Ids \cup {None}], Become(d)
  PROVE  /\ disk' \in [Paths -> Ids \cup {None}]
         /\ still' \in [Scans -> SUBSET (Paths \X Ids)]
         /\ used' \in SUBSET Ids
BY DEF Become, TypeOK

(* What belongs to no scan, and what belongs to no request.                *)
LEMMA ChangeTypes ==
  ASSUME TypeOK, NEW c \in Clients, Change(c)
  PROVE  TypeOK'
<1> USE RecordTypes, Values DEF files, store, flags, walk, clean, handlers
<1>1. ASSUME NEW point \in Doing, NEW q \in Request, Ask(c, point, q), bin' \in [Ids -> Ids \cup {None}],
             NEW d \in [Paths -> Ids \cup {None}], Become(d)
      PROVE  TypeOK'
  <2>1. /\ disk' \in [Paths -> Ids \cup {None}] /\ used' \in SUBSET Ids
        /\ still' \in [Scans -> SUBSET (Paths \X Ids)]
    BY <1>1, BecomeTypes
  <2>2. cpc \in [Clients -> Doing] /\ req \in [Clients -> Request] /\ changes \in Nat
    BY DEF TypeOK, Doing
  <2>3. /\ cpc' = [cpc EXCEPT ![c] = point] /\ req' = [req EXCEPT ![c] = q]
        /\ changes' = changes + 1
    BY <1>1, Zenon DEF Ask
  <2>4. cpc' \in [Clients -> Doing] /\ req' \in [Clients -> Request] /\ changes' \in Nat
    <3>1. changes' \in Nat
      BY <2>2, <2>3, Succ, Zenon
    <3>2. cpc' \in [Clients -> Doing]
      BY <1>1, <2>2, <2>3
    <3>3. req' \in [Clients -> Request]
      BY <1>1, <2>2, <2>3
    <3> QED BY <3>1, <3>2, <3>3
  <2> QED BY <1>1, <2>1, <2>4 DEF Ask, TypeOK, Doing
<1>2. ASSUME Rebuild(c) PROVE TypeOK'
  <2>1. cancelled' \in [Scans -> BOOLEAN]
    BY <1>2 DEF Rebuild, CancelCleanup, TypeOK
  <2>2. cpc' = [cpc EXCEPT ![c] = "reset"] /\ changes' = changes + 1
    BY <1>2, Zenon DEF Rebuild
  <2>3. cpc' \in [Clients -> Doing]
    BY <2>2 DEF TypeOK, Doing
  <2>4. changes' \in Nat
    BY <2>2, Succ, Zenon DEF TypeOK
  <2> QED BY <1>2, <2>1, <2>3, <2>4 DEF Rebuild, TypeOK, Doing
<1>3. ASSUME NEW p \in Paths, NEW i \in Ids, Put(c, p, i) PROVE TypeOK'
  <2>1. [disk EXCEPT ![p] = i] \in [Paths -> Ids \cup {None}] /\ bin' \in [Ids -> Ids \cup {None}]
    BY <1>3 DEF Put, TypeOK
  <2> QED BY <1>1, <1>3, <2>1 DEF Put, Doing
<1>4. ASSUME NEW p \in Paths, Remove(c, p) PROVE TypeOK'
  <2>1. [disk EXCEPT ![p] = None] \in [Paths -> Ids \cup {None}] /\ bin' \in [Ids -> Ids \cup {None}]
    BY <1>4 DEF Remove, TypeOK
  <2> QED BY <1>1, <1>4, <2>1 DEF Remove, Doing
<1>5. ASSUME NEW p \in Paths, NEW q \in Paths, NEW i \in Ids, Move(c, p, q, i) PROVE TypeOK'
  <2>1. [disk EXCEPT ![p] = None, ![q] = i] \in [Paths -> Ids \cup {None}] /\ bin' \in [Ids -> Ids \cup {None}]
    BY <1>5 DEF Move, TypeOK
  <2> QED BY <1>1, <1>5, <2>1 DEF Move, Doing
<1>6. ASSUME NEW i \in Ids, TrashItem(c, i) PROVE TypeOK'
  <2>1. rec[i] \in Records /\ rec[i].path \in Paths
    BY <1>6 DEF TrashItem, TypeOK
  <2>2. [disk EXCEPT ![rec[i].path] = None] \in [Paths -> Ids \cup {None}] /\ bin' \in [Ids -> Ids \cup {None}]
    BY <1>6 DEF TrashItem, TypeOK
  <2>3. [id |-> i, path |-> rec[i].path, to |-> rec[i].orig] \in Request
    BY <2>1
  <2> QED BY <1>1, <1>6, <2>2, <2>3 DEF TrashItem, Doing
<1>7. ASSUME NEW i \in Ids, NEW q \in Paths, NEW new \in Ids, RestoreItem(c, i, q, new)
      PROVE  TypeOK'
  <2>1. rec[i] \in Records
    <3>1. rec[i] \in Records \cup {None} /\ rec[i] # None
      BY <1>7 DEF RestoreItem, TypeOK
    <3> QED BY <3>1
  <2>2. [disk EXCEPT ![q] = new] \in [Paths -> Ids \cup {None}] /\ bin' \in [Ids -> Ids \cup {None}]
    BY <1>7 DEF RestoreItem, TypeOK
  <2>3. [id |-> i, path |-> q, to |-> rec[i].orig] \in Request
    BY <2>1
  <2> QED BY <1>1, <1>7, <2>2, <2>3 DEF RestoreItem, Doing
<1>8. ASSUME NEW i \in Ids, NEW q \in Paths, NEW new \in Ids, RestoreFile(c, i, q, new)
      PROVE  TypeOK'
  <2>1. [disk EXCEPT ![q] = new] \in [Paths -> Ids \cup {None}] /\ bin' \in [Ids -> Ids \cup {None}]
    BY <1>8 DEF RestoreFile, TypeOK
  <2> QED BY <1>1, <1>8, <2>1 DEF RestoreFile, Doing
<1>9. ASSUME NEW i \in Ids, PurgeItem(c, i) PROVE TypeOK'
  <2>1. rec[i] \in Records
    <3>1. rec[i] \in Records \cup {None}
      BY DEF TypeOK
    <3>2. rec[i] # None
      BY <1>9 DEF PurgeItem
    <3> QED BY <3>1, <3>2
  <2>2. (IF rec[i].path = Bin THEN disk ELSE [disk EXCEPT ![rec[i].path] = None])
            \in [Paths -> Ids \cup {None}] /\ bin' \in [Ids -> Ids \cup {None}]
    BY <1>9, <2>1 DEF PurgeItem, TypeOK
  <2> QED BY <1>1, <1>9, <2>2 DEF PurgeItem, Doing
<1> HIDE DEF files, store, flags, walk, clean, handlers
<1> QED BY <1>2, <1>3, <1>4, <1>5, <1>6, <1>7, <1>8, <1>9 DEF Change

(* The calls a request makes afterwards.                                   *)
LEMMA ServeTypes ==
  ASSUME TypeOK, NEW c \in Clients, ClientStep(c),
         cpc[c] \in {"store", "trash", "restore", "delete"} => req[c].id \in Ids,
         cpc[c] = "find" => req[c].path \in Paths,
         cpc[c] \in {"stat", "store"} => req[c].to \in Paths,
         cpc[c] = "restore" => req[c].path \in Paths
  PROVE  TypeOK'
<1> USE RecordTypes, Values DEF files, store, flags, walk, clean, handlers
<1>0. req[c] \in Request
  BY DEF TypeOK
<1>1. ASSUME NEW point \in Doing, NEW i \in Ids \cup {None}, Serve(c, point, i),
             rec' \in [Ids -> Records \cup {None}], byPath' \in [Paths -> Ids \cup {None}],
             tagged' \in SUBSET Ids
      PROVE  TypeOK'
  <2>1. cpc' \in [Clients -> Doing]
    BY <1>1 DEF Serve, TypeOK, Doing
  <2>2. req' \in [Clients -> Request]
    <3>1. [req[c] EXCEPT !.id = i] \in Request
      BY <1>0
    <3>2. req' = [req EXCEPT ![c] = IF point = "idle" THEN NoRequest ELSE [req[c] EXCEPT !.id = i]]
      BY <1>1 DEF Serve
    <3> QED BY <3>1, <3>2 DEF TypeOK
  <2> QED BY <1>1, <2>1, <2>2 DEF Serve, TypeOK, Doing
<1>2. ASSUME Find(c) PROVE TypeOK'
  <2>1. byPath[req[c].path] \in Ids \cup {None}
    BY <1>2 DEF Find, TypeOK
  <2>2. PICK point \in Doing : Serve(c, point, byPath[req[c].path])
    BY <1>2 DEF Find, Doing
  <2> QED BY <1>1, <1>2, <2>1, <2>2 DEF Find, TypeOK
<1>3. ASSUME DeleteFound(c) PROVE TypeOK'
  <2>1. req[c].id \in Ids
    BY <1>3 DEF DeleteFound
  <2>2. PICK point \in Doing : Serve(c, point, req[c].id)
    BY <1>3 DEF DeleteFound, Doing
  <2> QED BY <1>1, <1>3, <2>1, <2>2, StoreTypes DEF DeleteFound, TypeOK
<1>4. ASSUME Stat(c) PROVE TypeOK'
  <2>1. disk[req[c].to] \in Ids \cup {None}
    BY <1>4 DEF Stat, TypeOK
  <2>2. PICK point \in Doing : Serve(c, point, disk[req[c].to])
    BY <1>4 DEF Stat, Doing
  <2> QED BY <1>1, <1>4, <2>1, <2>2 DEF Stat, TypeOK
<1>5. ASSUME Store(c) PROVE TypeOK'
  <2>1. [path |-> req[c].to, orig |-> req[c].to] \in Records
    BY <1>5 DEF Store
  <2> QED BY <1>1, <1>5, <2>1, StoreTypes DEF Store, TypeOK, Doing
<1>6. ASSUME StoreTrashed(c) PROVE TypeOK'
  <2>1. [path |-> Bin, orig |-> IF req[c].to = None THEN req[c].path ELSE req[c].to] \in Records
    <3>1. (IF req[c].to = None THEN req[c].path ELSE req[c].to) \in Paths \cup {None}
      BY <1>0
    <3> QED BY <3>1
  <2>2. req[c].id \in Ids
    BY <1>6 DEF StoreTrashed
  <2>3. Serve(c, "idle", None) /\ tagged' = tagged \ {req[c].id}
    BY <1>6 DEF StoreTrashed
  <2>4. Upsert(req[c].id, [path |-> Bin, orig |-> IF req[c].to = None THEN req[c].path ELSE req[c].to])
    BY <1>6, Zenon DEF StoreTrashed
  <2>5. rec' \in [Ids -> Records \cup {None}] /\ byPath' \in [Paths -> Ids \cup {None}]
    BY <2>1, <2>2, <2>4, StoreTypes
  <2>6. tagged' \in SUBSET Ids
    BY <2>3 DEF TypeOK
  <2> QED BY <1>1, <2>3, <2>5, <2>6 DEF Doing
<1>7. ASSUME StoreRestored(c) PROVE TypeOK'
  <2>1. [path |-> req[c].path, orig |-> req[c].to] \in Records
    BY <1>0, <1>7 DEF StoreRestored
  <2> QED BY <1>1, <1>7, <2>1, StoreTypes DEF StoreRestored, TypeOK, Doing
<1>8. ASSUME NEW s \in Scans, Reset(c, s) PROVE TypeOK'
  <2>1. /\ pc' \in [Scans -> Points] /\ cpc' \in [Clients -> Doing] /\ scans' \in Nat
        /\ rec' \in [Ids -> Records \cup {None}] /\ byPath' \in [Paths -> Ids \cup {None}]
    <3>1. /\ pc' = [pc EXCEPT ![s] = "launched"] /\ cpc' = [cpc EXCEPT ![c] = "idle"]
          /\ scans' = scans + 1
          /\ rec' = [i \in Ids |-> None] /\ byPath' = [p \in Paths |-> None]
      BY <1>8, Zenon DEF Reset
    <3>2. pc \in [Scans -> Points] /\ cpc \in [Clients -> Doing] /\ scans \in Nat
      BY DEF TypeOK, Points, Doing
    <3>3. pc' \in [Scans -> Points]
      BY <3>1, <3>2 DEF Points
    <3>4. cpc' \in [Clients -> Doing]
      BY <3>1, <3>2 DEF Doing
    <3>5. scans' \in Nat
      BY <3>1, <3>2, Succ, Zenon
    <3>6. rec' \in [Ids -> Records \cup {None}] /\ byPath' \in [Paths -> Ids \cup {None}]
      BY <3>1
    <3> QED BY <3>3, <3>4, <3>5, <3>6
  <2> QED BY <1>8, <2>1 DEF Reset, TypeOK, Points, Doing
<1> HIDE DEF files, store, flags, walk, clean, handlers
<1> QED BY <1>2, <1>3, <1>4, <1>5, <1>6, <1>7, <1>8 DEF ClientStep


(* What a scan does.                                                       *)
LEMMA ScanTypes ==
  ASSUME TypeOK, NEW s \in Scans, ScanStep(s)
  PROVE  TypeOK'
<1> USE RecordTypes, Values DEF files, store, flags, walk, clean, handlers
<1>0. /\ pc \in [Scans -> Points] /\ left \in [Scans -> SUBSET Paths]
      /\ seen \in [Scans -> SUBSET Ids] /\ jobs \in [Scans -> SUBSET (Ids \X Paths)]
      /\ todo \in [Scans -> SUBSET ((Paths \X Ids) \cup Ids)]
      /\ batch \in [Scans -> SUBSET (Paths \cup Ids)]
      /\ cancelled \in [Scans -> BOOLEAN] /\ sweep \in [Scans -> BOOLEAN]
      /\ still \in [Scans -> SUBSET (Paths \X Ids)]
      /\ lone \in Scans \cup {None} /\ current \in Scans \cup {None}
  BY DEF TypeOK, Points
<1>a. ASSUME AloneIs(s) PROVE lone' \in Scans \cup {None}
  BY <1>a DEF AloneIs
<1>f. ASSUME Finish(s)
      PROVE  /\ pc' \in [Scans -> Points] /\ current' \in Scans \cup {None}
             /\ todo' \in [Scans -> SUBSET ((Paths \X Ids) \cup Ids)]
             /\ batch' \in [Scans -> SUBSET (Paths \cup Ids)]
             /\ cancelled' \in [Scans -> BOOLEAN] /\ sweep' \in [Scans -> BOOLEAN]
             /\ seen' \in [Scans -> SUBSET Ids]
             /\ still' \in [Scans -> SUBSET (Paths \X Ids)]
  BY <1>0, <1>f DEF Finish, Points
<1>1. ASSUME Begin(s) PROVE TypeOK'
  <2>1. cancelled' \in [Scans -> BOOLEAN]
    BY <1>0, <1>1 DEF Begin, CancelCleanup
  <2>2. OnDisk \in SUBSET (Paths \X Ids)
    <3> SUFFICES ASSUME NEW x \in OnDisk PROVE x \in Paths \X Ids
      OBVIOUS
    <3>1. PICK p \in Paths : disk[p] # None /\ x = <<p, disk[p]>>
      BY DEF OnDisk
    <3> QED BY <3>1 DEF TypeOK
  <2>3. /\ pc' = [pc EXCEPT ![s] = "root"] /\ seen' = [seen EXCEPT ![s] = {}]
        /\ still' = [still EXCEPT ![s] = OnDisk]
    BY <1>1, Zenon DEF Begin
  <2>4. /\ pc' \in [Scans -> Points] /\ seen' \in [Scans -> SUBSET Ids]
        /\ still' \in [Scans -> SUBSET (Paths \X Ids)]
    BY <1>0, <2>2, <2>3 DEF Points
  <2>5. lone' \in Scans \cup {None}
    BY <1>1 DEF Begin
  <2>6. scans' \in Nat
    <3>1. scans' = scans + 1 \/ scans' = scans
      BY <1>1 DEF Begin
    <3>2. scans \in Nat
      BY DEF TypeOK
    <3> QED BY <3>1, <3>2, Succ, Zenon
  <2> QED BY <1>1, <2>1, <2>4, <2>5, <2>6 DEF Begin, TypeOK, Points
<1>2. ASSUME Check(s) PROVE TypeOK'
  <2>1. /\ pc' \in [Scans -> Points] /\ left' \in [Scans -> SUBSET Paths]
        /\ still' \in [Scans -> SUBSET (Paths \X Ids)]
    BY <1>0, <1>2 DEF Check, Points
  <2> QED BY <1>2, <1>a, <2>1 DEF Check, TypeOK, Points
<1>3. ASSUME List(s) PROVE TypeOK'
  <2>1. /\ pc' \in [Scans -> Points] /\ left' \in [Scans -> SUBSET Paths]
    BY <1>0, <1>3 DEF List, Points
  <2> QED BY <1>3, <1>a, <2>1 DEF List, TypeOK, Points
<1>4. ASSUME NEW p \in Paths, Visit(s, p) PROVE TypeOK'
  <2>1. disk[p] \in Ids \cup {None}
    BY DEF TypeOK
  <2>2. /\ pc' \in [Scans -> Points] /\ left' \in [Scans -> SUBSET Paths]
    BY <1>0, <1>4 DEF Visit, Points
  <2>3. /\ seen' \in [Scans -> SUBSET Ids] /\ jobs' \in [Scans -> SUBSET (Ids \X Paths)]
    <3>1. CASE disk[p] = None
      BY <1>0, <1>4, <3>1 DEF Visit
    <3>2. CASE disk[p] # None
      <4>1. /\ seen' = [seen EXCEPT ![s] = @ \cup {disk[p]}]
            /\ jobs' = [jobs EXCEPT ![s] = @ \cup {<<disk[p], p>>}]
        BY <1>4, <3>2, Zenon DEF Visit
      <4>2. disk[p] \in Ids
        BY <2>1, <3>2
      <4>3. seen' \in [Scans -> SUBSET Ids]
        BY <1>0, <4>1, <4>2
      <4>4. <<disk[p], p>> \in Ids \X Paths
        BY <4>2
      <4>5. jobs' \in [Scans -> SUBSET (Ids \X Paths)]
        BY <1>0, <4>1, <4>4
      <4> QED BY <4>3, <4>5
    <3> QED BY <3>1, <3>2
  <2> QED BY <1>4, <1>a, <2>2, <2>3 DEF Visit, TypeOK, Points
<1>6. ASSUME NEW j \in jobs[s], Work(s, j) PROVE TypeOK'
  <2>0. jobs[s] \in SUBSET (Ids \X Paths)
    BY <1>0
  <2>1. j[1] \in Ids /\ [path |-> j[2], orig |-> None] \in Records
    <3>1. j \in Ids \X Paths
      BY <2>0
    <3>2. j[1] \in Ids /\ j[2] \in Paths
      BY <3>1
    <3> QED BY <3>2
  <2>2. rec' \in [Ids -> Records \cup {None}] /\ byPath' \in [Paths -> Ids \cup {None}]
    BY <1>6, <2>1, StoreTypes DEF Work
  <2>3. jobs' \in [Scans -> SUBSET (Ids \X Paths)]
    BY <1>0, <1>6 DEF Work
  <2> QED BY <1>6, <1>a, <2>2, <2>3 DEF Work, TypeOK
<1>7. ASSUME EndScan(s) PROVE TypeOK'
  <2>1. /\ pc' = [pc EXCEPT ![s] = "cleanup"] /\ current' = s
        /\ cancelled' = [cancelled EXCEPT ![s] = FALSE]
        /\ sweep' = [sweep EXCEPT ![s] = needed] /\ needed' = FALSE
    BY <1>7, Zenon DEF EndScan
  <2>2. needed \in BOOLEAN
    BY DEF TypeOK
  <2>3. /\ pc' \in [Scans -> Points] /\ current' \in Scans \cup {None}
        /\ cancelled' \in [Scans -> BOOLEAN] /\ sweep' \in [Scans -> BOOLEAN]
    BY <1>0, <2>1, <2>2 DEF Points
  <2> QED BY <1>7, <1>a, <2>1, <2>3 DEF EndScan, TypeOK, Points
<1>8. ASSUME Open(s) PROVE TypeOK'
  <2>1. {<<p, byPath[p]>> : p \in {q \in Paths : byPath[q] # None}} \in SUBSET (Paths \X Ids)
    <3> SUFFICES ASSUME NEW x \in {<<p, byPath[p]>> : p \in {q \in Paths : byPath[q] # None}}
                 PROVE  x \in Paths \X Ids
      OBVIOUS
    <3>1. PICK p \in Paths : byPath[p] # None /\ x = <<p, byPath[p]>>
      OBVIOUS
    <3> QED BY <3>1 DEF TypeOK
  <2>2. pc' \in [Scans -> Points] /\ todo' \in [Scans -> SUBSET ((Paths \X Ids) \cup Ids)]
    BY <1>0, <1>8, <2>1 DEF Open, Points
  <2> QED BY <1>8, <1>a, <2>2 DEF Open, TypeOK, Points
<1>9. ASSUME Cancelled(s) PROVE TypeOK'
  BY <1>9, <1>a, <1>f DEF Cancelled, TypeOK, Points
<1>10. ASSUME NEW e \in Paths \X Ids, Clean(s, e) PROVE TypeOK'
  <2>1. e[1] \in Paths /\ e[2] \in Ids
    OBVIOUS
  <2>2. /\ rec' \in [Ids -> Records \cup {None}] /\ byPath' \in [Paths -> Ids \cup {None}]
        /\ tagged' \in SUBSET Ids
    BY <1>10, <2>1, StoreTypes DEF Clean, TypeOK
  <2>3. batch' \in [Scans -> SUBSET (Paths \cup Ids)]
    <3>1. batch' = batch \/ batch' = [batch EXCEPT ![s] = @ \cup {e[1]}]
      BY <1>10, Zenon DEF Clean
    <3>2. [batch EXCEPT ![s] = @ \cup {e[1]}] \in [Scans -> SUBSET (Paths \cup Ids)]
      BY <1>0, <2>1
    <3> QED BY <1>0, <3>1, <3>2, Zenon
  <2>4. todo' \in [Scans -> SUBSET ((Paths \X Ids) \cup Ids)]
    BY <1>0, <1>10 DEF Clean
  <2> QED BY <1>10, <1>a, <2>2, <2>3, <2>4 DEF Clean, TypeOK
<1>11. ASSUME Cleaned(s) PROVE TypeOK'
  <2>1. byPath' \in [Paths -> Ids \cup {None}]
    BY <1>11 DEF Cleaned, TypeOK
  <2>2. /\ pc' \in [Scans -> Points] /\ current' \in Scans \cup {None}
        /\ todo' \in [Scans -> SUBSET ((Paths \X Ids) \cup Ids)]
        /\ batch' \in [Scans -> SUBSET (Paths \cup Ids)]
        /\ cancelled' \in [Scans -> BOOLEAN] /\ sweep' \in [Scans -> BOOLEAN]
        /\ seen' \in [Scans -> SUBSET Ids]
        /\ still' \in [Scans -> SUBSET (Paths \X Ids)]
    <3>1. CASE ~sweep[s]
      BY <1>11, <1>f, <3>1 DEF Cleaned
    <3>2. CASE sweep[s]
      <4>1. /\ pc' = [pc EXCEPT ![s] = "sweep"] /\ todo' = [todo EXCEPT ![s] = tagged]
            /\ batch' = [batch EXCEPT ![s] = {}]
            /\ UNCHANGED <<current, cancelled, sweep, seen, still>>
        BY <1>11, <3>2, Zenon DEF Cleaned
      <4>2. tagged \in SUBSET Ids
        BY DEF TypeOK
      <4> QED BY <1>0, <4>1, <4>2 DEF Points
    <3> QED BY <3>1, <3>2
  <2>3. lone' \in Scans \cup {None}
    BY <1>11, <1>a DEF Cleaned
  <2>4. UNCHANGED <<files, rec, tagged, stop, pause, needed, left, jobs, handlers, scans,
                    changes>>
    BY <1>11, Zenon DEF Cleaned
  <2> QED BY <2>1, <2>2, <2>3, <2>4 DEF TypeOK, Points
<1>12. ASSUME NEW i \in Ids, Missing(s, i) PROVE TypeOK'
  <2>1. /\ todo' \in [Scans -> SUBSET ((Paths \X Ids) \cup Ids)]
        /\ batch' \in [Scans -> SUBSET (Paths \cup Ids)]
    BY <1>0, <1>12 DEF Missing
  <2> QED BY <1>12, <1>a, <2>1 DEF Missing, TypeOK
<1>13. ASSUME Swept(s) PROVE TypeOK'
  <2>1. tagged' \in SUBSET Ids
    BY <1>13 DEF Swept, TypeOK
  <2> QED BY <1>13, <1>a, <1>f, <2>1 DEF Swept, TypeOK, Points
<1> HIDE DEF files, store, flags, walk, clean, handlers
<1> QED BY <1>1, <1>2, <1>3, <1>4, <1>6, <1>7, <1>8, <1>9, <1>10, <1>11, <1>12, <1>13
        DEF ScanStep

(* Everything else.                                                        *)
LEMMA OtherTypes ==
  ASSUME TypeOK,
         \/ PauseScan \/ ResumeScan \/ Stop
         \/ \E p \in Paths, i \in Ids \cup {None} : Outside(p, i)
         \/ \E i \in Ids : Tag(i) \/ DeleteTrashed(i)
         \/ UNCHANGED vars
  PROVE  TypeOK'
<1> USE Values DEF files, store, flags, walk, clean, handlers
<1>2. ASSUME PauseScan \/ ResumeScan PROVE TypeOK'
  <2>1. changes' \in Nat
    <3>1. changes' = changes + 1 \/ changes' = changes
      BY <1>2 DEF PauseScan, ResumeScan
    <3>2. changes \in Nat
      BY DEF TypeOK
    <3> QED BY <3>1, <3>2, Succ, Zenon
  <2>2. pause' \in BOOLEAN
    BY <1>2 DEF PauseScan, ResumeScan
  <2>3. CASE PauseScan
    BY <2>1, <2>2, <2>3 DEF PauseScan, TypeOK
  <2>4. CASE ResumeScan
    BY <2>1, <2>2, <2>4 DEF ResumeScan, TypeOK
  <2> QED BY <1>2, <2>3, <2>4
<1>3. ASSUME Stop PROVE TypeOK'
  <2>1. cancelled' \in [Scans -> BOOLEAN]
    BY <1>3 DEF Stop, CancelCleanup, TypeOK
  <2> QED BY <1>3, <2>1 DEF Stop, TypeOK
<1>4. ASSUME NEW p \in Paths, NEW i \in Ids \cup {None}, Outside(p, i) PROVE TypeOK'
  <2>1. [disk EXCEPT ![p] = i] \in [Paths -> Ids \cup {None}]
    BY DEF TypeOK
  <2>2. /\ disk' \in [Paths -> Ids \cup {None}] /\ used' \in SUBSET Ids
        /\ still' \in [Scans -> SUBSET (Paths \X Ids)]
    BY <1>4, <2>1, BecomeTypes DEF Outside
  <2>3. changes' \in Nat
    BY <1>4 DEF Outside, TypeOK
  <2> QED BY <1>4, <2>2, <2>3 DEF Outside, TypeOK
<1>5. ASSUME NEW i \in Ids, Tag(i) PROVE TypeOK'
  BY <1>5 DEF Tag, TypeOK
<1>6. ASSUME NEW i \in Ids, DeleteTrashed(i) PROVE TypeOK'
  BY <1>6, Succ DEF DeleteTrashed, TypeOK
<1>7. ASSUME UNCHANGED vars PROVE TypeOK'
  BY <1>7 DEF vars, TypeOK
<1> HIDE DEF files, store, flags, walk, clean, handlers
<1> QED BY <1>2, <1>3, <1>4, <1>5, <1>6, <1>7

(* A request has the arguments its next call needs.                        *)
Asked(c) ==
    /\ cpc[c] \in {"store", "trash", "restore", "delete"} => req[c].id \in Ids
    /\ cpc[c] = "find" => req[c].path \in Paths
    /\ cpc[c] \in {"stat", "store"} => req[c].to \in Paths
    /\ cpc[c] = "restore" => req[c].path \in Paths

(* A file unmoved since the scan began is still to be visited or was seen. *)
Passed(s) ==
    /\ \A e \in still[s] : disk[e[1]] = e[2]
    /\ pc[s] \in {"idle", "launched"} => still[s] = {}
    /\ pc[s] \in {"entry", "visit"} => \A e \in still[s] : e[1] \in left[s] \/ e[2] \in seen[s]
    /\ pc[s] \in {"drain", "cleanup", "clean", "sweep"} => \A e \in still[s] : e[2] \in seen[s]

Kept ==
    /\ TypeOK
    /\ \A c \in Clients : Asked(c)
    /\ \A s \in Scans : Passed(s)

(* Another id leaves the paths of a request alone.                         *)
LEMMA NewId ==
  ASSUME NEW q \in Request, NEW i
  PROVE  /\ [q EXCEPT !.id = i].id = i
         /\ [q EXCEPT !.id = i].path = q.path
         /\ [q EXCEPT !.id = i].to = q.to
BY DEF Request

(* A request keeps its arguments, and others' are left alone.              *)
LEMMA AskedKept ==
  ASSUME TypeOK, \A c \in Clients : Asked(c), NEW c \in Clients, Change(c) \/ ClientStep(c)
  PROVE  \A k \in Clients : Asked(k)'
<1> USE Values, RecordTypes DEF handlers
<1> SUFFICES ASSUME NEW k \in Clients PROVE Asked(k)'
  OBVIOUS
<1>0. /\ cpc \in [Clients -> Doing] /\ req \in [Clients -> Request]
      /\ Asked(k) /\ Asked(c)
  BY DEF TypeOK, Doing
<1>1. ASSUME NEW point \in Doing, NEW q \in Request, Ask(c, point, q),
             point \in {"store", "trash", "restore", "delete"} => q.id \in Ids,
             point = "find" => q.path \in Paths,
             point \in {"stat", "store"} => q.to \in Paths,
             point = "restore" => q.path \in Paths
      PROVE  Asked(k)'
  BY <1>0, <1>1 DEF Ask, Asked
<1>2. ASSUME Rebuild(c) PROVE Asked(k)'
  BY <1>0, <1>2 DEF Rebuild, Asked
<1>3. ASSUME NEW p \in Paths, NEW i \in Ids, Put(c, p, i) PROVE Asked(k)'
  BY <1>1, <1>3 DEF Put, Doing, NoRequest
<1>4. ASSUME NEW p \in Paths, Remove(c, p) PROVE Asked(k)'
  BY <1>1, <1>4 DEF Remove, Doing, NoRequest
<1>5. ASSUME NEW p \in Paths, NEW q \in Paths, NEW i \in Ids, Move(c, p, q, i) PROVE Asked(k)'
  BY <1>1, <1>5 DEF Move, Doing, NoRequest
<1>6. ASSUME NEW i \in Ids, TrashItem(c, i) PROVE Asked(k)'
  <2>1. rec[i] \in Records /\ rec[i].path \in Paths
    BY <1>6 DEF TrashItem, TypeOK
  <2>2. [id |-> i, path |-> rec[i].path, to |-> rec[i].orig] \in Request
    BY <2>1
  <2> QED BY <1>1, <1>6, <2>2 DEF TrashItem, Doing
<1>7. ASSUME NEW i \in Ids, NEW q \in Paths, NEW new \in Ids, RestoreItem(c, i, q, new)
      PROVE  Asked(k)'
  <2>1. rec[i] \in Records \cup {None} /\ rec[i] # None
    BY <1>7 DEF RestoreItem, TypeOK
  <2>2. [id |-> i, path |-> q, to |-> rec[i].orig] \in Request
    BY <2>1
  <2> QED BY <1>1, <1>7, <2>2 DEF RestoreItem, Doing
<1>8. ASSUME NEW i \in Ids, NEW q \in Paths, NEW new \in Ids, RestoreFile(c, i, q, new)
      PROVE  Asked(k)'
  BY <1>1, <1>8 DEF RestoreFile, Doing, NoRequest
<1>9. ASSUME NEW i \in Ids, PurgeItem(c, i) PROVE Asked(k)'
  BY <1>1, <1>9 DEF PurgeItem, Doing, NoRequest
<1>a. ASSUME NEW point \in Doing, NEW i \in Ids \cup {None}, Serve(c, point, i),
             point \in {"store", "trash", "restore", "delete"} => i \in Ids,
             point = "find" => req[c].path \in Paths,
             point \in {"stat", "store"} => req[c].to \in Paths,
             point = "restore" => req[c].path \in Paths
      PROVE  Asked(k)'
  <2>1. /\ cpc' = [cpc EXCEPT ![c] = point]
        /\ req' = [req EXCEPT ![c] = IF point = "idle" THEN NoRequest
                                     ELSE [req[c] EXCEPT !.id = i]]
    BY <1>a, Zenon DEF Serve
  <2>2. k # c => cpc'[k] = cpc[k] /\ req'[k] = req[k]
    BY <1>0, <2>1
  <2>3. /\ cpc'[c] = point
        /\ point # "idle" => /\ req'[c].id = i /\ req'[c].path = req[c].path
                             /\ req'[c].to = req[c].to
    <3> DEFINE n == [req[c] EXCEPT !.id = i]
    <3>1. cpc'[c] = point
      BY <1>0, <2>1
    <3>2. req[c] \in Request
      BY <1>0
    <3>3. point # "idle" => req'[c] = n
      BY <1>0, <2>1
    <3>4. n.id = i /\ n.path = req[c].path /\ n.to = req[c].to
      BY <3>2, NewId
    <3> HIDE DEF n
    <3> QED BY <3>1, <3>3, <3>4
  <2>4. CASE k = c
    BY <1>a, <2>3, <2>4 DEF Asked
  <2>5. CASE k # c
    BY <1>0, <2>2, <2>5 DEF Asked
  <2> QED BY <2>4, <2>5
<1>b. req[c].to \in Paths \cup {None}
  BY <1>0
<1>10. ASSUME Find(c) PROVE Asked(k)'
  <2>1. byPath[req[c].path] \in Ids \cup {None}
    BY <1>0, <1>10 DEF Find, Asked, TypeOK
  <2>2. Serve(c, IF byPath[req[c].path] # None THEN "delete"
                 ELSE IF req[c].to # None THEN "stat" ELSE "idle", byPath[req[c].path])
    BY <1>10 DEF Find
  <2> QED BY <1>a, <1>b, <2>1, <2>2 DEF Doing
<1>11. ASSUME DeleteFound(c) PROVE Asked(k)'
  <2>1. req[c].id \in Ids
    BY <1>0, <1>11 DEF DeleteFound, Asked
  <2>2. Serve(c, IF req[c].to # None THEN "stat" ELSE "idle", req[c].id)
    BY <1>11 DEF DeleteFound
  <2> QED BY <1>a, <1>b, <2>1, <2>2 DEF Doing
<1>12. ASSUME Stat(c) PROVE Asked(k)'
  <2>1. req[c].to \in Paths /\ disk[req[c].to] \in Ids \cup {None}
    BY <1>0, <1>12 DEF Stat, Asked, TypeOK
  <2>2. Serve(c, IF disk[req[c].to] = None THEN "idle" ELSE "store", disk[req[c].to])
    BY <1>12 DEF Stat
  <2> QED BY <1>a, <2>1, <2>2 DEF Doing
<1>13. ASSUME Store(c) \/ StoreTrashed(c) \/ StoreRestored(c) PROVE Asked(k)'
  <2>1. Serve(c, "idle", None)
    BY <1>13 DEF Store, StoreTrashed, StoreRestored
  <2> QED BY <1>a, <2>1 DEF Doing
<1>14. ASSUME NEW s \in Scans, Reset(c, s) PROVE Asked(k)'
  BY <1>0, <1>14 DEF Reset, Asked
<1> QED BY <1>2, <1>3, <1>4, <1>5, <1>6, <1>7, <1>8, <1>9, <1>10, <1>11, <1>12, <1>13,
           <1>14 DEF Change, ClientStep

(* A change of the files leaves no changed file in still.                  *)
LEMMA PassedByChange ==
  ASSUME TypeOK, NEW s \in Scans, Passed(s), NEW d \in [Paths -> Ids \cup {None}], Become(d),
         UNCHANGED <<pc, left, seen>>
  PROVE  Passed(s)'
BY DEF Become, Passed, TypeOK

(* So does what changes neither the files nor the walk of a scan.          *)
LEMMA PassedByFrame ==
  ASSUME NEW s \in Scans, Passed(s), disk' = disk, still'[s] = still[s], pc'[s] = pc[s],
         left'[s] = left[s], seen'[s] = seen[s]
  PROVE  Passed(s)'
BY DEF Passed

(* A scan sees every file that stays, and leaves the other scans alone.    *)
LEMMA PassedByScan ==
  ASSUME TypeOK, \A t \in Scans : Passed(t), NEW s \in Scans, ScanStep(s)
  PROVE  \A t \in Scans : Passed(t)'
<1> USE Values DEF files, walk
<1>0. /\ pc \in [Scans -> Points] /\ left \in [Scans -> SUBSET Paths]
      /\ seen \in [Scans -> SUBSET Ids] /\ still \in [Scans -> SUBSET (Paths \X Ids)]
      /\ Passed(s)
  BY DEF TypeOK, Points
<1>1. disk' = disk
  BY DEF ScanStep, Begin, Check, List, Visit, Work, EndScan, Open, Cancelled, Clean,
         Cleaned, Missing, Swept
<1>f. ASSUME Finish(s)
      PROVE  /\ \A t \in Scans \ {s} : /\ pc'[t] = pc[t] /\ seen'[t] = seen[t]
                                       /\ still'[t] = still[t]
             /\ still'[s] = {}
  BY <1>0, <1>f DEF Finish
<1>2. \A t \in Scans \ {s} : /\ still'[t] = still[t] /\ pc'[t] = pc[t]
                             /\ left'[t] = left[t] /\ seen'[t] = seen[t]
  <2>1. CASE Begin(s) \/ Check(s) \/ List(s) \/ EndScan(s) \/ Open(s)
    BY <1>0, <2>1 DEF Begin, Check, List, EndScan, Open
  <2>2. CASE Cancelled(s) \/ Swept(s)
    BY <1>0, <1>f, <2>2 DEF Cancelled, Swept
  <2>3. CASE Cleaned(s)
    BY <1>0, <1>f, <2>3 DEF Cleaned
  <2>4. ASSUME NEW p \in Paths, Visit(s, p)
        PROVE  \A t \in Scans \ {s} : /\ still'[t] = still[t] /\ pc'[t] = pc[t]
                                      /\ left'[t] = left[t] /\ seen'[t] = seen[t]
    BY <1>0, <2>4 DEF Visit
  <2>5. ASSUME NEW j \in jobs[s], Work(s, j) PROVE UNCHANGED <<still, pc, left, seen>>
    BY <2>5 DEF Work
  <2>6. ASSUME NEW e \in Paths \X Ids, Clean(s, e) PROVE UNCHANGED <<still, pc, left, seen>>
    BY <2>6 DEF Clean
  <2>7. ASSUME NEW i \in Ids, Missing(s, i) PROVE UNCHANGED <<still, pc, left, seen>>
    BY <2>7 DEF Missing
  <2> QED BY <2>1, <2>2, <2>3, <2>4, <2>5, <2>6, <2>7 DEF ScanStep
<1>3. Passed(s)'
  <2>1. CASE Begin(s)
    <3>1. \A e \in OnDisk : disk[e[1]] = e[2]
      BY DEF OnDisk
    <3> QED BY <1>0, <1>1, <2>1, <3>1 DEF Begin, Passed
  <2>2. CASE Check(s)
    BY <1>0, <1>1, <2>2 DEF Check, Passed
  <2>3. CASE List(s)
    <3>1. \A e \in still[s] : e[1] \in Paths /\ disk[e[1]] # None
      BY <1>0 DEF Passed
    <3> QED BY <1>0, <1>1, <2>3, <3>1 DEF List, Passed
  <2>4. ASSUME NEW p \in Paths, Visit(s, p) PROVE Passed(s)'
    <3>1. \A e \in still[s] : e[2] # None
      BY <1>0
    <3>2. /\ pc'[s] = "entry" /\ left'[s] = left[s] \ {p} /\ still' = still
      BY <1>0, <2>4 DEF Visit
    <3>3. /\ seen[s] \in SUBSET seen'[s]
          /\ disk[p] # None => disk[p] \in seen'[s]
      BY <1>0, <2>4 DEF Visit
    <3>4. \A e \in still[s] : e[1] \in left[s] \/ e[2] \in seen[s]
      BY <1>0, <2>4 DEF Visit, Passed
    <3> QED BY <1>0, <1>1, <3>1, <3>2, <3>3, <3>4 DEF Passed
  <2>5. CASE EndScan(s) \/ Open(s)
    BY <1>0, <1>1, <2>5 DEF EndScan, Open, Passed
  <2>6. CASE Cancelled(s) \/ Swept(s)
    BY <1>1, <1>f, <2>6 DEF Cancelled, Swept, Passed
  <2>7. CASE Cleaned(s)
    <3>1. CASE sweep[s]
      <4>1. pc' = [pc EXCEPT ![s] = "sweep"] /\ UNCHANGED <<seen, still>> /\ pc[s] = "clean"
        BY <2>7, <3>1, Zenon DEF Cleaned
      <4> QED BY <1>0, <1>1, <4>1 DEF Passed
    <3>2. CASE ~sweep[s]
      BY <1>1, <1>f, <2>7, <3>2 DEF Cleaned, Passed
    <3> QED BY <3>1, <3>2
  <2>8. ASSUME UNCHANGED <<still, pc, left, seen>> PROVE Passed(s)'
    BY <1>0, <1>1, <2>8 DEF Passed
  <2>9. ASSUME NEW j \in jobs[s], Work(s, j) PROVE Passed(s)'
    BY <2>8, <2>9 DEF Work
  <2>10. ASSUME NEW e \in Paths \X Ids, Clean(s, e) PROVE Passed(s)'
    BY <2>8, <2>10 DEF Clean
  <2>11. ASSUME NEW i \in Ids, Missing(s, i) PROVE Passed(s)'
    BY <2>8, <2>11 DEF Missing
  <2> QED BY <2>1, <2>2, <2>3, <2>4, <2>5, <2>6, <2>7, <2>9, <2>10, <2>11 DEF ScanStep
<1> QED BY <1>1, <1>2, <1>3, PassedByFrame

(* Requests and other programs change files; the rest of the steps neither *)
(* files nor walks.                                                        *)
LEMMA PassedByRest ==
  ASSUME TypeOK, \A t \in Scans : Passed(t), [Next]_vars,
         ~ \E s \in Scans : ScanStep(s)
  PROVE  \A t \in Scans : Passed(t)'
<1> USE Values, RecordTypes DEF files, walk
<1> SUFFICES ASSUME NEW t \in Scans PROVE Passed(t)'
  OBVIOUS
<1>0. Passed(t) /\ pc \in [Scans -> Points]
  BY DEF TypeOK, Points
<1>2. ASSUME NEW c \in Clients, NEW s \in Scans, Reset(c, s) PROVE Passed(t)'
  <2>1. pc[s] = "idle" /\ UNCHANGED <<disk, still, left, seen>>
        /\ pc' = [pc EXCEPT ![s] = "launched"]
    BY <1>2 DEF Reset
  <2> QED BY <1>0, <2>1 DEF Passed
<1>3. ASSUME NEW d \in [Paths -> Ids \cup {None}], Become(d), UNCHANGED <<pc, left, seen>>
      PROVE  Passed(t)'
  BY <1>0, <1>3, PassedByChange
<1>4. ASSUME UNCHANGED <<disk, still, pc, left, seen>> PROVE Passed(t)'
  BY <1>0, <1>4, PassedByFrame
<1>5. ASSUME NEW c \in Clients, Change(c) PROVE Passed(t)'
  <2>1. CASE Rebuild(c)
    BY <1>4, <2>1 DEF Rebuild
  <2>2. ASSUME NEW p \in Paths, NEW i \in Ids, Put(c, p, i) PROVE Passed(t)'
    <3>1. [disk EXCEPT ![p] = i] \in [Paths -> Ids \cup {None}]
      BY DEF TypeOK
    <3> QED BY <1>3, <2>2, <3>1 DEF Put, Ask
  <2>3. ASSUME NEW p \in Paths, Remove(c, p) PROVE Passed(t)'
    <3>1. [disk EXCEPT ![p] = None] \in [Paths -> Ids \cup {None}]
      BY DEF TypeOK
    <3> QED BY <1>3, <2>3, <3>1 DEF Remove, Ask
  <2>4. ASSUME NEW p \in Paths, NEW q \in Paths, NEW i \in Ids, Move(c, p, q, i)
        PROVE  Passed(t)'
    <3>1. [disk EXCEPT ![p] = None, ![q] = i] \in [Paths -> Ids \cup {None}]
      BY DEF TypeOK
    <3> QED BY <1>3, <2>4, <3>1 DEF Move, Ask
  <2>5. ASSUME NEW i \in Ids, TrashItem(c, i) PROVE Passed(t)'
    <3>1. [disk EXCEPT ![rec[i].path] = None] \in [Paths -> Ids \cup {None}]
      BY DEF TypeOK
    <3> QED BY <1>3, <2>5, <3>1 DEF TrashItem, Ask
  <2>6. ASSUME NEW i \in Ids, PurgeItem(c, i) PROVE Passed(t)'
    <3>1. (IF rec[i].path = Bin THEN disk ELSE [disk EXCEPT ![rec[i].path] = None])
             \in [Paths -> Ids \cup {None}]
      BY DEF TypeOK
    <3> QED BY <1>3, <2>6, <3>1 DEF PurgeItem, Ask
  <2>7. ASSUME NEW i \in Ids, NEW new \in Ids, NEW q \in Paths,
               RestoreItem(c, i, q, new) \/ RestoreFile(c, i, q, new)
        PROVE  Passed(t)'
    <3>1. [disk EXCEPT ![q] = new] \in [Paths -> Ids \cup {None}]
      BY DEF TypeOK
    <3> QED BY <1>3, <2>7, <3>1 DEF RestoreItem, RestoreFile, Ask
  <2> QED BY <1>5, <2>1, <2>2, <2>3, <2>4, <2>5, <2>6, <2>7 DEF Change
<1>6. ASSUME NEW c \in Clients, ClientStep(c) PROVE Passed(t)'
  BY <1>2, <1>4, <1>6 DEF ClientStep, Find, DeleteFound, Stat, Store, StoreTrashed,
     StoreRestored, Serve
<1>7. ASSUME NEW p \in Paths, NEW i \in Ids \cup {None}, Outside(p, i) PROVE Passed(t)'
  <2>1. [disk EXCEPT ![p] = i] \in [Paths -> Ids \cup {None}]
    BY DEF TypeOK
  <2> QED BY <1>3, <1>7, <2>1 DEF Outside
<1>8. ASSUME PauseScan \/ ResumeScan \/ Stop \/ (\E i \in Ids : Tag(i) \/ DeleteTrashed(i)) \/ UNCHANGED vars
      PROVE  Passed(t)'
  BY <1>4, <1>8 DEF PauseScan, ResumeScan, Stop, Tag, DeleteTrashed, vars
<1> HIDE DEF files, walk
<1> QED BY <1>5, <1>6, <1>7, <1>8 DEF Next

(* Kept holds at the beginning and every step keeps it.                    *)
LEMMA KeptInit == Init => Kept
<1> SUFFICES ASSUME Init PROVE Kept
  OBVIOUS
<1>1. TypeOK
  <2>1. bin \in [Ids -> Ids \cup {None}] /\ used \in SUBSET Ids
    BY DEF Init
  <2> QED BY <2>1, Values, RecordTypes DEF Init, TypeOK
<1>2. \A c \in Clients : Asked(c)
  BY DEF Init, Asked
<1>3. \A s \in Scans : Passed(s)
  BY DEF Init, Passed
<1> QED BY <1>1, <1>2, <1>3 DEF Kept

(* So does every step of the specification.                               *)
LEMMA KeptNext == Kept /\ [Next]_vars => Kept'
<1> SUFFICES ASSUME Kept, [Next]_vars PROVE Kept'
  OBVIOUS
<1>0. TypeOK /\ (\A c \in Clients : Asked(c)) /\ \A s \in Scans : Passed(s)
  BY DEF Kept
<1>1. TypeOK'
  <2>1. ASSUME NEW c \in Clients, ClientStep(c) PROVE TypeOK'
    BY <1>0, <2>1, ServeTypes DEF Asked
  <2> QED BY <1>0, <2>1, ScanTypes, ChangeTypes, OtherTypes DEF Next
<1>2. \A c \in Clients : Asked(c)'
  <2>1. ASSUME UNCHANGED handlers PROVE \A c \in Clients : Asked(c)'
    BY <1>0, <2>1 DEF handlers, Asked
  <2>2. ASSUME NEW s \in Scans, ScanStep(s) PROVE UNCHANGED handlers
    BY <2>2 DEF handlers, ScanStep, Begin, Check, List, Visit, Work, EndScan,
       Open, Cancelled, Clean, Cleaned, Missing, Swept
  <2>3. ASSUME PauseScan \/ ResumeScan \/ Stop \/ (\E p \in Paths, i \in Ids \cup {None} : Outside(p, i))
               \/ (\E i \in Ids : Tag(i) \/ DeleteTrashed(i)) \/ UNCHANGED vars
        PROVE  UNCHANGED handlers
    BY <2>3 DEF handlers, PauseScan, ResumeScan, Stop, Outside, Tag, DeleteTrashed, vars
  <2> QED BY <1>0, <2>1, <2>2, <2>3, AskedKept DEF Next
<1>3. \A s \in Scans : Passed(s)'
  BY <1>0, PassedByScan, PassedByRest
<1> QED BY <1>1, <1>2, <1>3 DEF Kept

(* Every reachable state has the types of TypeOK: in particular a request  *)
(* always has the record and the paths its next call uses.                 *)
THEOREM TypeCorrect == Spec => []TypeOK
<1>1. Kept => TypeOK
  BY DEF Kept
<1> QED BY <1>1, KeptInit, KeptNext, PTL DEF Spec

(* The cleanup of a scan that was not stopped deletes no record of a file  *)
(* that stayed where it is, for any number of files, scans and requests.   *)
THEOREM UnmovedAlwaysSpared == Spec => SparesUnmoved
<1>1. ASSUME Kept, [Next]_vars
      PROVE  [\A s \in Scans, e \in Paths \X Ids :
                Clean(s, e) /\ e[2] \in {x[2] : x \in still[s]} => rec'[e[2]] = rec[e[2]]]_vars
  <2> SUFFICES ASSUME NEW s \in Scans, NEW e \in Paths \X Ids, Clean(s, e),
                      e[2] \in {x[2] : x \in still[s]}
               PROVE  rec'[e[2]] = rec[e[2]]
    OBVIOUS
  <2>1. PICK x \in still[s] : e[2] = x[2]
    OBVIOUS
  <2>2. pc[s] = "clean" /\ Passed(s)
    BY <1>1 DEF Clean, Kept
  <2>3. e[2] \in seen[s]
    BY <2>1, <2>2 DEF Passed
  <2> QED BY <2>3 DEF Clean, store
<1> QED BY <1>1, KeptInit, KeptNext, PTL DEF Spec, SparesUnmoved

(***************************************************************************)
(* A scan that nobody disturbs.                                            *)
(***************************************************************************)
(* A path that leads to an item leads to one that is recorded there.       *)
Keyed ==
    \A p \in Paths : byPath[p] # None =>
        rec[byPath[p]] # None /\ rec[byPath[p]].path = p

(* No two files have an id in common, in the root or in the trash, and a   *)
(* new file has an id that none of them has.                               *)
Distinct ==
    /\ \A p, q \in Paths : disk[p] # None /\ disk[p] = disk[q] => p = q
    /\ \A p \in Paths, i \in Ids : disk[p] # None => disk[p] # bin[i]
    /\ \A i, j \in Ids : bin[i] # None /\ bin[i] = bin[j] => i = j
    /\ \A p \in Paths : disk[p] # None => disk[p] \in used
    /\ \A i \in Ids : bin[i] # None => bin[i] \in used

(* Workers have something to do only during a walk.                        *)
Quiet(s) == pc[s] \notin {"entry", "visit", "drain"} => jobs[s] = {}

(* The file at p has its record.                                           *)
Recorded(p) == rec[disk[p]] # None /\ rec[disk[p]].path = p

(* How far a scan has come that nobody disturbed.                          *)
Alone(s) ==
    /\ ~stop
    /\ pc[s] \notin {"launched", "drain"}
    /\ \A j \in jobs[s] : disk[j[2]] = j[1]
    /\ \A i \in seen[s] : \E p \in Paths : disk[p] = i
    /\ pc[s] \in {"entry", "visit"} =>
          \A p \in Paths : disk[p] # None =>
              \/ p \in left[s]
              \/ disk[p] \in seen[s] /\ (<<disk[p], p>> \in jobs[s] \/ Recorded(p))
    /\ pc[s] \in {"cleanup", "clean", "sweep", "idle"} =>
          \A p \in Paths : disk[p] # None => Recorded(p)
    /\ pc[s] \in {"cleanup", "clean", "sweep"} => ~cancelled[s]
    /\ pc[s] \in {"cleanup", "clean"} =>
          \A p \in Paths : disk[p] # None => disk[p] \in seen[s]
    /\ pc[s] = "clean" =>
          \A p \in Paths : byPath[p] # None =>
              <<p, byPath[p]>> \in todo[s] \/ byPath[p] \in seen[s]
    /\ pc[s] \in {"sweep", "idle"} => \A p \in Paths : disk[p] = None => byPath[p] = None
    /\ pc[s] = "sweep" => \A p \in Paths : disk[p] # None => disk[p] \notin batch[s]

(* The inductive invariant.                                                *)
Undisturbed ==
    /\ Kept
    /\ Keyed
    /\ Distinct
    /\ \A s \in Scans : Quiet(s)
    /\ \A s \in Scans : lone = s => Alone(s)

(* UpsertMedia keeps paths and records together: it drops the key of the   *)
(* path that the record had.                                               *)
LEMMA UpsertKeyed ==
  ASSUME TypeOK, Keyed, NEW i \in Ids, NEW r \in Records, Upsert(i, r)
  PROVE  Keyed'
<1> USE Values, NoneAssumption
<1>1. /\ rec \in [Ids -> Records \cup {None}] /\ byPath \in [Paths -> Ids \cup {None}]
      /\ rec' = [rec EXCEPT ![i] = r] /\ r # None
  BY DEF TypeOK, Upsert
<1> SUFFICES ASSUME NEW p \in Paths, byPath'[p] # None
             PROVE  rec'[byPath'[p]] # None /\ rec'[byPath'[p]].path = p
  BY DEF Keyed
<1>2. CASE rec[i] = r
  <2>1. rec' = rec /\ byPath' = byPath
    BY <1>1, <1>2 DEF Upsert
  <2> QED BY <2>1 DEF Keyed
<1>3. CASE rec[i] # r
  <2>1. byPath'[p] = IF p = r.path THEN i
                     ELSE IF rec[i] # None /\ p = rec[i].path THEN None ELSE byPath[p]
    BY <1>3 DEF Upsert
  <2>2. CASE p = r.path
    BY <1>1, <2>1, <2>2
  <2>3. CASE p # r.path
    <3>1. byPath'[p] = byPath[p] /\ ~(rec[i] # None /\ p = rec[i].path)
      BY <2>1, <2>3
    <3>2. rec[byPath[p]] # None /\ rec[byPath[p]].path = p
      BY <3>1 DEF Keyed
    <3>3. byPath[p] \in Ids /\ byPath[p] # i
      BY <1>1, <3>1, <3>2
    <3> QED BY <1>1, <3>1, <3>2, <3>3
  <2> QED BY <2>2, <2>3
<1> QED BY <1>2, <1>3

(* So does DeleteMedia.                                                    *)
LEMMA DeleteKeyed ==
  ASSUME TypeOK, Keyed, NEW i \in Ids, Delete(i)
  PROVE  Keyed'
<1> USE Values
<1>1. /\ rec \in [Ids -> Records \cup {None}] /\ byPath \in [Paths -> Ids \cup {None}]
      /\ rec' = [rec EXCEPT ![i] = None]
  BY DEF TypeOK, Delete
<1> SUFFICES ASSUME NEW p \in Paths, byPath'[p] # None
             PROVE  rec'[byPath'[p]] # None /\ rec'[byPath'[p]].path = p
  BY DEF Keyed
<1>2. byPath'[p] = byPath[p] /\ ~(rec[i] # None /\ p = rec[i].path)
  BY DEF Delete
<1>3. rec[byPath[p]] # None /\ rec[byPath[p]].path = p
  BY <1>2 DEF Keyed
<1>4. byPath[p] \in Ids /\ byPath[p] # i
  BY <1>1, <1>2, <1>3
<1> QED BY <1>1, <1>2, <1>3, <1>4

(* Every step keeps them together.                                         *)
LEMMA KeyedNext ==
  ASSUME Kept, Keyed, [Next]_vars
  PROVE  Keyed'
<1> USE Values, RecordTypes DEF store
<1>0. TypeOK /\ (\A c \in Clients : Asked(c))
  BY DEF Kept
<1>1. ASSUME UNCHANGED <<rec, byPath>> PROVE Keyed'
  BY <1>1 DEF Keyed
<1>2. ASSUME NEW s \in Scans, ScanStep(s) PROVE Keyed'
  <2>1. ASSUME NEW j \in jobs[s], Work(s, j) PROVE Keyed'
    <3>1. j \in Ids \X Paths
      BY <1>0 DEF TypeOK
    <3>2. j[1] \in Ids /\ [path |-> j[2], orig |-> None] \in Records
      BY <3>1
    <3> QED BY <1>0, <2>1, <3>2, UpsertKeyed DEF Work
  <2>2. ASSUME NEW e \in Paths \X Ids, Clean(s, e) PROVE Keyed'
    <3>1. e[2] \in Ids /\ (Delete(e[2]) \/ UNCHANGED store)
      BY <2>2 DEF Clean
    <3> QED BY <1>0, <1>1, <3>1, DeleteKeyed
  <2>3. ASSUME Cleaned(s) PROVE Keyed'
    <3>1. /\ rec' = rec
          /\ \A p \in Paths : byPath'[p] # None => byPath'[p] = byPath[p]
      BY <2>3 DEF Cleaned
    <3> QED BY <3>1 DEF Keyed
  <2>4. ASSUME \/ Begin(s) \/ Check(s) \/ List(s) \/ EndScan(s) \/ Open(s)
               \/ Cancelled(s) \/ Swept(s)
               \/ \E p \in Paths : Visit(s, p)
               \/ \E i \in Ids : Missing(s, i)
        PROVE  UNCHANGED <<rec, byPath>>
    BY <2>4 DEF Begin, Check, List, EndScan, Open, Cancelled, Swept, Visit, Missing
  <2> QED BY <1>1, <1>2, <2>1, <2>2, <2>3, <2>4 DEF ScanStep
<1>3. ASSUME NEW c \in Clients, Change(c) PROVE UNCHANGED <<rec, byPath>>
  BY <1>3 DEF Change, Rebuild, Put, Remove, Move, TrashItem, RestoreItem, RestoreFile,
     PurgeItem, Ask
<1>4. ASSUME NEW c \in Clients, ClientStep(c) PROVE Keyed'
  <2>0. Asked(c) /\ req[c] \in Request
    BY <1>0 DEF TypeOK
  <2>1. CASE Find(c) \/ Stat(c)
    BY <1>1, <2>1 DEF Find, Stat
  <2>2. CASE DeleteFound(c)
    BY <1>0, <2>0, <2>2, DeleteKeyed DEF DeleteFound, Asked
  <2>3. CASE Store(c)
    <3>1. req[c].id \in Ids /\ [path |-> req[c].to, orig |-> req[c].to] \in Records
      BY <2>0, <2>3 DEF Store, Asked
    <3> QED BY <1>0, <2>3, <3>1, UpsertKeyed DEF Store
  <2>4. CASE StoreTrashed(c)
    <3> DEFINE orig == IF req[c].to = None THEN req[c].path ELSE req[c].to
    <3>1. req[c].id \in Ids /\ orig \in Paths \cup {None}
      BY <2>0, <2>4 DEF StoreTrashed, Asked
    <3>2. Upsert(req[c].id, [path |-> Bin, orig |-> orig])
      BY <2>4, Zenon DEF StoreTrashed
    <3> HIDE DEF orig
    <3>3. [path |-> Bin, orig |-> orig] \in Records
      BY <3>1
    <3> QED BY <1>0, <3>1, <3>2, <3>3, UpsertKeyed
  <2>5. CASE StoreRestored(c)
    <3>1. req[c].id \in Ids /\ [path |-> req[c].path, orig |-> req[c].to] \in Records
      BY <2>0, <2>5 DEF StoreRestored, Asked
    <3> QED BY <1>0, <2>5, <3>1, UpsertKeyed DEF StoreRestored
  <2>6. ASSUME NEW s \in Scans, Reset(c, s) PROVE Keyed'
    BY <2>6 DEF Reset, Keyed
  <2> QED BY <1>4, <2>1, <2>2, <2>3, <2>4, <2>5, <2>6 DEF ClientStep
<1>5. ASSUME \/ PauseScan \/ ResumeScan \/ Stop
             \/ \E p \in Paths, i \in Ids \cup {None} : Outside(p, i)
             \/ \E i \in Ids : Tag(i) \/ DeleteTrashed(i)
             \/ UNCHANGED vars
      PROVE  UNCHANGED <<rec, byPath>>
  BY <1>5 DEF PauseScan, ResumeScan, Stop, Outside, Tag, DeleteTrashed, vars
<1> QED BY <1>1, <1>2, <1>3, <1>4, <1>5 DEF Next

(* A change of the files that makes none of them twice.                    *)
LEMMA BecomeDistinct ==
  ASSUME TypeOK, Distinct, NEW d \in [Paths -> Ids \cup {None}], Become(d),
         \A p, q \in Paths : d[p] # None /\ d[p] = d[q] => p = q,
         \A p \in Paths, i \in Ids : d[p] # None => d[p] # bin'[i],
         \A i, j \in Ids : bin'[i] # None /\ bin'[i] = bin'[j] => i = j,
         \A i \in Ids : bin'[i] # None => bin'[i] \in used
  PROVE  Distinct'
<1>1. disk' = d /\ used' = used \cup {d[p] : p \in {q \in Paths : d[q] # None}}
  BY DEF Become
<1>2. \A p \in Paths : disk'[p] # None => disk'[p] \in used'
  BY <1>1
<1>3. \A i \in Ids : bin'[i] # None => bin'[i] \in used'
  BY <1>1
<1> QED BY <1>1, <1>2, <1>3 DEF Distinct

(* A new file has an id that no file has.                                  *)
LEMMA FreshDistinct ==
  ASSUME TypeOK, Distinct, NEW x \in Paths, NEW i \in Ids \cup {None},
         i \notin used, bin' = bin, Become([disk EXCEPT ![x] = i])
  PROVE  Distinct'
<1> USE Values
<1>1. disk \in [Paths -> Ids \cup {None}] /\ bin \in [Ids -> Ids \cup {None}]
  BY DEF TypeOK
<1> DEFINE d == [disk EXCEPT ![x] = i]
<1>2. /\ d \in [Paths -> Ids \cup {None}] /\ d[x] = i
      /\ \A p \in Paths : p # x => d[p] = disk[p]
  BY <1>1
<1>3. \A p, q \in Paths : d[p] # None /\ d[p] = d[q] => p = q
  BY <1>2 DEF Distinct
<1>4. \A p \in Paths, k \in Ids : d[p] # None => d[p] # bin'[k]
  BY <1>2 DEF Distinct
<1>5. /\ \A k, j \in Ids : bin'[k] # None /\ bin'[k] = bin'[j] => k = j
      /\ \A k \in Ids : bin'[k] # None => bin'[k] \in used
  BY DEF Distinct
<1>6. Become(d)
  OBVIOUS
<1> HIDE DEF d
<1> QED BY <1>2, <1>3, <1>4, <1>5, <1>6, BecomeDistinct

(* A file that goes, from the root or from the trash.                      *)
LEMMA GoneDistinct ==
  ASSUME TypeOK, Distinct, NEW d \in [Paths -> Ids \cup {None}], Become(d),
         \A p \in Paths : d[p] \in {None, disk[p]},
         bin' \in [Ids -> Ids \cup {None}], \A i \in Ids : bin'[i] \in {None, bin[i]}
  PROVE  Distinct'
<1>1. \A p, q \in Paths : d[p] # None /\ d[p] = d[q] => p = q
  BY DEF Distinct
<1>2. \A p \in Paths, k \in Ids : d[p] # None => d[p] # bin'[k]
  BY DEF Distinct
<1>3. /\ \A k, j \in Ids : bin'[k] # None /\ bin'[k] = bin'[j] => k = j
      /\ \A k \in Ids : bin'[k] # None => bin'[k] \in used
  BY DEF Distinct
<1> QED BY <1>1, <1>2, <1>3, BecomeDistinct

(* A file that comes back from the trash.                                  *)
LEMMA RestoreDistinct ==
  ASSUME TypeOK, Distinct, NEW x \in Paths, NEW i \in Ids, NEW new \in Ids,
         bin[i] # None, new \in Fresh \cup {bin[i]}, bin' = [bin EXCEPT ![i] = None],
         Become([disk EXCEPT ![x] = new])
  PROVE  Distinct'
<1> USE Values DEF Fresh
<1>1. disk \in [Paths -> Ids \cup {None}] /\ bin \in [Ids -> Ids \cup {None}]
  BY DEF TypeOK
<1> DEFINE d == [disk EXCEPT ![x] = new]
<1>2. /\ d \in [Paths -> Ids \cup {None}] /\ d[x] = new
      /\ \A p \in Paths : p # x => d[p] = disk[p]
      /\ bin'[i] = None /\ \A k \in Ids : k # i => bin'[k] = bin[k]
  BY <1>1
<1>3. \A p \in Paths : disk[p] # new
  <2>1. \A p \in Paths : disk[p] # None => disk[p] \in used /\ disk[p] # bin[i]
    BY DEF Distinct
  <2> QED BY <2>1
<1>4. \A k \in Ids : k # i => bin[k] # new
  <2>1. \A k \in Ids : bin[k] # None => bin[k] \in used /\ (bin[k] = bin[i] => k = i)
    BY DEF Distinct
  <2> QED BY <2>1
<1>5. \A p, q \in Paths : d[p] # None /\ d[p] = d[q] => p = q
  BY <1>2, <1>3 DEF Distinct
<1>6. \A p \in Paths, k \in Ids : d[p] # None => d[p] # bin'[k]
  BY <1>2, <1>4 DEF Distinct
<1>7. /\ \A k, j \in Ids : bin'[k] # None /\ bin'[k] = bin'[j] => k = j
      /\ \A k \in Ids : bin'[k] # None => bin'[k] \in used
  BY <1>2 DEF Distinct
<1>8. Become(d)
  OBVIOUS
<1> HIDE DEF d, Fresh
<1> QED BY <1>2, <1>5, <1>6, <1>7, <1>8, BecomeDistinct

(* A file that goes to the trash takes its id with it, which may not be    *)
(* the one of the record that led to it.                                   *)
LEMMA TrashDistinct ==
  ASSUME TypeOK, Distinct, NEW x \in Paths, NEW i \in Ids, disk[x] # None,
         bin' = [bin EXCEPT ![i] = disk[x]], Become([disk EXCEPT ![x] = None])
  PROVE  Distinct'
<1> USE Values
<1>1. disk \in [Paths -> Ids \cup {None}] /\ bin \in [Ids -> Ids \cup {None}]
  BY DEF TypeOK
<1> DEFINE d == [disk EXCEPT ![x] = None]
<1>2. /\ d \in [Paths -> Ids \cup {None}] /\ d[x] = None
      /\ \A p \in Paths : p # x => d[p] = disk[p]
      /\ bin'[i] = disk[x] /\ \A k \in Ids : k # i => bin'[k] = bin[k]
  BY <1>1
<1>3. \A p, q \in Paths : d[p] # None /\ d[p] = d[q] => p = q
  BY <1>2 DEF Distinct
<1>4. \A p \in Paths, k \in Ids : d[p] # None => d[p] # bin'[k]
  BY <1>2 DEF Distinct
<1>5. /\ \A k, j \in Ids : bin'[k] # None /\ bin'[k] = bin'[j] => k = j
      /\ \A k \in Ids : bin'[k] # None => bin'[k] \in used
  BY <1>2 DEF Distinct
<1>6. Become(d)
  OBVIOUS
<1> HIDE DEF d
<1> QED BY <1>2, <1>3, <1>4, <1>5, <1>6, BecomeDistinct

(* A file that moves within the root.                                      *)
LEMMA MoveDistinct ==
  ASSUME TypeOK, Distinct, NEW x \in Paths, NEW y \in Paths, NEW i \in Ids,
         disk[x] # None, disk[y] = None, i \in Fresh \cup {disk[x]}, bin' = bin,
         Become([disk EXCEPT ![x] = None, ![y] = i])
  PROVE  Distinct'
<1> USE Values DEF Fresh
<1>1. disk \in [Paths -> Ids \cup {None}] /\ bin \in [Ids -> Ids \cup {None}]
  BY DEF TypeOK
<1> DEFINE d == [disk EXCEPT ![x] = None, ![y] = i]
<1>2. /\ d \in [Paths -> Ids \cup {None}] /\ d[x] = None /\ d[y] = i
      /\ \A p \in Paths : p \notin {x, y} => d[p] = disk[p]
  BY <1>1
<1>3. \A p \in Paths : p # x => disk[p] # i
  BY DEF Distinct
<1>4. \A p, q \in Paths : d[p] # None /\ d[p] = d[q] => p = q
  BY <1>2, <1>3 DEF Distinct
<1>5. \A p \in Paths, k \in Ids : d[p] # None => d[p] # bin'[k]
  BY <1>2 DEF Distinct
<1>6. /\ \A k, j \in Ids : bin'[k] # None /\ bin'[k] = bin'[j] => k = j
      /\ \A k \in Ids : bin'[k] # None => bin'[k] \in used
  BY DEF Distinct
<1>7. Become(d)
  OBVIOUS
<1> HIDE DEF d, Fresh
<1> QED BY <1>2, <1>4, <1>5, <1>6, <1>7, BecomeDistinct

(* Every step keeps ids apart.                                             *)
LEMMA DistinctNext ==
  ASSUME TypeOK, Distinct, [Next]_vars
  PROVE  Distinct'
<1> USE Values DEF files
<1>0. /\ disk \in [Paths -> Ids \cup {None}] /\ bin \in [Ids -> Ids \cup {None}]
      /\ used \in SUBSET Ids
  BY DEF TypeOK
<1>1. ASSUME UNCHANGED files PROVE Distinct'
  BY <1>1 DEF Distinct
<1>2. ASSUME NEW s \in Scans, ScanStep(s) PROVE UNCHANGED files
  BY <1>2 DEF ScanStep, Begin, Check, List, Visit, Work, EndScan, Open, Cancelled, Clean,
     Cleaned, Missing, Swept
<1>3. ASSUME NEW c \in Clients, Change(c) PROVE Distinct'
  <2>1. CASE Rebuild(c)
    BY <1>1, <2>1 DEF Rebuild
  <2>2. ASSUME NEW p \in Paths, NEW i \in Ids, Put(c, p, i) PROVE Distinct'
    BY <2>2, FreshDistinct DEF Put, Fresh
  <2>3. ASSUME NEW p \in Paths, Remove(c, p) PROVE Distinct'
    <3>1. [disk EXCEPT ![p] = None] \in [Paths -> Ids \cup {None}]
      BY <1>0
    <3> QED BY <1>0, <2>3, <3>1, GoneDistinct DEF Remove
  <2>4. ASSUME NEW p \in Paths, NEW q \in Paths, NEW i \in Ids, Move(c, p, q, i)
        PROVE  Distinct'
    BY <2>4, MoveDistinct DEF Move
  <2>5. ASSUME NEW i \in Ids, TrashItem(c, i) PROVE Distinct'
    <3>1. rec[i].path \in Paths
      BY <2>5, RecordTypes DEF TrashItem, TypeOK
    <3> QED BY <2>5, <3>1, TrashDistinct DEF TrashItem
  <2>6. ASSUME NEW i \in Ids, PurgeItem(c, i) PROVE Distinct'
    <3> DEFINE d == IF rec[i].path = Bin THEN disk ELSE [disk EXCEPT ![rec[i].path] = None]
    <3>1. d \in [Paths -> Ids \cup {None}] /\ \A p \in Paths : d[p] \in {None, disk[p]}
      BY <1>0
    <3>2. /\ bin' \in [Ids -> Ids \cup {None}]
          /\ \A k \in Ids : bin'[k] \in {None, bin[k]}
      BY <1>0, <2>6 DEF PurgeItem
    <3>3. Become(d)
      BY <2>6 DEF PurgeItem
    <3> HIDE DEF d
    <3> QED BY <3>1, <3>2, <3>3, GoneDistinct
  <2>7. ASSUME NEW i \in Ids, NEW new \in Ids, NEW q \in Paths,
               RestoreItem(c, i, q, new) \/ RestoreFile(c, i, q, new)
        PROVE  Distinct'
    BY <2>7, RestoreDistinct DEF RestoreItem, RestoreFile
  <2> QED BY <1>3, <2>1, <2>2, <2>3, <2>4, <2>5, <2>6, <2>7 DEF Change
<1>4. ASSUME NEW c \in Clients, ClientStep(c) PROVE UNCHANGED files
  BY <1>4 DEF ClientStep, Find, DeleteFound, Stat, Store, StoreTrashed, StoreRestored,
     Reset, Serve
<1>5. ASSUME NEW p \in Paths, NEW i \in Ids \cup {None}, Outside(p, i) PROVE Distinct'
  <2>1. CASE i = None
    <3>1. [disk EXCEPT ![p] = None] \in [Paths -> Ids \cup {None}]
      BY <1>0
    <3> QED BY <1>0, <1>5, <2>1, <3>1, GoneDistinct DEF Outside
  <2>2. CASE i # None
    BY <1>5, <2>2, FreshDistinct DEF Outside, Fresh
  <2> QED BY <2>1, <2>2
<1>6. ASSUME NEW i \in Ids, DeleteTrashed(i) PROVE Distinct'
  <2>1. UNCHANGED <<disk, used>> /\ bin' = [bin EXCEPT ![i] = None]
    BY <1>6 DEF DeleteTrashed
  <2> QED BY <1>0, <2>1 DEF Distinct
<1>7. ASSUME PauseScan \/ ResumeScan \/ Stop \/ (\E i \in Ids : Tag(i)) \/ UNCHANGED vars
      PROVE  UNCHANGED files
  BY <1>7 DEF PauseScan, ResumeScan, Stop, Tag, vars
<1> HIDE DEF files
<1> QED BY <1>1, <1>2, <1>3, <1>4, <1>5, <1>6, <1>7 DEF Next

(* Workers get something to do only from a walk, which waits for them      *)
(* before it ends.                                                         *)
LEMMA QuietNext ==
  ASSUME TypeOK, \A s \in Scans : Quiet(s), [Next]_vars
  PROVE  \A s \in Scans : Quiet(s)'
<1> USE Values DEF walk
<1> SUFFICES ASSUME NEW t \in Scans PROVE Quiet(t)'
  OBVIOUS
<1>0. /\ pc \in [Scans -> Points] /\ jobs \in [Scans -> SUBSET (Ids \X Paths)]
      /\ Quiet(t)
  BY DEF TypeOK, Points
<1>1. ASSUME UNCHANGED <<pc, jobs>> PROVE Quiet(t)'
  BY <1>0, <1>1 DEF Quiet
<1>f. ASSUME NEW s \in Scans, Finish(s), jobs' = jobs, pc[s] \in {"clean", "sweep"}
      PROVE  Quiet(t)'
  <2>1. pc' = [pc EXCEPT ![s] = "idle"]
    BY <1>f, Zenon DEF Finish
  <2> QED BY <1>0, <1>f, <2>1 DEF Quiet
<1>2. ASSUME NEW s \in Scans, ScanStep(s) PROVE Quiet(t)'
  <2>1. CASE Begin(s) \/ Check(s) \/ List(s) \/ EndScan(s) \/ Open(s)
    BY <1>0, <2>1 DEF Begin, Check, List, EndScan, Open, Quiet
  <2>2. CASE Cancelled(s) \/ Swept(s)
    BY <1>f, <2>2 DEF Cancelled, Swept
  <2>3. CASE Cleaned(s)
    <3>1. CASE sweep[s]
      <4>1. pc' = [pc EXCEPT ![s] = "sweep"] /\ jobs' = jobs /\ pc[s] = "clean"
        BY <2>3, <3>1, Zenon DEF Cleaned
      <4> QED BY <1>0, <4>1 DEF Quiet
    <3>2. CASE ~sweep[s]
      BY <1>f, <2>3, <3>2 DEF Cleaned
    <3> QED BY <3>1, <3>2
  <2>4. ASSUME NEW p \in Paths, Visit(s, p) PROVE Quiet(t)'
    <3>1. /\ pc' = [pc EXCEPT ![s] = "entry"]
          /\ t # s => jobs'[t] = jobs[t]
      BY <1>0, <2>4 DEF Visit
    <3> QED BY <1>0, <3>1 DEF Quiet
  <2>5. ASSUME NEW j \in jobs[s], Work(s, j) PROVE Quiet(t)'
    BY <1>0, <2>5 DEF Work, Quiet
  <2>6. ASSUME NEW e \in Paths \X Ids, Clean(s, e) PROVE UNCHANGED <<pc, jobs>>
    BY <2>6 DEF Clean
  <2>7. ASSUME NEW i \in Ids, Missing(s, i) PROVE UNCHANGED <<pc, jobs>>
    BY <2>7 DEF Missing
  <2> QED BY <1>1, <1>2, <2>1, <2>2, <2>3, <2>4, <2>5, <2>6, <2>7 DEF ScanStep
<1>3. ASSUME NEW c \in Clients, Change(c) PROVE UNCHANGED <<pc, jobs>>
  BY <1>3 DEF Change, Rebuild, Put, Remove, Move, TrashItem, RestoreItem, RestoreFile,
     PurgeItem, Ask
<1>4. ASSUME NEW c \in Clients, ClientStep(c) PROVE Quiet(t)'
  <2>1. ASSUME NEW s \in Scans, Reset(c, s) PROVE Quiet(t)'
    BY <1>0, <2>1 DEF Reset, Quiet
  <2>2. ASSUME Find(c) \/ DeleteFound(c) \/ Stat(c) \/ Store(c) \/ StoreTrashed(c)
               \/ StoreRestored(c)
        PROVE  UNCHANGED <<pc, jobs>>
    BY <2>2 DEF Find, DeleteFound, Stat, Store, StoreTrashed, StoreRestored, Serve
  <2> QED BY <1>1, <1>4, <2>1, <2>2 DEF ClientStep
<1>5. ASSUME \/ PauseScan \/ ResumeScan \/ Stop
             \/ \E p \in Paths, i \in Ids \cup {None} : Outside(p, i)
             \/ \E i \in Ids : Tag(i) \/ DeleteTrashed(i)
             \/ UNCHANGED vars
      PROVE  UNCHANGED <<pc, jobs>>
  BY <1>5 DEF PauseScan, ResumeScan, Stop, Outside, Tag, DeleteTrashed, vars
<1> HIDE DEF walk
<1> QED BY <1>1, <1>2, <1>3, <1>4, <1>5 DEF Next

(* What the cleanup of an undisturbed scan has to do: a key that it has    *)
(* looked at leads to a file it saw, and each file keeps its record.       *)
LEMMA AloneCleans ==
  ASSUME Undisturbed, NEW s \in Scans, lone = s, NEW e \in Paths \X Ids, Clean(s, e)
  PROVE  Alone(s)'
<1> USE Values
<1>0. /\ disk \in [Paths -> Ids \cup {None}] /\ rec \in [Ids -> Records \cup {None}]
      /\ byPath \in [Paths -> Ids \cup {None}]
      /\ todo \in [Scans -> SUBSET ((Paths \X Ids) \cup Ids)]
      /\ Keyed /\ Alone(s)
  BY DEF Undisturbed, Kept, TypeOK
<1>1. /\ UNCHANGED <<disk, stop, pc, seen, jobs, cancelled>> /\ pc[s] = "clean"
      /\ todo'[s] = todo[s] \ {e}
  BY <1>0 DEF Clean, files, flags, walk
<1>2. \A p \in Paths : disk[p] # None => Recorded(p) /\ disk[p] \in seen[s]
  BY <1>0, <1>1 DEF Alone
<1>3. e[1] \in Paths /\ e[2] \in Ids /\ e = <<e[1], e[2]>>
  OBVIOUS
<1> DEFINE outdated == rec[e[2]] # None /\ rec[e[2]].path # Bin /\ e[2] \notin seen[s]
<1>4. CASE outdated
  <2>1. Delete(e[2])
    BY <1>4 DEF Clean
  <2>2. /\ rec' = [rec EXCEPT ![e[2]] = None]
        /\ \A p \in Paths : byPath'[p] # None =>
              byPath'[p] = byPath[p] /\ p # rec[e[2]].path
    BY <1>4, <2>1 DEF Delete
  <2>3. \A p \in Paths : disk[p] # None => Recorded(p)'
    <3> SUFFICES ASSUME NEW p \in Paths, disk[p] # None PROVE Recorded(p)'
      OBVIOUS
    <3>1. disk[p] # e[2] /\ disk[p] \in Ids
      BY <1>0, <1>2, <1>4
    <3>2. rec'[disk[p]] = rec[disk[p]]
      BY <1>0, <2>2, <3>1
    <3> QED BY <1>1, <1>2, <3>2 DEF Recorded
  <2>4. \A p \in Paths : byPath'[p] # None =>
           <<p, byPath'[p]>> \in todo'[s] \/ byPath'[p] \in seen'[s]
    <3> SUFFICES ASSUME NEW p \in Paths, byPath'[p] # None
                 PROVE  <<p, byPath'[p]>> \in todo'[s] \/ byPath'[p] \in seen'[s]
      OBVIOUS
    <3>1. byPath'[p] = byPath[p] /\ p # rec[e[2]].path
      BY <2>2
    <3>2. rec[byPath[p]].path = p
      BY <1>0, <3>1 DEF Keyed
    <3>3. byPath[p] # e[2]
      BY <3>1, <3>2
    <3>4. <<p, byPath[p]>> # e
      BY <3>3
    <3>5. <<p, byPath[p]>> \in todo[s] \/ byPath[p] \in seen[s]
      BY <1>0, <1>1, <3>1 DEF Alone
    <3> QED BY <1>1, <3>1, <3>4, <3>5
  <2> QED BY <1>0, <1>1, <1>2, <2>3, <2>4 DEF Alone
<1>5. CASE ~outdated
  <2>1. UNCHANGED <<rec, byPath>>
    BY <1>5 DEF Clean, store
  <2>2. \A p \in Paths : byPath[p] # None =>
           <<p, byPath[p]>> \in todo'[s] \/ byPath[p] \in seen[s]
    <3> SUFFICES ASSUME NEW p \in Paths, byPath[p] # None, byPath[p] \notin seen[s]
                 PROVE  <<p, byPath[p]>> \in todo'[s]
      OBVIOUS
    <3>1. <<p, byPath[p]>> \in todo[s]
      BY <1>0, <1>1 DEF Alone
    <3>2. rec[byPath[p]] # None /\ rec[byPath[p]].path = p
      BY <1>0 DEF Keyed
    <3>3. byPath[p] # e[2]
      BY <1>5, <3>2
    <3> QED BY <1>1, <3>1, <3>3
  <2>3. \A p \in Paths : disk[p] # None => Recorded(p)'
    BY <1>1, <1>2, <2>1 DEF Recorded
  <2> QED BY <1>0, <1>1, <1>2, <2>1, <2>2, <2>3 DEF Alone
<1> QED BY <1>4, <1>5

(* When all keys have been looked at, the path of a missing file leads     *)
(* nowhere: what it led to would be a file that was seen, and so recorded  *)
(* where it is.                                                            *)
LEMMA AloneCleaned ==
  ASSUME Undisturbed, NEW s \in Scans, lone = s, Cleaned(s)
  PROVE  Alone(s)'
<1> USE Values
<1>0. /\ disk \in [Paths -> Ids \cup {None}] /\ pc \in [Scans -> Points]
      /\ byPath \in [Paths -> Ids \cup {None}] /\ seen \in [Scans -> SUBSET Ids]
      /\ batch \in [Scans -> SUBSET (Paths \cup Ids)]
      /\ Keyed /\ Alone(s) /\ Quiet(s)
  BY DEF Undisturbed, Kept, TypeOK, Points
<1>1. /\ UNCHANGED <<disk, stop, rec, jobs>> /\ pc[s] = "clean" /\ todo[s] = {}
      /\ ~cancelled[s]
      /\ \A p \in Paths : byPath'[p] # None => byPath'[p] = byPath[p]
  BY DEF Cleaned, files
<1>2. \A p \in Paths : disk[p] # None => Recorded(p)
  BY <1>0, <1>1 DEF Alone
<1>3. \A p \in Paths : disk[p] = None => byPath'[p] = None
  <2> SUFFICES ASSUME NEW p \in Paths, disk[p] = None, byPath[p] # None PROVE FALSE
    BY <1>1
  <2>1. byPath[p] \in seen[s]
    BY <1>0, <1>1 DEF Alone
  <2>2. PICK q \in Paths : disk[q] = byPath[p]
    BY <1>0, <2>1 DEF Alone
  <2>3. rec[byPath[p]].path = q /\ rec[byPath[p]].path = p
    BY <1>0, <1>2, <2>2 DEF Keyed, Recorded
  <2> QED BY <2>2, <2>3
<1>4. jobs[s] = {}
  BY <1>0, <1>1 DEF Quiet
<1>5. \A p \in Paths : disk[p] # None => Recorded(p)'
  BY <1>1, <1>2 DEF Recorded
<1>6. CASE sweep[s]
  <2>1. /\ pc'[s] = "sweep" /\ batch'[s] = {} /\ UNCHANGED <<cancelled, seen>>
    BY <1>0, <1>6 DEF Cleaned
  <2> QED BY <1>0, <1>1, <1>3, <1>4, <1>5, <2>1 DEF Alone
<1>7. CASE ~sweep[s]
  <2>1. Finish(s)
    BY <1>7 DEF Cleaned
  <2>2. pc'[s] = "idle" /\ seen'[s] = {}
    BY <1>0, <2>1 DEF Finish
  <2> QED BY <1>0, <1>1, <1>3, <1>4, <1>5, <2>2 DEF Alone
<1> QED BY <1>6, <1>7

(* A worker records one file and no other.                                 *)
LEMMA AloneWorks ==
  ASSUME Undisturbed, NEW s \in Scans, lone = s, NEW j \in jobs[s], Work(s, j)
  PROVE  Alone(s)'
<1> USE Values, NoneAssumption
<1>0. /\ disk \in [Paths -> Ids \cup {None}] /\ rec \in [Ids -> Records \cup {None}]
      /\ jobs \in [Scans -> SUBSET (Ids \X Paths)]
      /\ Alone(s) /\ Quiet(s) /\ Distinct
  BY DEF Undisturbed, Kept, TypeOK
<1>1. /\ UNCHANGED <<disk, stop, pc, left, seen>> /\ jobs'[s] = jobs[s] \ {j}
      /\ rec' = [rec EXCEPT ![j[1]] = [path |-> j[2], orig |-> None]]
  BY <1>0 DEF Work, Upsert, files, flags
<1>2. pc[s] \in {"entry", "visit"}
  BY <1>0 DEF Quiet, Alone
<1>3. j \in Ids \X Paths
  BY <1>0
<1>4. /\ j[1] \in Ids /\ j[2] \in Paths /\ disk[j[2]] = j[1] /\ j = <<j[1], j[2]>>
      /\ [path |-> j[2], orig |-> None] # None
  <2>1. j[1] \in Ids /\ j[2] \in Paths /\ j = <<j[1], j[2]>>
    BY <1>3
  <2>2. [path |-> j[2], orig |-> None] \in Records
    BY <2>1, RecordTypes
  <2> QED BY <1>0, <2>1, <2>2 DEF Alone
<1>5. \A p \in Paths : disk[p] # None =>
         \/ p \in left[s]
         \/ disk[p] \in seen[s] /\ (<<disk[p], p>> \in jobs'[s] \/ Recorded(p)')
  <2> SUFFICES ASSUME NEW p \in Paths, disk[p] # None, p \notin left[s]
               PROVE  disk[p] \in seen[s] /\ (<<disk[p], p>> \in jobs'[s] \/ Recorded(p)')
    OBVIOUS
  <2>1. disk[p] \in seen[s] /\ (<<disk[p], p>> \in jobs[s] \/ Recorded(p))
    BY <1>0, <1>2 DEF Alone
  <2>2. CASE p = j[2]
    BY <1>0, <1>1, <1>4, <2>1, <2>2 DEF Recorded
  <2>3. CASE p # j[2]
    <3>1. disk[p] # j[1] /\ disk[p] \in Ids
      BY <1>0, <1>4, <2>3 DEF Distinct
    <3>2. rec'[disk[p]] = rec[disk[p]]
      BY <1>0, <1>1, <3>1
    <3>3. <<disk[p], p>> # j
      BY <2>3
    <3> QED BY <1>1, <2>1, <3>2, <3>3 DEF Recorded
  <2> QED BY <2>2, <2>3
<1> QED BY <1>0, <1>1, <1>2, <1>5 DEF Alone

(* The other steps of an undisturbed scan.                                 *)
LEMMA AloneWalks ==
  ASSUME Undisturbed, NEW s \in Scans, lone = s,
         \/ Check(s) \/ List(s) \/ EndScan(s) \/ Open(s) \/ Cancelled(s) \/ Swept(s)
         \/ \E p \in Paths : Visit(s, p)
         \/ \E i \in Ids : Missing(s, i)
  PROVE  Alone(s)'
<1> USE Values
<1>0. /\ disk \in [Paths -> Ids \cup {None}] /\ pc \in [Scans -> Points]
      /\ left \in [Scans -> SUBSET Paths] /\ seen \in [Scans -> SUBSET Ids]
      /\ jobs \in [Scans -> SUBSET (Ids \X Paths)] /\ cancelled \in [Scans -> BOOLEAN]
      /\ todo \in [Scans -> SUBSET ((Paths \X Ids) \cup Ids)]
      /\ batch \in [Scans -> SUBSET (Paths \cup Ids)]
      /\ Alone(s) /\ Quiet(s)
  BY DEF Undisturbed, Kept, TypeOK, Points
<1>1. UNCHANGED <<disk, stop, rec, byPath>>
  BY DEF Check, List, EndScan, Open, Cancelled, Swept, Visit, Missing, files, store, flags
<1>2. \A p \in Paths : Recorded(p)' <=> Recorded(p)
  BY <1>1 DEF Recorded
<1>3. CASE Check(s)
  <2>1. /\ UNCHANGED <<seen, jobs>> /\ pc[s] \in {"root", "entry"}
        /\ pc'[s] = IF pc[s] = "root" THEN "list" ELSE "visit"
        /\ left'[s] = left[s]
    BY <1>0, <1>3 DEF Check, Alone
  <2>2. CASE pc[s] = "root"
    BY <1>0, <1>1, <2>1, <2>2 DEF Alone
  <2>3. CASE pc[s] = "entry"
    <3>1. \A p \in Paths : disk[p] # None =>
             \/ p \in left[s]
             \/ disk[p] \in seen[s] /\ (<<disk[p], p>> \in jobs[s] \/ Recorded(p))
      BY <1>0, <2>3 DEF Alone
    <3> QED BY <1>0, <1>1, <1>2, <2>1, <2>3, <3>1 DEF Alone
  <2> QED BY <2>1, <2>2, <2>3
<1>4. CASE List(s)
  <2>1. /\ UNCHANGED <<seen, jobs>> /\ pc'[s] = "entry"
        /\ \A p \in Paths : disk[p] # None => p \in left'[s]
    BY <1>0, <1>4 DEF List
  <2> QED BY <1>0, <1>1, <2>1 DEF Alone
<1>5. ASSUME NEW x \in Paths, Visit(s, x) PROVE Alone(s)'
  <2>1. /\ pc[s] = "visit" /\ pc'[s] = "entry" /\ left'[s] = left[s] \ {x}
        /\ disk[x] = None => seen'[s] = seen[s] /\ jobs'[s] = jobs[s]
        /\ disk[x] # None => /\ seen'[s] = seen[s] \cup {disk[x]}
                             /\ jobs'[s] = jobs[s] \cup {<<disk[x], x>>}
    BY <1>0, <1>5 DEF Visit
  <2>2. \A p \in Paths : disk[p] # None =>
           \/ p \in left[s]
           \/ disk[p] \in seen[s] /\ (<<disk[p], p>> \in jobs[s] \/ Recorded(p))
    BY <1>0, <2>1 DEF Alone
  <2>3. \A p \in Paths : disk[p] # None =>
           \/ p \in left'[s]
           \/ disk[p] \in seen'[s] /\ (<<disk[p], p>> \in jobs'[s] \/ Recorded(p)')
    BY <1>2, <2>1, <2>2
  <2>4. /\ \A j \in jobs'[s] : disk[j[2]] = j[1]
        /\ \A i \in seen'[s] : \E p \in Paths : disk[p] = i
    BY <1>0, <2>1 DEF Alone
  <2> QED BY <1>0, <1>1, <2>1, <2>3, <2>4 DEF Alone
<1>6. CASE EndScan(s)
  <2>1. /\ pc[s] = "entry" /\ left[s] = {} /\ jobs[s] = {} /\ pc'[s] = "cleanup"
        /\ UNCHANGED <<seen, jobs>> /\ ~cancelled'[s]
    BY <1>0, <1>6 DEF EndScan, Alone, walk
  <2>2. \A p \in Paths : disk[p] # None => disk[p] \in seen[s] /\ Recorded(p)
    BY <1>0, <2>1 DEF Alone
  <2> QED BY <1>0, <1>1, <1>2, <2>1, <2>2 DEF Alone
<1>7. CASE Open(s)
  <2>1. /\ pc[s] = "cleanup" /\ pc'[s] = "clean" /\ UNCHANGED <<seen, jobs, cancelled>>
        /\ \A p \in Paths : byPath[p] # None => <<p, byPath[p]>> \in todo'[s]
    BY <1>0, <1>7 DEF Open, walk
  <2> QED BY <1>0, <1>1, <1>2, <2>1 DEF Alone
<1>8. CASE Cancelled(s)
  BY <1>0, <1>8 DEF Cancelled, Alone
<1>9. ASSUME NEW i \in Ids, Missing(s, i) PROVE Alone(s)'
  <2>1. /\ pc[s] = "sweep" /\ UNCHANGED <<pc, seen, jobs, cancelled>>
        /\ batch'[s] = IF rec[i] = None THEN batch[s] \cup {i} ELSE batch[s]
    BY <1>0, <1>9 DEF Missing, walk
  <2>2. \A p \in Paths : disk[p] # None => disk[p] \notin batch'[s]
    BY <1>0, <2>1 DEF Alone, Recorded
  <2> QED BY <1>0, <1>1, <1>2, <2>1, <2>2 DEF Alone
<1>10. CASE Swept(s)
  <2>1. pc[s] = "sweep" /\ jobs' = jobs /\ Finish(s)
    BY <1>10 DEF Swept
  <2>2. pc'[s] = "idle" /\ seen'[s] = {}
    BY <1>0, <2>1 DEF Finish
  <2> QED BY <1>0, <1>1, <1>2, <2>1, <2>2 DEF Alone
<1> QED BY <1>3, <1>4, <1>5, <1>6, <1>7, <1>8, <1>9, <1>10

(* A scan stays undisturbed until something else happens, and begins       *)
(* undisturbed when nothing else goes on.                                  *)
LEMMA AloneNext ==
  ASSUME Undisturbed, [Next]_vars, NEW t \in Scans, lone' = t
  PROVE  Alone(t)'
<1> USE Values
<1>0. /\ lone \in Scans \cup {None} /\ pc \in [Scans -> Points]
      /\ seen \in [Scans -> SUBSET Ids]
      /\ Quiet(t)
      /\ lone = t => Alone(t)
  BY DEF Undisturbed, Kept, TypeOK, Points
<1>1. ASSUME NEW s \in Scans, ScanStep(s) PROVE Alone(t)'
  <2>1. CASE Begin(s)
    <3>1. /\ s = t /\ pc[t] \in {"idle", "launched"} /\ pc'[t] = "root" /\ ~stop'
          /\ seen'[t] = {} /\ jobs' = jobs
      BY <1>0, <2>1 DEF Begin, walk
    <3>2. jobs[t] = {}
      BY <1>0, <3>1 DEF Quiet
    <3> QED BY <3>1, <3>2 DEF Alone
  <2>2. CASE ~Begin(s)
    <3>1. AloneIs(s)
      BY <1>1, <2>2 DEF ScanStep, Check, List, EndScan, Open, Cancelled, Cleaned, Swept,
         Visit, Work, Clean, Missing
    <3>2. lone = s /\ s = t
      BY <3>1 DEF AloneIs
    <3> QED BY <1>1, <2>2, <3>2, AloneWalks, AloneWorks, AloneCleans, AloneCleaned
            DEF ScanStep
  <2> QED BY <2>1, <2>2
<1>2. ASSUME NEW c \in Clients, Change(c) PROVE lone' = None
  BY <1>2 DEF Change, Rebuild, Put, Remove, Move, TrashItem, RestoreItem, RestoreFile,
     PurgeItem, Ask
<1>3. ASSUME NEW c \in Clients, ClientStep(c) PROVE lone' = None
  BY <1>3 DEF ClientStep, Find, DeleteFound, Stat, Store, StoreTrashed, StoreRestored,
     Reset, Serve
<1>4. ASSUME \/ Stop
             \/ \E p \in Paths, i \in Ids \cup {None} : Outside(p, i)
             \/ \E i \in Ids : DeleteTrashed(i)
      PROVE  lone' = None
  BY <1>4 DEF Stop, Outside, DeleteTrashed
<1>5. ASSUME PauseScan \/ ResumeScan \/ (\E i \in Ids : Tag(i)) \/ UNCHANGED vars
      PROVE  Alone(t)'
  <2>1. UNCHANGED <<disk, stop, rec, byPath, pc, left, seen, jobs, todo, batch, cancelled,
                    lone>>
    BY <1>5 DEF PauseScan, ResumeScan, Tag, vars, files, store, flags, walk, clean
  <2>2. \A p \in Paths : Recorded(p)' <=> Recorded(p)
    BY <2>1 DEF Recorded
  <2> QED BY <1>0, <2>1, <2>2 DEF Alone
<1>6. lone' # None
  OBVIOUS
<1> QED BY <1>1, <1>2, <1>3, <1>4, <1>5, <1>6 DEF Next

(* The invariant holds at the beginning and every step keeps it.           *)
LEMMA UndisturbedInit == Init => Undisturbed
<1> SUFFICES ASSUME Init PROVE Undisturbed
  OBVIOUS
<1>1. PICK B \in SUBSET Ids : bin = [i \in Ids |-> IF i \in B THEN i ELSE None]
  BY DEF Init
<1>2. Distinct
  <2>1. used = {i \in Ids : bin[i] # None} /\ disk = [p \in Paths |-> None]
    BY DEF Init
  <2> QED BY <1>1, <2>1, Values DEF Distinct
<1>3. Keyed /\ (\A s \in Scans : Quiet(s)) /\ lone = None
  BY DEF Init, Keyed, Quiet
<1> QED BY <1>2, <1>3, KeptInit, Values DEF Undisturbed

(* Every step of the specification keeps it.                               *)
LEMMA UndisturbedNext == Undisturbed /\ [Next]_vars => Undisturbed'
<1> SUFFICES ASSUME Undisturbed, [Next]_vars PROVE Undisturbed'
  OBVIOUS
<1>1. Kept /\ TypeOK /\ Keyed /\ Distinct /\ \A s \in Scans : Quiet(s)
  BY DEF Undisturbed, Kept
<1>2. Kept'
  BY <1>1, KeptNext
<1>3. Keyed' /\ Distinct' /\ \A s \in Scans : Quiet(s)'
  BY <1>1, KeyedNext, DistinctNext, QuietNext
<1>4. \A s \in Scans : lone' = s => Alone(s)'
  BY AloneNext
<1> QED BY <1>2, <1>3, <1>4 DEF Undisturbed

(* After a scan that nobody disturbed, every file has its record and the   *)
(* path of a missing file leads nowhere, whatever happened before.         *)
THEOREM ReconciledAlways == Spec => []Reconciled
<1>1. Undisturbed => Reconciled
  <2> SUFFICES ASSUME Undisturbed, lone # None, pc[lone] = "idle",
                      NEW p \in Paths
               PROVE  /\ disk[p] # None => rec[disk[p]] # None /\ rec[disk[p]].path = p
                      /\ disk[p] = None => byPath[p] = None
    BY DEF Reconciled
  <2>1. lone \in Scans /\ Alone(lone)
    BY DEF Undisturbed, Kept, TypeOK
  <2> QED BY <2>1 DEF Alone, Recorded
<1> QED BY <1>1, UndisturbedInit, UndisturbedNext, PTL DEF Spec

(* After a reset, the sweep of an undisturbed scan takes the tags of no    *)
(* file that is on the disk.                                               *)
THEOREM TagsSurviveLoneAlways == Spec => TagsSurviveLone
<1>1. ASSUME Undisturbed, [Next]_vars
      PROVE  [\A s \in Scans : Swept(s) /\ lone = s =>
                \A i \in tagged \ tagged' : \A p \in Paths : disk[p] # i]_vars
  <2> SUFFICES ASSUME NEW s \in Scans, Swept(s), lone = s,
                      NEW i \in tagged \ tagged', NEW p \in Paths, disk[p] = i
               PROVE  FALSE
    OBVIOUS
  <2>1. Alone(s) /\ i \in Ids
    BY <1>1, Values DEF Undisturbed, Kept, TypeOK
  <2>2. i \in batch[s] /\ pc[s] = "sweep"
    BY DEF Swept
  <2> QED BY <2>1, <2>2, Values DEF Alone
<1> QED BY <1>1, UndisturbedInit, UndisturbedNext, PTL DEF Spec, TagsSurviveLone
=============================================================================
