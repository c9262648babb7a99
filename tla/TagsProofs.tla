----------------------------- MODULE TagsProofs -----------------------------
(* Types, counts and the index of Tags, for every set of tags, items and   *)
(* handlers and any number of requests, with failures or without.          *)
EXTENDS TagsInv, FiniteSetTheorems, TLAPS

Typed == TypeOK /\ (\A p \in Actors : PointOK(p)) /\ KnownIds

(* The special values are none of the ordinary ones.                       *)
LEMMA Values ==
  /\ Rebuilder \in Actors
  /\ Rebuilder \notin Procs
  /\ \A p \in Procs : p \in Actors /\ p # Rebuilder
  /\ \A p \in Actors : p # Rebuilder => p \in Procs
  /\ None \notin Nat
  /\ None \notin Tags
  /\ None \notin Pairs
BY RebuilderAssumption, NoneAssumption DEF Actors

(* A tag has finitely many relations.                                      *)
LEMMA NumberType ==
  ASSUME NEW t \in Tags, NEW r
  PROVE  NumberOf(t, r) \in Nat
<1>1. KeysOf(t, r) \subseteq Keys
  BY DEF KeysOf
<1> QED BY <1>1, KeysAssumption, FS_Subset, FS_CardinalityType DEF NumberOf

(* Relations of other tags do not count.                                   *)
LEMMA NumberSame ==
  ASSUME NEW t, NEW r, NEW s,
         \A k \in Keys : <<t, k>> \in r <=> <<t, k>> \in s
  PROVE  NumberOf(t, r) = NumberOf(t, s)
<1>1. KeysOf(t, r) = KeysOf(t, s)
  BY DEF KeysOf
<1> QED BY <1>1 DEF NumberOf

(* A request goes on at one of five points.                                *)
LEMMA AfterPoint ==
  ASSUME NEW p
  PROVE  After(p) \in {"erase", "primary", "tag", "drop", "idle"}
BY DEF After

(* Requests as they begin, and as their fields change.                     *)
LEMMA RequestTypes ==
  /\ NoRequest \in Requests
  /\ \A q \in Requests :
       /\ q.ts \in SUBSET Tags /\ q.ks \in SUBSET Keys
       /\ q.pairs \in SUBSET Pairs /\ q.drops \in SUBSET Pairs
       /\ q.again \in BOOLEAN /\ q.op \in Ops
       /\ \A b \in BOOLEAN : [q EXCEPT !.again = b] \in Requests
       /\ \A b \in BOOLEAN, P \in SUBSET Pairs :
             [q EXCEPT !.pairs = P, !.again = b] \in Requests
       /\ [q EXCEPT !.drops = {}] \in Requests
       /\ \A T \in SUBSET Tags, P \in SUBSET Pairs :
             [q EXCEPT !.ts = T, !.pairs = P] \in Requests
BY DEF Requests, NoRequest, Ops

(* Nothing has started in an initial state.                                *)
LEMMA TypedInit == Init => Typed
<1> SUFFICES ASSUME Init PROVE Typed
  OBVIOUS
<1>1. TypeOK
  BY Values, RequestTypes DEF Init, TypeOK, Points
<1>2. \A p \in Actors : PointOK(p)
  BY DEF Init, PointOK, Loading
<1>3. KnownIds
  BY DEF Init, KnownIds, NoRequest
<1> QED BY <1>1, <1>2, <1>3 DEF Typed

(* A request that begins leaves the types as they are.                     *)
LEMMA BeginTypes ==
  ASSUME TypeOK, NEW p \in Actors, NEW q, q \in Requests, Begin(p, q),
         NEW point \in Points, GoTo(p, point),
         UNCHANGED <<db, due, n, cur, rebuild, over, spoiled, torn>>,
         tg' \in [Actors -> Tags \cup {None}], rec' \in [Actors -> Nat \cup {None}]
  PROVE  TypeOK'
<1>1. begun' \in Nat
  BY DEF Begin, TypeOK
<1>2. req' \in [Actors -> Requests]
  BY DEF Begin, TypeOK
<1>3. pc' \in [Actors -> Points]
  BY DEF GoTo, TypeOK
<1> QED BY <1>1, <1>2, <1>3 DEF TypeOK, db, rebuild

(* The types after each step.                                              *)
LEMMA TypeStep == Typed /\ [Next]_vars => TypeOK'
<1> SUFFICES ASSUME Typed, [Next]_vars PROVE TypeOK'
  OBVIOUS
<1>0. TypeOK
  BY DEF Typed
<1>1. ASSUME NEW p \in Procs, NEW T \in SUBSET Tags, NEW K \in SUBSET Keys, AddTo(p, T, K)
      PROVE  TypeOK'
  <2>1. [NoRequest EXCEPT !.op = "addTo", !.ts = T, !.ks = K] \in Requests
    BY DEF NoRequest, Requests, Ops
  <2>2. "tag" \in Points /\ p \in Actors
    BY Values DEF Points
  <2> QED BY <1>0, <1>1, <2>1, <2>2, BeginTypes DEF AddTo, recount, TypeOK
<1>2. ASSUME NEW p \in Procs, NEW k \in Keys, NEW T \in SUBSET Tags, NEW R \in SUBSET Tags,
             Update(p, k, T, R)
      PROVE  TypeOK'
  <2>1. R \X {k} \in SUBSET Pairs
    BY DEF Pairs
  <2>2. [NoRequest EXCEPT !.op = "update", !.ts = T, !.ks = {k}, !.drops = R \X {k}] \in Requests
    <3>1. {k} \in SUBSET Keys
      OBVIOUS
    <3> HIDE DEF Pairs
    <3> QED BY <2>1, <3>1 DEF NoRequest, Requests, Ops
  <2>3. (IF T # {} THEN "tag" ELSE "drop") \in Points /\ p \in Actors
    BY Values DEF Points
  <2> QED BY <1>0, <1>2, <2>2, <2>3, BeginTypes DEF Update, recount, TypeOK
<1>3. ASSUME NEW p \in Procs, NEW T \in SUBSET Tags, NEW K \in SUBSET Keys, Remove(p, T, K)
      PROVE  TypeOK'
  <2>1. T \X K \in SUBSET Pairs
    BY DEF Pairs
  <2>2. [NoRequest EXCEPT !.op = "remove", !.drops = T \X K] \in Requests
    BY <2>1 DEF NoRequest, Requests, Ops
  <2>3. "drop" \in Points /\ p \in Actors
    BY Values DEF Points
  <2> QED BY <1>0, <1>3, <2>2, <2>3, BeginTypes DEF Remove, recount, TypeOK
<1>4. ASSUME NEW p \in Procs, NEW k \in Keys, ItemGone(p, k) PROVE TypeOK'
  <2>1. [NoRequest EXCEPT !.op = "item", !.drops = {x \in rev : x[2] = k}] \in Requests
    BY <1>0 DEF NoRequest, Requests, Ops, TypeOK
  <2>2. "drop" \in Points /\ p \in Actors
    BY Values DEF Points
  <2> QED BY <1>0, <1>4, <2>1, <2>2, BeginTypes DEF ItemGone, recount, TypeOK
<1>5. ASSUME NEW p \in Procs, NEW t \in Tags, DeleteTag(p, t) PROVE TypeOK'
  <2>1. [NoRequest EXCEPT !.op = "delete", !.ts = {t}, !.drops = {x \in rel : x[1] = t}]
           \in Requests
    BY <1>0 DEF NoRequest, Requests, Ops, TypeOK
  <2>2. "drop" \in Points /\ p \in Actors
    BY Values DEF Points
  <2> QED BY <1>0, <1>5, <2>1, <2>2, BeginTypes DEF DeleteTag, recount, TypeOK
<1>6. ASSUME NEW p \in Procs, NEW t \in Tags, Rename(p, t) PROVE TypeOK'
  <2>1. [NoRequest EXCEPT !.op = "rename"] \in Requests
    BY DEF NoRequest, Requests, Ops
  <2>2. "save" \in Points /\ p \in Actors
    BY Values DEF Points
  <2>3. tg' \in [Actors -> Tags \cup {None}] /\ rec' \in [Actors -> Nat \cup {None}]
    BY <1>0, <1>6 DEF Rename, TypeOK
  <2> QED BY <1>0, <1>6, <2>1, <2>2, <2>3, BeginTypes DEF Rename
<1>18. ASSUME NEW K \in SUBSET Keys, SweepStart(K) PROVE TypeOK'
  <2>1. [NoRequest EXCEPT !.op = "rebuild", !.drops = {x \in rev : x[2] \in K}] \in Requests
    BY <1>0 DEF NoRequest, Requests, Ops, TypeOK
  <2>2. "drop" \in Points
    BY DEF Points
  <2> QED BY <1>0, <1>18, <2>1, <2>2, Values, BeginTypes DEF SweepStart, recount, TypeOK
<1> USE Values, RequestTypes DEF Typed, TypeOK, Points, db, recount, rebuild, GoTo
<1>7. ASSUME NEW t \in Tags, CreateTag(t) PROVE TypeOK'
  BY <1>7 DEF CreateTag
<1>8. ASSUME NEW p \in Procs, NEW t \in Tags, NextTag(p, t) PROVE TypeOK'
  <2> DEFINE new == IF req[p].op = "addTo" THEN req[p].ks \ KeysOf(t, rel) ELSE req[p].ks
             left == [req[p] EXCEPT !.ts = @ \ {t}, !.pairs = {t} \X new]
  <2>1. left \in Requests
    <3>1. req[p].ts \ {t} \in SUBSET Tags /\ {t} \X new \in SUBSET Pairs
      BY DEF Pairs
    <3> QED BY <3>1
  <2>2. req' = [req EXCEPT ![p] = NoRequest] \/ req' = [req EXCEPT ![p] = left]
    BY <1>8 DEF NextTag
  <2>3. req' \in [Actors -> Requests]
    BY <2>1, <2>2, ZenonT(30)
  <2>4. pc' \in [Actors -> Points]
    <3>1. \/ pc' = [pc EXCEPT ![p] = "idle"] \/ pc' = [pc EXCEPT ![p] = "tag"]
          \/ pc' = [pc EXCEPT ![p] = "primary"]
      BY <1>8 DEF NextTag
    <3> QED BY <3>1
  <2> QED BY <1>8, <2>3, <2>4 DEF NextTag
<1>9. ASSUME NEW p \in Procs, NEW x \in Pairs, Primary(p, x) PROVE TypeOK'
  <2>1. over' \in [Actors -> SUBSET Tags]
    <3>1. x[1] \in Tags
      BY DEF Pairs
    <3> QED BY <1>9, <3>1 DEF Primary, Touch
  <2> QED BY <1>9, <2>1 DEF Primary
<1>10. ASSUME NEW p \in Procs, Index(p) PROVE TypeOK'
  <2>1. cur[p] \in Pairs /\ cur[p][1] \in Tags
    BY <1>10 DEF Index, PointOK, Pairs
  <2>2. req' \in [Actors -> Requests]
    <3> DEFINE left == req[p].pairs \ {cur[p]}
    <3>1. left \in SUBSET Pairs /\ (left = {}) \in BOOLEAN
      OBVIOUS
    <3>2. [req[p] EXCEPT !.pairs = left, !.again = (left = {})] \in Requests
      BY <3>1
    <3>3. req' = [req EXCEPT ![p] = [req[p] EXCEPT !.pairs = left, !.again = (left = {})]]
      BY <1>10 DEF Index
    <3> QED BY <3>2, <3>3
  <2> QED BY <1>10, <2>1, <2>2, ZenonT(30) DEF Index
<1>11. ASSUME NEW p \in Procs, NEW t \in Tags, Load(p, t) PROVE TypeOK'
  <2>1. req' \in [Actors -> Requests]
    BY <1>11 DEF Load
  <2>2. pc' \in [Actors -> Points]
    BY <1>11, AfterPoint DEF Load
  <2>3. tg' \in [Actors -> Tags \cup {None}]
    BY <1>11 DEF Load
  <2>4. rec' \in [Actors -> Nat \cup {None}]
    BY <1>11 DEF Load
  <2>5. due' \in [Actors -> SUBSET Tags]
    BY <1>11 DEF Load
  <2> QED BY <1>11, <2>1, <2>2, <2>3, <2>4, <2>5 DEF Load
<1>12. ASSUME NEW p \in Procs, Count(p) PROVE TypeOK'
  <2>1. tg[p] \in Tags /\ NumberOf(tg[p], rel) \in Nat
    BY <1>12, NumberType DEF Count, PointOK, Loading
  <2>2. CASE NumberOf(tg[p], rel) = rec[p]
    <3>1. /\ Recounted(p) /\ over' = [over EXCEPT ![p] = {}] /\ due' = due /\ Proceed(p)
          /\ UNCHANGED <<begun, db, cur, rebuild, torn>>
      BY <1>12, <2>2, Zenon DEF Count
    <3>2. pc' \in [Actors -> Points] /\ req' \in [Actors -> Requests]
      BY <3>1, AfterPoint DEF Proceed
    <3> QED BY <2>1, <3>1, <3>2 DEF Recounted
  <2>3. CASE NumberOf(tg[p], rel) # rec[p]
    <3>1. /\ n' = [n EXCEPT ![p] = NumberOf(tg[p], rel)] /\ GoTo(p, "store")
          /\ UNCHANGED <<req, due, tg, rec, over, spoiled>>
          /\ UNCHANGED <<begun, db, cur, rebuild, torn>>
      BY <1>12, <2>3, Zenon DEF Count
    <3> QED BY <2>1, <3>1
  <2> QED BY <2>2, <2>3
<1>13. ASSUME NEW p \in Procs, Store(p) PROVE TypeOK'
  <2>1. tg[p] \in Tags
    BY <1>13 DEF Store, PointOK, Loading
  <2>2. pc' \in [Actors -> Points] /\ req' \in [Actors -> Requests]
    BY <1>13, AfterPoint DEF Store, Proceed
  <2>3. over' \in [Actors -> SUBSET Tags]
    BY <1>13, <2>1 DEF Store
  <2> QED BY <1>13, <2>1, <2>2, <2>3 DEF Store, Recounted
<1>14. ASSUME NEW p \in Procs, Save(p) PROVE TypeOK'
  <2>1. tg[p] \in Tags
    BY <1>14 DEF Save, PointOK, Loading
  <2>3. over' \in [Actors -> SUBSET Tags]
    BY <1>14, <2>1 DEF Save
  <2> QED BY <1>14, <2>1, <2>3 DEF Save
<1>15. ASSUME NEW p \in Actors, DropBatch(p)
       PROVE  /\ rel' \in SUBSET Pairs /\ rev' \in SUBSET Pairs
              /\ torn' \in SUBSET Pairs /\ over' \in [Actors -> SUBSET Tags]
  BY <1>15 DEF DropBatch, Touch, TagsOf
<1>16. ASSUME NEW p \in Procs, Drop(p) PROVE TypeOK'
  <2>1. req' \in [Actors -> Requests]
    BY <1>16 DEF Drop
  <2>2. due' \in [Actors -> SUBSET Tags]
    BY <1>16 DEF Drop, TagsOf
  <2> QED BY <1>15, <1>16, <2>1, <2>2 DEF Drop
<1>17. ASSUME NEW p \in Procs, Erase(p) PROVE TypeOK'
  <2>1. over' \in [Actors -> SUBSET Tags]
    BY <1>17 DEF Erase, Touch
  <2> QED BY <1>17, <2>1 DEF Erase
<1>19. ASSUME Sweep PROVE TypeOK'
  <2>1. req' \in [Actors -> Requests]
    BY <1>19 DEF Sweep
  <2> QED BY <1>15, <1>19, <2>1 DEF Sweep
<1>20. ASSUME Tally PROVE TypeOK'
  BY <1>20, NumberType DEF Tally
<1>21. ASSUME Snapshot PROVE TypeOK'
  BY <1>21 DEF Snapshot
<1>22. ASSUME NEW t \in Tags, RestoreCount(t) PROVE TypeOK'
  <2>1. over' \in [Actors -> SUBSET Tags]
    BY <1>22 DEF RestoreCount, Touch
  <2> QED BY <1>22, <2>1 DEF RestoreCount
<1>23. ASSUME Rebuilt PROVE TypeOK'
  BY <1>23 DEF Rebuilt
<1>24. ASSUME NEW A \in SUBSET Actors, Abandon(A), UNCHANGED <<tag, used, rel, begun>>,
              rev' \in SUBSET Pairs, torn' \in SUBSET Pairs
       PROVE  TypeOK'
  <2>1. spoiled' \in SUBSET Tags
    BY <1>24 DEF Abandon
  <2>2. /\ pc' \in [Actors -> Points] /\ req' \in [Actors -> Requests]
        /\ due' \in [Actors -> SUBSET Tags] /\ over' \in [Actors -> SUBSET Tags]
    BY <1>24 DEF Abandon
  <2>3. /\ tg' \in [Actors -> Tags \cup {None}] /\ rec' \in [Actors -> Nat \cup {None}]
        /\ n' \in [Actors -> Nat] /\ cur' \in [Actors -> Pairs \cup {None}]
    BY <1>24 DEF Abandon
  <2>4. tally' \in [Tags -> Nat] /\ seen' \in [Tags -> Nat \cup {None}]
    <3>1. \/ tally' = [t \in Tags |-> 0] /\ seen' = [t \in Tags |-> None]
          \/ tally' = tally /\ seen' = seen
      BY <1>24 DEF Abandon
    <3>2. [t \in Tags |-> 0] \in [Tags -> Nat] /\ [t \in Tags |-> None] \in [Tags -> Nat \cup {None}]
      OBVIOUS
    <3> QED BY <3>1, <3>2, Zenon
  <2> QED BY <1>24, <2>1, <2>2, <2>3, <2>4
<1>25. \A p \in Actors : HalfSaved(p) \in SUBSET Pairs
  BY DEF HalfSaved, PointOK, Loading
<1>26. ASSUME NEW p \in Actors, Fail(p) PROVE TypeOK'
  BY <1>24, <1>25, <1>26 DEF Fail
<1>27. ASSUME Restart PROVE TypeOK'
  <2>2. rev' \in SUBSET Pairs /\ torn' \in SUBSET Pairs
    BY <1>27 DEF Restart
  <2> QED BY <1>24, <1>27, <2>2 DEF Restart
<1>28. CASE UNCHANGED vars
  BY <1>28 DEF vars
<1>29. used \in SUBSET Tags
  OBVIOUS
<1> HIDE DEF Typed, TypeOK, Points, db, recount, rebuild, GoTo
<1> QED BY <1>1, <1>2, <1>3, <1>4, <1>5, <1>6, <1>7, <1>8, <1>9, <1>10, <1>11,
           <1>12, <1>13, <1>14, <1>16, <1>17, <1>18, <1>19, <1>20, <1>21, <1>22,
           <1>23, <1>26, <1>27, <1>28, <1>29
        DEF Next, Request, Step, Rebuild, NonEmpty

(***************************************************************************)
(* What a step leaves alone: the locals of everyone but P, and the records *)
(* and relations of all tags but T, whose other users are told.            *)
(***************************************************************************)
Same(q) ==
  /\ pc'[q] = pc[q] /\ req'[q] = req[q] /\ due'[q] = due[q] /\ tg'[q] = tg[q]
  /\ rec'[q] = rec[q] /\ n'[q] = n[q] /\ cur'[q] = cur[q]

Frame(P, T) ==
  /\ \A q \in Actors \ P : Same(q) /\ over'[q] = over[q] \cup (T \cap Loaded(q))
  /\ \A t \in Tags \ T : tag'[t] = tag[t] /\ NumberOf(t, rel') = NumberOf(t, rel)
  /\ Rebuilder \notin P => tally' = tally /\ seen' = seen

(* Someone whose data nobody wrote knows what it knew.                     *)
LEMMA OthersKeep ==
  ASSUME TypeOK, NEW P, NEW T, Frame(P, T), NEW q \in Actors \ P, PointOK(q)
  PROVE  PointOK(q)' /\ (LoadedOK(q) => LoadedOK(q)')
<1> USE DEF Frame, Same
<1>1. PointOK(q)'
  BY DEF PointOK, Loaded, Loading
<1>2. ASSUME LoadedOK(q) PROVE LoadedOK(q)'
  <2>1. pc[q] \in Loading => q # Rebuilder /\ tg[q] \in Tags
    BY DEF PointOK, Loading
  <2>2. pc[q] \in Loading => Loaded(q) = {tg[q]}
    BY <2>1 DEF Loaded, Loading
  <2>3. pc[q] \in Loading /\ tg[q] \notin over'[q] => tg[q] \notin over[q] /\ tg[q] \notin T
    BY <2>2
  <2>4. pc[q] \in Loading /\ tg[q] \notin over'[q] =>
          tag'[tg[q]] = tag[tg[q]] /\ NumberOf(tg[q], rel') = NumberOf(tg[q], rel)
    BY <2>1, <2>3
  <2> QED BY <1>2, <2>3, <2>4 DEF LoadedOK, Loading
<1> QED BY <1>1, <1>2

(* So does the rebuild of all counts.                                      *)
LEMMA RebuildKeeps ==
  ASSUME TypeOK, NEW P, NEW T, Frame(P, T), Rebuilder \notin P, PointOK(Rebuilder), TalliedOK
  PROVE  TalliedOK'
<1> USE Values DEF Frame, Same
<1>1. SUFFICES ASSUME NEW t \in Tags, t \notin over'[Rebuilder]
               PROVE  /\ pc'[Rebuilder] \in {"snapshot", "restore"} =>
                            tally'[t] = NumberOf(t, rel')
                      /\ t \in due'[Rebuilder] => seen'[t] = tag'[t] /\ seen'[t] \in Nat
  BY DEF TalliedOK
<1>2. over'[Rebuilder] = over[Rebuilder] \cup (T \cap Loaded(Rebuilder))
  OBVIOUS
<1>3. pc[Rebuilder] \in {"snapshot", "restore"} => Loaded(Rebuilder) = Tags
  BY DEF Loaded
<1>4. t \in due[Rebuilder] => pc[Rebuilder] = "restore"
  BY DEF PointOK
<1>5. pc[Rebuilder] \in {"snapshot", "restore"} => t \notin T
  BY <1>1, <1>2, <1>3
<1> QED BY <1>1, <1>2, <1>4, <1>5 DEF TalliedOK

(* Whom and what each step concerns.                                       *)
LEMMA Frames ==
  ASSUME TypeOK, \A p \in Actors : PointOK(p)
  PROVE  /\ \A p \in Procs :
              /\ \A T, K : AddTo(p, T, K) \/ Remove(p, T, K) => Frame({p}, {})
              /\ \A k, T, R : Update(p, k, T, R) => Frame({p}, {})
              /\ \A k : ItemGone(p, k) => Frame({p}, {})
              /\ \A t \in Tags : DeleteTag(p, t) \/ Rename(p, t) => Frame({p}, {})
              /\ \A t \in Tags : NextTag(p, t) \/ Load(p, t) => Frame({p}, {})
              /\ Index(p) \/ Count(p) => Frame({p}, {})
              /\ \A x \in Pairs : Primary(p, x) => Frame({p}, {x[1]})
              /\ Store(p) \/ Save(p) => Frame({p}, {tg[p]})
              /\ Drop(p) => Frame({p}, TagsOf(req[p].drops))
              /\ Erase(p) => Frame({p}, req[p].ts)
         /\ \A t \in Tags : CreateTag(t) => Frame({}, {t})
         /\ \A K : SweepStart(K) => Frame({Rebuilder}, {})
         /\ Sweep => Frame({Rebuilder}, TagsOf(req[Rebuilder].drops))
         /\ Tally \/ Snapshot \/ Rebuilt => Frame({Rebuilder}, {})
         /\ \A t \in Tags : RestoreCount(t) =>
              Frame({Rebuilder}, IF seen[t] = tally[t] THEN {} ELSE {t})
         /\ \A p \in Actors : Fail(p) => Frame({p}, {})
         /\ Restart => Frame(Actors, {})
<1> USE Values DEF Frame, Same, TypeOK, db, recount, rebuild, GoTo
<1>1. ASSUME NEW p \in Procs
      PROVE  /\ \A T, K : AddTo(p, T, K) \/ Remove(p, T, K) => Frame({p}, {})
             /\ \A k, T, R : Update(p, k, T, R) => Frame({p}, {})
             /\ \A k : ItemGone(p, k) => Frame({p}, {})
             /\ \A t \in Tags : DeleteTag(p, t) \/ Rename(p, t) => Frame({p}, {})
  <2>1. ASSUME NEW T, NEW K, AddTo(p, T, K) \/ Remove(p, T, K) PROVE Frame({p}, {})
    BY <2>1 DEF AddTo, Remove, Begin
  <2>2. ASSUME NEW k, NEW T, NEW R, Update(p, k, T, R) PROVE Frame({p}, {})
    BY <2>2 DEF Update, Begin
  <2>3. ASSUME NEW k, ItemGone(p, k) PROVE Frame({p}, {})
    BY <2>3 DEF ItemGone, Begin
  <2>4. ASSUME NEW t \in Tags, DeleteTag(p, t) PROVE Frame({p}, {})
    BY <2>4 DEF DeleteTag, Begin
  <2>5. ASSUME NEW t \in Tags, Rename(p, t) PROVE Frame({p}, {})
    BY <2>5 DEF Rename, Begin
  <2> HIDE DEF Frame, Same, TypeOK, db, recount, rebuild, GoTo
  <2> QED BY <2>1, <2>2, <2>3, <2>4, <2>5
<1>2. ASSUME NEW p \in Procs, NEW t \in Tags, NextTag(p, t) PROVE Frame({p}, {})
  BY <1>2 DEF NextTag
<1>3. ASSUME NEW p \in Procs, NEW t \in Tags, Load(p, t) PROVE Frame({p}, {})
  BY <1>3 DEF Load
<1>4. ASSUME NEW p \in Procs, Index(p) PROVE Frame({p}, {})
  BY <1>4 DEF Index
<1>5. ASSUME NEW p \in Procs, Count(p) PROVE Frame({p}, {})
  <2>1. /\ \/ Recounted(p) /\ over' = [over EXCEPT ![p] = {}] /\ due' = due /\ Proceed(p)
           \/ /\ n' = [n EXCEPT ![p] = NumberOf(tg[p], rel)] /\ GoTo(p, "store")
              /\ UNCHANGED <<req, due, tg, rec, over>>
        /\ UNCHANGED <<db, cur, rebuild>>
    BY <1>5, Zenon DEF Count
  <2> QED BY <2>1 DEF Recounted, Proceed
<1>6. ASSUME NEW p \in Procs, NEW x \in Pairs, Primary(p, x) PROVE Frame({p}, {x[1]})
  <2>1. \A t \in Tags \ {x[1]} : NumberOf(t, rel') = NumberOf(t, rel)
    <3>1. SUFFICES ASSUME NEW t \in Tags \ {x[1]} PROVE NumberOf(t, rel') = NumberOf(t, rel)
      OBVIOUS
    <3>2. \A k \in Keys : <<t, k>> # x
      OBVIOUS
    <3>3. \A k \in Keys : <<t, k>> \in rel' <=> <<t, k>> \in rel
      BY <1>6, <3>2 DEF Primary
    <3> QED BY <3>3, NumberSame
  <2> QED BY <1>6, <2>1 DEF Primary, Touch
<1>7. ASSUME NEW p \in Procs, Store(p) PROVE Frame({p}, {tg[p]})
  BY <1>7 DEF Store, Recounted, Proceed
<1>8. ASSUME NEW p \in Procs, Save(p) PROVE Frame({p}, {tg[p]})
  BY <1>8 DEF Save
<1>9. ASSUME NEW p \in Actors, DropBatch(p), NEW t \in Tags \ TagsOf(req[p].drops)
      PROVE  NumberOf(t, rel') = NumberOf(t, rel)
  <2>1. \A k \in Keys : <<t, k>> \in rel' <=> <<t, k>> \in rel
    BY <1>9 DEF DropBatch, TagsOf
  <2> QED BY <2>1, NumberSame
<1>10. ASSUME NEW p \in Procs, Drop(p) PROVE Frame({p}, TagsOf(req[p].drops))
  BY <1>9, <1>10 DEF Drop, DropBatch, Touch
<1>11. ASSUME NEW p \in Procs, Erase(p) PROVE Frame({p}, req[p].ts)
  BY <1>11 DEF Erase, Touch
<1>12. ASSUME NEW t \in Tags, CreateTag(t) PROVE Frame({}, {t})
  BY <1>12 DEF CreateTag
<1>13. ASSUME NEW K, SweepStart(K) PROVE Frame({Rebuilder}, {})
  BY <1>13 DEF SweepStart, Begin
<1>14. ASSUME Sweep PROVE Frame({Rebuilder}, TagsOf(req[Rebuilder].drops))
  BY <1>9, <1>14 DEF Sweep, DropBatch, Touch
<1>15. ASSUME Tally \/ Snapshot \/ Rebuilt PROVE Frame({Rebuilder}, {})
  BY <1>15 DEF Tally, Snapshot, Rebuilt
<1>16. ASSUME NEW t \in Tags, RestoreCount(t)
       PROVE  Frame({Rebuilder}, IF seen[t] = tally[t] THEN {} ELSE {t})
  BY <1>16 DEF RestoreCount, Touch
<1>17. ASSUME NEW p \in Actors, Fail(p) PROVE Frame({p}, {})
  BY <1>17 DEF Fail, Abandon
<1>18. ASSUME Restart PROVE Frame(Actors, {})
  BY <1>18 DEF Restart, Abandon
<1> HIDE DEF Frame, Same, TypeOK, db, recount, rebuild, GoTo
<1> QED BY <1>1, <1>2, <1>3, <1>4, <1>5, <1>6, <1>7, <1>8, <1>10, <1>11, <1>12,
           <1>13, <1>14, <1>15, <1>16, <1>17, <1>18

(***************************************************************************)
(* What the one who moves knows after its step.                            *)
(***************************************************************************)
Knows(p) == PointOK(p)' /\ LoadedOK(p)' /\ (p = Rebuilder => TalliedOK')

(* An actor between requests relies on nothing.                            *)
LEMMA IdleKnows ==
  ASSUME NEW p \in Actors, pc'[p] = "idle", due'[p] = {}, over'[p] = {}
  PROVE  Knows(p)
<1>1. PointOK(p)'
  BY DEF PointOK, Loading
<1>2. LoadedOK(p)'
  BY DEF LoadedOK, Loading
<1>3. p = Rebuilder => TalliedOK'
  BY DEF TalliedOK
<1> QED BY <1>1, <1>2, <1>3 DEF Knows

(* A handler that is not counting knows nothing either.                    *)
LEMMA BusyKnows ==
  ASSUME NEW p \in Procs, pc'[p] \in {"tag", "primary", "recount", "drop", "erase"},
         pc'[p] # "recount" => due'[p] = {}, over'[p] = {}
  PROVE  Knows(p)
<1>1. PointOK(p)'
  BY Values DEF PointOK, Loading
<1>2. LoadedOK(p)'
  BY DEF LoadedOK, Loading
<1> QED BY <1>1, <1>2, Values DEF Knows

(* Each handler after its own step.                                        *)
LEMMA OwnStep ==
  ASSUME Typed, TypeOK', Informed, NEW p \in Procs, Request(p) \/ Step(p)
  PROVE  Knows(p)
<1>1. p \in Actors /\ p # Rebuilder /\ PointOK(p) /\ LoadedOK(p)
  BY Values DEF Informed
<1> USE <1>1 DEF Typed, TypeOK, db, recount, rebuild, GoTo
<1>2. ASSUME NEW T, NEW K, AddTo(p, T, K) \/ Remove(p, T, K) PROVE Knows(p)
  <2>1. pc'[p] \in {"tag", "drop"} /\ due'[p] = {} /\ over'[p] = {}
    BY <1>2 DEF AddTo, Remove, Begin, PointOK, Loading
  <2> QED BY <2>1, BusyKnows
<1>3. ASSUME NEW k, NEW T, NEW R, Update(p, k, T, R) PROVE Knows(p)
  <2>1. pc'[p] \in {"tag", "drop"} /\ due'[p] = {} /\ over'[p] = {}
    BY <1>3 DEF Update, Begin, PointOK, Loading
  <2> QED BY <2>1, BusyKnows
<1>4. ASSUME NEW k, ItemGone(p, k) PROVE Knows(p)
  <2>1. pc'[p] = "drop" /\ due'[p] = {} /\ over'[p] = {}
    BY <1>4 DEF ItemGone, Begin, PointOK, Loading
  <2> QED BY <2>1, BusyKnows
<1>5. ASSUME NEW t \in Tags, DeleteTag(p, t) PROVE Knows(p)
  <2>1. pc'[p] = "drop" /\ due'[p] = {} /\ over'[p] = {}
    BY <1>5 DEF DeleteTag, Begin, PointOK, Loading
  <2> QED BY <2>1, BusyKnows
<1>6. ASSUME NEW t \in Tags, Rename(p, t) PROVE Knows(p)
  <2>1. /\ pc'[p] = "save" /\ due'[p] = {} /\ over'[p] = {}
        /\ tg'[p] = t /\ rec'[p] = tag[t] /\ tag' = tag /\ tag[t] \in Nat
    BY <1>6 DEF Rename, Begin, PointOK, Loading
  <2> QED BY <2>1 DEF Knows, PointOK, LoadedOK, Loading
<1>7. ASSUME NEW t \in Tags, NextTag(p, t) PROVE Knows(p)
  <2>1. pc'[p] \in {"tag", "primary", "idle"} /\ due'[p] = {} /\ over'[p] = {}
    BY <1>7 DEF NextTag, PointOK, Loading
  <2> QED BY <2>1, BusyKnows, IdleKnows
<1>8. ASSUME NEW x \in Pairs, Primary(p, x) PROVE Knows(p)
  <2>1. pc'[p] = "index" /\ due'[p] = {} /\ over'[p] = {} /\ cur'[p] = x
    BY <1>8 DEF Primary, Touch, PointOK, Loading
  <2> QED BY <2>1 DEF Knows, PointOK, LoadedOK, Loading
<1>9. ASSUME Index(p) PROVE Knows(p)
  <2>1. pc'[p] = "recount" /\ over'[p] = {}
    BY <1>9 DEF Index, PointOK, Loading
  <2> QED BY <2>1, BusyKnows
<1>10. ASSUME NEW t \in Tags, Load(p, t) PROVE Knows(p)
  <2>1. over'[p] = {} /\ pc[p] = "recount" /\ t \in due[p]
    BY <1>10 DEF Load, PointOK, Loading
  <2>2. CASE tag[t] = None
    <3>1. pc'[p] = IF due'[p] # {} THEN "recount" ELSE After(p)
      BY <1>10, <2>2 DEF Load
    <3>2. pc'[p] # "recount" => due'[p] = {}
      BY <3>1
    <3>3. pc'[p] \in {"tag", "primary", "recount", "drop", "erase", "idle"}
      BY <3>1, AfterPoint
    <3> QED BY <2>1, <3>2, <3>3, BusyKnows, IdleKnows
  <2>3. CASE tag[t] # None
    <3>1. pc'[p] = "count" /\ tg'[p] = t /\ rec'[p] = tag[t] /\ tag' = tag /\ tag[t] \in Nat
      BY <1>10, <2>3 DEF Load
    <3> QED BY <2>1, <3>1 DEF Knows, PointOK, LoadedOK, Loading
  <2> QED BY <2>2, <2>3
<1>11. ASSUME pc'[p] = (IF due'[p] # {} THEN "recount" ELSE After(p)), over'[p] = {}
       PROVE  Knows(p)
  <2>1. pc'[p] # "recount" => due'[p] = {}
    BY <1>11
  <2>2. pc'[p] \in {"tag", "primary", "recount", "drop", "erase", "idle"}
    BY <1>11, AfterPoint
  <2> QED BY <1>11, <2>1, <2>2, BusyKnows, IdleKnows
<1>12. ASSUME Count(p) PROVE Knows(p)
  <2>1. \/ over' = [over EXCEPT ![p] = {}] /\ Proceed(p)
        \/ /\ n' = [n EXCEPT ![p] = NumberOf(tg[p], rel)] /\ GoTo(p, "store")
           /\ UNCHANGED <<req, due, tg, rec, over, db>>
    BY <1>12, Zenon DEF Count
  <2>2. CASE over' = [over EXCEPT ![p] = {}] /\ Proceed(p)
    BY <1>11, <2>2 DEF Proceed
  <2>3. CASE /\ n' = [n EXCEPT ![p] = NumberOf(tg[p], rel)] /\ GoTo(p, "store")
             /\ UNCHANGED <<req, due, tg, rec, over, db>>
    <3>1. pc[p] = "count"
      BY <1>12 DEF Count
    <3>2. /\ pc'[p] = "store" /\ n'[p] = NumberOf(tg[p], rel) /\ tg'[p] = tg[p]
          /\ rec'[p] = rec[p] /\ over'[p] = over[p] /\ tag' = tag /\ rel' = rel
      BY <2>3
    <3>3. NumberOf(tg[p], rel)' = NumberOf(tg[p], rel)
      BY <3>2 DEF NumberOf, KeysOf
    <3> QED BY <3>1, <3>2, <3>3 DEF Knows, PointOK, LoadedOK, Loading
  <2> QED BY <2>1, <2>2, <2>3
<1>13. ASSUME Store(p) PROVE Knows(p)
  BY <1>11, <1>13 DEF Store, Proceed
<1>14. ASSUME Save(p) PROVE Knows(p)
  <2>1. pc'[p] = "idle" /\ due'[p] = {} /\ over'[p] = {}
    BY <1>14 DEF Save, PointOK, Loading
  <2> QED BY <2>1, IdleKnows
<1>15. ASSUME Drop(p) PROVE Knows(p)
  <2>1. pc'[p] = "recount" /\ over'[p] = {}
    BY <1>15 DEF Drop, DropBatch, Touch, PointOK, Loading
  <2> QED BY <2>1, BusyKnows
<1>16. ASSUME Erase(p) PROVE Knows(p)
  <2>1. pc'[p] = "idle" /\ due'[p] = {} /\ over'[p] = {}
    BY <1>16 DEF Erase, Touch, PointOK, Loading
  <2> QED BY <2>1, IdleKnows
<1>17. used \in SUBSET Tags
  OBVIOUS
<1> HIDE DEF Typed, TypeOK, db, recount, rebuild, GoTo
<1> QED BY <1>2, <1>3, <1>4, <1>5, <1>6, <1>7, <1>8, <1>9, <1>10, <1>12, <1>13, <1>14,
           <1>15, <1>16, <1>17 DEF Request, Step

(* The rebuild after each of its steps.                                    *)
LEMMA RebuildStep ==
  ASSUME Typed, TypeOK', Informed, Rebuild
  PROVE  Knows(Rebuilder)
<1> USE Values DEF Typed, TypeOK, db, recount, rebuild, GoTo
<1>0. PointOK(Rebuilder) /\ TalliedOK
  BY DEF Informed
<1>1. ASSUME NEW K, SweepStart(K) PROVE Knows(Rebuilder)
  BY <1>0, <1>1 DEF SweepStart, Begin, Knows, PointOK, LoadedOK, TalliedOK, Loading
<1>2. ASSUME Sweep PROVE Knows(Rebuilder)
  BY <1>0, <1>2 DEF Sweep, DropBatch, Touch, Knows, PointOK, LoadedOK, TalliedOK, Loading
<1>3. ASSUME Tally PROVE Knows(Rebuilder)
  <2>1. \A t \in Tags : tally'[t] = NumberOf(t, rel')
    BY <1>3 DEF Tally
  <2> QED BY <1>0, <1>3, <2>1 DEF Tally, Knows, PointOK, LoadedOK, TalliedOK, Loading
<1>4. ASSUME Snapshot PROVE Knows(Rebuilder)
  <2>1. /\ pc[Rebuilder] = "snapshot" /\ pc'[Rebuilder] = "restore"
        /\ due'[Rebuilder] = {t \in Tags : tag[t] # None} /\ seen' = tag
        /\ tag' = tag /\ over' = over /\ tally' = tally /\ rel' = rel
    BY <1>4 DEF Snapshot
  <2>2. TalliedOK'
    BY <1>0, <2>1 DEF TalliedOK
  <2> QED BY <2>1, <2>2 DEF Knows, PointOK, LoadedOK, Loading
<1>5. ASSUME Rebuilt PROVE Knows(Rebuilder)
  BY <1>5, IdleKnows DEF Rebuilt
<1>6. ASSUME NEW t \in Tags, RestoreCount(t) PROVE Knows(Rebuilder)
  <2>1. /\ pc[Rebuilder] = "restore" /\ pc'[Rebuilder] = "restore"
        /\ due'[Rebuilder] = due[Rebuilder] \ {t} /\ over'[Rebuilder] = over[Rebuilder]
        /\ tally' = tally /\ seen' = seen /\ rel' = rel
        /\ \A u \in Tags \ {t} : tag'[u] = tag[u]
    BY <1>6 DEF RestoreCount, Touch
  <2>2. TalliedOK'
    BY <1>0, <2>1 DEF TalliedOK
  <2> QED BY <2>1, <2>2 DEF Knows, PointOK, LoadedOK, Loading
<1> HIDE DEF Typed, TypeOK, db, recount, rebuild, GoTo
<1> QED BY <1>1, <1>2, <1>3, <1>4, <1>5, <1>6 DEF Rebuild

(* Everyone knows what it did, whoever moves.                              *)
LEMMA KnowledgeStep ==
  ASSUME Typed, TypeOK', Informed, Next
  PROVE  (\A q \in Actors : PointOK(q)' /\ LoadedOK(q)') /\ TalliedOK'
<1> USE Values
<1>0. TypeOK /\ \A q \in Actors : PointOK(q) /\ LoadedOK(q)
  BY DEF Typed, Informed
<1>00. TalliedOK
  BY DEF Informed
<1>1. ASSUME NEW P \in SUBSET Actors, NEW T, Frame(P, T), \A p \in P : Knows(p)
      PROVE  (\A q \in Actors : PointOK(q)' /\ LoadedOK(q)') /\ TalliedOK'
  <2>1. \A q \in Actors : PointOK(q)' /\ LoadedOK(q)'
    BY <1>0, <1>1, OthersKeep DEF Knows
  <2>2. CASE Rebuilder \in P
    BY <1>1, <2>1, <2>2 DEF Knows
  <2>3. CASE Rebuilder \notin P
    BY <1>0, <1>00, <1>1, <2>1, <2>3, RebuildKeeps
  <2> QED BY <2>1, <2>2, <2>3
<1>2. ASSUME NEW p \in Procs, Request(p) \/ Step(p)
      PROVE  (\A q \in Actors : PointOK(q)' /\ LoadedOK(q)') /\ TalliedOK'
  <2>1. \E T : Frame({p}, T)
    BY <1>0, <1>2, Frames DEF Request, Step, Typed, TypeOK
  <2> QED BY <1>1, <1>2, <2>1, OwnStep
<1>3. ASSUME NEW t \in Tags, CreateTag(t)
      PROVE  (\A q \in Actors : PointOK(q)' /\ LoadedOK(q)') /\ TalliedOK'
  <2>1. Frame({}, {t})
    BY <1>0, <1>3, Frames
  <2> QED BY <1>1, <2>1
<1>4. ASSUME Rebuild
      PROVE  (\A q \in Actors : PointOK(q)' /\ LoadedOK(q)') /\ TalliedOK'
  <2>1. \E T : Frame({Rebuilder}, T)
    BY <1>0, <1>4, Frames DEF Rebuild
  <2> QED BY <1>1, <1>4, <2>1, RebuildStep
<1>5. ASSUME NEW A \in SUBSET Actors, NEW p \in A, Abandon(A) PROVE Knows(p)
  BY <1>5, IdleKnows DEF Abandon
<1>6. ASSUME NEW p \in Actors, Fail(p)
      PROVE  (\A q \in Actors : PointOK(q)' /\ LoadedOK(q)') /\ TalliedOK'
  <2>1. Frame({p}, {})
    BY <1>0, <1>6, Frames
  <2>2. Knows(p)
    BY <1>5, <1>6 DEF Fail
  <2> QED BY <1>1, <2>1, <2>2
<1>7. ASSUME Restart
      PROVE  (\A q \in Actors : PointOK(q)' /\ LoadedOK(q)') /\ TalliedOK'
  <2>1. Frame(Actors, {})
    BY <1>0, <1>7, Frames
  <2>2. \A p \in Actors : Knows(p)
    BY <1>5, <1>7 DEF Restart
  <2> QED BY <1>1, <2>1, <2>2
<1> QED BY <1>2, <1>3, <1>4, <1>6, <1>7 DEF Next

(* Only known ids are written.                                             *)
LEMMA KnownStep ==
  ASSUME Typed, Next
  PROVE  KnownIds'
<1> USE Values DEF Typed, TypeOK, db, recount, rebuild, GoTo
<1>0. KnownIds /\ NoRequest.ts = {} /\ NoRequest.pairs = {}
  BY DEF NoRequest
<1>1. ASSUME used \subseteq used', rel' \subseteq rel,
             \A q \in Actors : /\ req'[q].ts \subseteq req[q].ts
                               /\ req'[q].pairs \subseteq req[q].pairs
      PROVE  KnownIds'
  BY <1>0, <1>1 DEF KnownIds
<1>3. ASSUME NEW p \in Procs, Request(p) PROVE KnownIds'
  <2>1. ASSUME NEW q, Begin(p, q), q.ts \subseteq used, q.pairs = {}, used' = used, rel' = rel
        PROVE  KnownIds'
    BY <1>0, <2>1 DEF KnownIds, Begin
  <2>2. ASSUME NEW T \in SUBSET used, NEW K, AddTo(p, T, K) \/ Remove(p, T, K) PROVE KnownIds'
    BY <2>1, <2>2 DEF AddTo, Remove, NoRequest
  <2>3. ASSUME NEW k, NEW T \in SUBSET used, NEW R, Update(p, k, T, R) PROVE KnownIds'
    BY <2>1, <2>3 DEF Update, NoRequest
  <2>4. ASSUME NEW k, ItemGone(p, k) PROVE KnownIds'
    BY <2>1, <2>4 DEF ItemGone, NoRequest
  <2>5. ASSUME NEW t \in used, DeleteTag(p, t) \/ Rename(p, t) PROVE KnownIds'
    BY <2>1, <2>5 DEF DeleteTag, Rename, NoRequest
  <2> HIDE DEF Typed, TypeOK, db, recount, rebuild, GoTo
  <2> QED BY <1>3, <2>2, <2>3, <2>4, <2>5 DEF Request, NonEmpty
<1>4. ASSUME NEW p \in Procs, Step(p) PROVE KnownIds'
  <2>1. ASSUME NEW t \in Tags, NextTag(p, t) PROVE KnownIds'
    <3> DEFINE new == IF req[p].op = "addTo" THEN req[p].ks \ KeysOf(t, rel) ELSE req[p].ks
               left == [req[p] EXCEPT !.ts = @ \ {t}, !.pairs = {t} \X new]
    <3>1. /\ req' = [req EXCEPT ![p] = NoRequest] \/ req' = [req EXCEPT ![p] = left]
          /\ used' = used /\ rel' = rel /\ t \in req[p].ts
      BY <2>1 DEF NextTag
    <3>2. req[p] \in Requests
      OBVIOUS
    <3>3. left.ts \subseteq req[p].ts /\ left.pairs = {t} \X new /\ new \subseteq Keys
      BY <3>2 DEF Requests
    <3>4. t \in used
      BY <1>0, <3>1 DEF KnownIds
    <3>5. {t} \X new \subseteq used \X Keys
      BY <3>3, <3>4
    <3> HIDE DEF new, left
    <3> QED BY <1>0, <3>1, <3>3, <3>5 DEF KnownIds
  <2>2. ASSUME NEW t \in Tags, Load(p, t) PROVE KnownIds'
    <3>1. /\ used' = used /\ rel' = rel
          /\ \/ req' = [req EXCEPT ![p] = NoRequest]
             \/ req' = [req EXCEPT ![p] = [req[p] EXCEPT !.again = FALSE]]
      BY <2>2 DEF Load
    <3>2. /\ [req[p] EXCEPT !.again = FALSE].ts = req[p].ts
          /\ [req[p] EXCEPT !.again = FALSE].pairs = req[p].pairs
      <4>1. req[p] \in Requests
        OBVIOUS
      <4> QED BY <4>1 DEF Requests
    <3> QED BY <1>0, <1>1, <3>1, <3>2
  <2>3. ASSUME NEW x \in Pairs, Primary(p, x) PROVE KnownIds'
    BY <1>0, <2>3 DEF Primary, KnownIds
  <2>4. ASSUME Index(p) PROVE KnownIds'
    BY <1>1, <2>4 DEF Index
  <2>5. ASSUME Count(p) PROVE KnownIds'
    <3>1. (req' = req \/ req' = [req EXCEPT ![p] = NoRequest]) /\ used' = used /\ rel' = rel
      BY <2>5 DEF Count, Proceed
    <3> QED BY <1>0, <1>1, <3>1
  <2>6. ASSUME Store(p) \/ Save(p) \/ Erase(p) PROVE KnownIds'
    <3>1. (req' = req \/ req' = [req EXCEPT ![p] = NoRequest]) /\ used' = used /\ rel' = rel
      BY <2>6 DEF Store, Save, Erase, Proceed
    <3> QED BY <1>0, <1>1, <3>1
  <2>7. ASSUME Drop(p) PROVE KnownIds'
    BY <1>1, <2>7 DEF Drop, DropBatch
  <2> HIDE DEF Typed, TypeOK, db, recount, rebuild, GoTo
  <2> QED BY <1>4, <2>1, <2>2, <2>3, <2>4, <2>5, <2>6, <2>7 DEF Step
<1>5. ASSUME NEW t \in Tags, CreateTag(t) PROVE KnownIds'
  BY <1>1, <1>5 DEF CreateTag
<1>6. ASSUME NEW K, SweepStart(K) PROVE KnownIds'
  BY <1>0, <1>6 DEF SweepStart, Begin, KnownIds, NoRequest
<1>7. ASSUME Sweep PROVE KnownIds'
  BY <1>1, <1>7 DEF Sweep, DropBatch
<1>8. ASSUME Tally \/ Snapshot \/ Rebuilt \/ \E t \in Tags : RestoreCount(t) PROVE KnownIds'
  <2>1. (req' = req \/ req' = [req EXCEPT ![Rebuilder] = NoRequest]) /\ used' = used /\ rel' = rel
    BY <1>8 DEF Tally, Snapshot, Rebuilt, RestoreCount
  <2> QED BY <1>0, <1>1, <2>1
<1>9. ASSUME (\E p \in Actors : Fail(p)) \/ Restart PROVE KnownIds'
  BY <1>0, <1>1, <1>9 DEF Fail, Restart, Abandon
<1> HIDE DEF Typed, TypeOK, db, recount, rebuild, GoTo
<1> QED BY <1>3, <1>4, <1>5, <1>6, <1>7, <1>8, <1>9 DEF Next, Rebuild

(***************************************************************************)
(* The two keys of a pair.                                                 *)
(***************************************************************************)
Halves == HalvesKnown /\ IndexAgrees

(* Who is between the two keys stays there while someone else moves.       *)
LEMMA HalvesStep ==
  ASSUME Typed, Halves, Next
  PROVE  Halves'
<1> USE Values DEF Typed, TypeOK, db, recount, rebuild, GoTo
<1>0. HalvesKnown /\ IndexAgrees
  BY DEF Halves
<1>1. ASSUME rel' = rel, rev' = rev, torn \subseteq torn',
             \A q \in Actors : pc'[q] = "index" => pc[q] = "index" /\ cur'[q] = cur[q],
             \A q \in Actors : pc[q] = "index" =>
                cur[q] \in torn' \/ (pc'[q] = "index" /\ cur'[q] = cur[q])
      PROVE  Halves'
  <2>1. HalvesKnown'
    BY <1>0, <1>1 DEF HalvesKnown
  <2>2. IndexAgrees'
    BY <1>0, <1>1 DEF IndexAgrees
  <2> QED BY <2>1, <2>2 DEF Halves
<1>2. ASSUME NEW p \in Actors, UNCHANGED <<rel, rev, torn>>, pc[p] # "index",
             pc'[p] # "index", \A q \in Actors \ {p} : pc'[q] = pc[q] /\ cur'[q] = cur[q]
      PROVE  Halves'
  BY <1>1, <1>2
<1>3. ASSUME NEW p \in Procs, Request(p) PROVE Halves'
  <2>1. ASSUME NEW q, Begin(p, q), UNCHANGED <<rel, rev, cur, torn>>,
               NEW point, GoTo(p, point), point # "index"
        PROVE  Halves'
    BY <1>2, <2>1 DEF Begin
  <2>2. ASSUME NEW T, NEW K, AddTo(p, T, K) \/ Remove(p, T, K) PROVE Halves'
    BY <2>1, <2>2 DEF AddTo, Remove
  <2>3. ASSUME NEW k, NEW T, NEW R, Update(p, k, T, R) PROVE Halves'
    <3>1. (IF T # {} THEN "tag" ELSE "drop") # "index"
      OBVIOUS
    <3> QED BY <2>1, <2>3, <3>1 DEF Update
  <2>4. ASSUME NEW k, ItemGone(p, k) PROVE Halves'
    BY <2>1, <2>4 DEF ItemGone
  <2>5. ASSUME NEW t, DeleteTag(p, t) \/ Rename(p, t) PROVE Halves'
    BY <2>1, <2>5 DEF DeleteTag, Rename
  <2> HIDE DEF Typed, TypeOK, db, recount, rebuild, GoTo
  <2> QED BY <1>3, <2>2, <2>3, <2>4, <2>5 DEF Request, NonEmpty
<1>4. ASSUME NEW p \in Procs, NEW t \in Tags, NextTag(p, t) PROVE Halves'
  BY <1>2, <1>4 DEF NextTag
<1>5. ASSUME NEW p \in Procs, NEW t \in Tags, Load(p, t) PROVE Halves'
  <2>1. /\ UNCHANGED <<rel, rev, torn, cur>> /\ pc[p] = "recount" /\ pc'[p] # "index"
        /\ \A q \in Actors \ {p} : pc'[q] = pc[q]
    BY <1>5, AfterPoint DEF Load
  <2> QED BY <1>2, <2>1
<1>6. ASSUME NEW p \in Procs, NEW x \in Pairs, Primary(p, x) PROVE Halves'
  <2>1. /\ rel' = rel \cup {x} /\ rev' = rev /\ torn' = torn \ {x} /\ pc[p] = "primary"
        /\ pc'[p] = "index" /\ cur'[p] = x
        /\ \A q \in Actors \ {p} : pc'[q] = pc[q] /\ cur'[q] = cur[q]
    BY <1>6 DEF Primary
  <2>2. HalvesKnown'
    BY <1>0, <2>1 DEF HalvesKnown
  <2>3. IndexAgrees'
    BY <1>0, <2>1 DEF IndexAgrees
  <2> QED BY <2>2, <2>3 DEF Halves
<1>7. ASSUME NEW p \in Procs, Index(p) PROVE Halves'
  <2>1. /\ rel' = rel /\ rev' = rev \cup {cur[p]} /\ torn' = torn /\ pc[p] = "index"
        /\ pc'[p] = "recount"
        /\ \A q \in Actors \ {p} : pc'[q] = pc[q] /\ cur'[q] = cur[q]
    BY <1>7 DEF Index
  <2>2. HalvesKnown'
    BY <1>0, <2>1 DEF HalvesKnown
  <2>3. IndexAgrees'
    BY <1>0, <2>1 DEF IndexAgrees, HalvesKnown
  <2> QED BY <2>2, <2>3 DEF Halves
<1>8. ASSUME NEW p \in Procs, Count(p) PROVE Halves'
  <2>1. /\ \/ over' = [over EXCEPT ![p] = {}] /\ due' = due /\ Proceed(p)
           \/ GoTo(p, "store")
        /\ UNCHANGED <<db, cur, torn>> /\ pc[p] = "count"
    BY <1>8, Zenon DEF Count
  <2>2. pc'[p] # "index" /\ \A q \in Actors \ {p} : pc'[q] = pc[q]
    BY <2>1, AfterPoint DEF Proceed
  <2> QED BY <1>2, <2>1, <2>2
<1>9. ASSUME NEW p \in Procs, Store(p) PROVE Halves'
  <2>1. pc'[p] # "index" /\ \A q \in Actors \ {p} : pc'[q] = pc[q]
    BY <1>9, AfterPoint DEF Store, Proceed
  <2> QED BY <1>2, <1>9, <2>1 DEF Store
<1>10. ASSUME NEW p \in Procs, Save(p) \/ Erase(p) PROVE Halves'
  BY <1>2, <1>10 DEF Save, Erase
<1>11. ASSUME NEW p \in Actors, DropBatch(p), pc[p] = "drop", NEW point \in {"recount", "tally"},
              GoTo(p, point), cur' = cur
       PROVE  Halves'
  <2>1. /\ rel' = rel \ req[p].drops /\ rev' = rev \ req[p].drops
        /\ torn' = (torn \ req[p].drops) \cup (req[p].drops \cap Midway(p))
        /\ pc'[p] # "index" /\ \A q \in Actors \ {p} : pc'[q] = pc[q]
    BY <1>11 DEF DropBatch
  <2>2. \A q \in Actors \ {p} : pc[q] = "index" => cur[q] \in Midway(p)
    BY DEF Midway
  <2>3. HalvesKnown'
    BY <1>0, <1>11, <2>1, <2>2 DEF HalvesKnown
  <2>4. IndexAgrees'
    BY <1>0, <1>11, <2>1, <2>2 DEF IndexAgrees
  <2> QED BY <2>3, <2>4 DEF Halves
<1>12. ASSUME NEW p \in Procs, Drop(p) PROVE Halves'
  BY <1>11, <1>12 DEF Drop
<1>13. ASSUME NEW t \in Tags, CreateTag(t) PROVE Halves'
  BY <1>1, <1>13 DEF CreateTag
<1>14. ASSUME NEW K, SweepStart(K) PROVE Halves'
  BY <1>2, <1>14 DEF SweepStart, Begin
<1>15. ASSUME Sweep PROVE Halves'
  BY <1>11, <1>15 DEF Sweep
<1>16. ASSUME Tally \/ Snapshot \/ Rebuilt PROVE Halves'
  BY <1>2, <1>16 DEF Tally, Snapshot, Rebuilt
<1>17. ASSUME NEW t \in Tags, RestoreCount(t) PROVE Halves'
  BY <1>1, <1>17 DEF RestoreCount
<1>18. ASSUME NEW p \in Actors, Fail(p) PROVE Halves'
  <2>1. /\ UNCHANGED <<rel, rev>> /\ torn' = torn \cup HalfSaved(p) /\ pc'[p] = "idle"
        /\ \A q \in Actors \ {p} : pc'[q] = pc[q] /\ cur'[q] = cur[q]
    BY <1>18 DEF Fail, Abandon
  <2>2. pc[p] = "index" => cur[p] \in torn'
    BY <2>1 DEF HalfSaved
  <2> QED BY <1>1, <2>1, <2>2
<1>19. ASSUME Restart PROVE Halves'
  <2>1. rel' = rel /\ \A q \in Actors : pc'[q] = "idle"
    BY <1>19 DEF Restart, Abandon
  <2>2. CASE rev = {}
    <3>1. rev' = rel
      BY <1>19, <2>2 DEF Restart
    <3> QED BY <2>1, <3>1 DEF Halves, HalvesKnown, IndexAgrees
  <2>3. CASE rev # {}
    <3>1. /\ rev' = rev
          /\ torn' = torn \cup {x \in Pairs : \E q \in Actors : x \in HalfSaved(q)}
      BY <1>19, <2>3 DEF Restart
    <3>2. \A q \in Actors : pc[q] = "index" => cur[q] \in torn'
      BY <3>1 DEF HalfSaved, PointOK, Loading
    <3> QED BY <1>1, <2>1, <3>1, <3>2
  <2> QED BY <2>2, <2>3
<1> HIDE DEF Typed, TypeOK, db, recount, rebuild, GoTo
<1> QED BY <1>3, <1>4, <1>5, <1>6, <1>7, <1>8, <1>9, <1>10, <1>12, <1>13, <1>14, <1>15,
           <1>16, <1>17, <1>18, <1>19 DEF Next, Step, Rebuild

(***************************************************************************)
(* Counts.                                                                 *)
(***************************************************************************)
(* The count of a tag is right, or someone owes it.                        *)
Settled(t) ==
  tag[t] # None /\ tag[t] # NumberOf(t, rel) =>
    t \in spoiled \/ \E p \in Actors : t \in Owed(p)

(* Whoever does not move owes what it owed.                                *)
LEMMA OwedSame ==
  ASSUME NEW q \in Actors, Same(q)
  PROVE  Owed(q)' = Owed(q)
BY DEF Owed, Same

(* A tag stays settled when nothing is written to it and whoever owed its  *)
(* count still does.                                                       *)
LEMMA SettledSame ==
  ASSUME NEW P, NEW T, Frame(P, T), NEW t \in Tags \ T, Settled(t),
         t \in spoiled => t \in spoiled',
         \A p \in P \cap Actors : t \in Owed(p) => t \in spoiled' \/ t \in Owed(p)'
  PROVE  Settled(t)'
<1>1. NumberOf(t, rel)' = NumberOf(t, rel) /\ tag'[t] = tag[t]
  BY DEF Frame
<1>2. \A q \in Actors \ P : Owed(q)' = Owed(q)
  BY OwedSame DEF Frame
<1> QED BY <1>1, <1>2 DEF Settled

(* Counts after a step of a handler.                                       *)
LEMMA CountsStep ==
  ASSUME Typed, Informed, CountsRight, NEW p \in Procs, Request(p) \/ Step(p)
  PROVE  CountsRight'
<1> USE Values DEF Typed, TypeOK, db, recount, rebuild, GoTo
<1>0. TypeOK /\ p \in Actors /\ PointOK(p) /\ LoadedOK(p) /\ \A q \in Actors : PointOK(q)
  BY DEF Informed
<1>00. \A t \in Tags : Settled(t)
  BY DEF Settled, CountsRight
<1>000. (\A t \in Tags : Settled(t)') => CountsRight'
  BY DEF Settled, CountsRight
<1>1. ASSUME Frame({p}, {}), pc[p] \in {"idle", "tag", "primary"}, spoiled' = spoiled
      PROVE  CountsRight'
  <2>1. Owed(p) = {}
    BY <1>0, <1>1 DEF Owed, PointOK
  <2> QED BY <1>0, <1>00, <1>000, <1>1, <2>1, SettledSame
<1>2. ASSUME Request(p) PROVE CountsRight'
  <2>1. \E q : Begin(p, q) /\ spoiled' = spoiled
    BY <1>2 DEF Request, AddTo, Remove, Update, ItemGone, DeleteTag, Rename
  <2>2. Frame({p}, {})
    BY <1>0, <1>2, Frames DEF Request
  <2> QED BY <1>1, <2>1, <2>2 DEF Begin
<1>3. ASSUME NEW t \in Tags, NextTag(p, t) PROVE CountsRight'
  <2>1. Frame({p}, {})
    BY <1>0, <1>3, Frames
  <2> QED BY <1>1, <1>3, <2>1 DEF NextTag
<1>4. ASSUME NEW x \in Pairs, Primary(p, x) PROVE CountsRight'
  <2>1. Frame({p}, {x[1]})
    BY <1>0, <1>4, Frames
  <2>2. /\ pc[p] = "primary" /\ pc'[p] = "index" /\ cur'[p] = x /\ spoiled' = spoiled
        /\ Owed(p) = {}
    BY <1>0, <1>4 DEF Primary, Owed, PointOK
  <2>3. x[1] \in Tags => x[1] \in Owed(p)'
    BY <2>2 DEF Owed
  <2>4. \A t \in Tags : Settled(t)'
    <3>1. ASSUME NEW t \in Tags PROVE Settled(t)'
      <4>1. CASE t = x[1]
        BY <1>0, <2>3, <4>1 DEF Settled
      <4>2. CASE t # x[1]
        BY <1>00, <2>1, <2>2, <4>2, SettledSame
      <4> QED BY <4>1, <4>2
    <3> QED BY <3>1
  <2> QED BY <1>000, <2>4
<1>5. ASSUME Index(p) PROVE CountsRight'
  <2>1. Frame({p}, {})
    BY <1>0, <1>5, Frames
  <2>2. /\ pc[p] = "index" /\ pc'[p] = "recount" /\ due'[p] = {cur[p][1]} /\ due[p] = {}
        /\ spoiled' = spoiled
    BY <1>0, <1>5 DEF Index, PointOK
  <2>3. Owed(p) \subseteq Owed(p)'
    BY <2>2 DEF Owed
  <2> QED BY <1>00, <1>000, <2>1, <2>2, <2>3, SettledSame
<1>6. ASSUME NEW t \in Tags, Load(p, t) PROVE CountsRight'
  <2>1. Frame({p}, {})
    BY <1>0, <1>6, Frames
  <2>2. /\ pc[p] = "recount" /\ Owed(p) = due[p] /\ due[p] \ {t} \subseteq due'[p]
        /\ spoiled' = spoiled /\ tag' = tag
        /\ tag[t] # None => pc'[p] = "count" /\ tg'[p] = t
    BY <1>6 DEF Load, Owed
  <2>3. due'[p] \subseteq Owed(p)' /\ (tag[t] # None => t \in Owed(p)')
    BY <2>2 DEF Owed
  <2>4. \A u \in Tags \ {t} : Settled(u)'
    BY <1>00, <2>1, <2>2, <2>3, SettledSame
  <2>5. \A u \in Tags : Settled(u)'
    <3>1. ASSUME NEW u \in Tags, u = t PROVE Settled(u)'
      BY <1>0, <2>2, <2>3, <3>1 DEF Settled
    <3> QED BY <2>4, <3>1
  <2> QED BY <1>000, <2>5
<1>7. ASSUME pc[p] \in {"count", "store"}, NEW T \in SUBSET {tg[p]}, Frame({p}, T), due' = due,
             tg[p] \in over[p] => spoiled' = spoiled \cup {tg[p]},
             tg[p] \notin over[p] => /\ spoiled' = spoiled \ {tg[p]}
                                     /\ tag'[tg[p]] = NumberOf(tg[p], rel')
      PROVE  CountsRight'
  <2>1. tg[p] \in Tags /\ Owed(p) = due[p] \cup {tg[p]} /\ due[p] \subseteq Owed(p)'
    BY <1>0, <1>7 DEF Owed, PointOK, Loading
  <2>2. \A u \in Tags \ {tg[p]} : Settled(u)'
    BY <1>00, <1>7, <2>1, SettledSame
  <2>3. ASSUME NEW t \in Tags, t = tg[p] PROVE Settled(t)'
    <3>1. CASE tg[p] \in over[p]
      BY <1>7, <2>3, <3>1 DEF Settled
    <3>2. CASE tg[p] \notin over[p]
      BY <1>7, <2>3, <3>2 DEF Settled
    <3> QED BY <3>1, <3>2
  <2>4. \A u \in Tags : Settled(u)'
    BY <2>2, <2>3
  <2> QED BY <1>000, <2>4
<1>8. ASSUME Count(p) PROVE CountsRight'
  <2>1. Frame({p}, {}) /\ rel' = rel /\ tag' = tag /\ pc[p] = "count"
    BY <1>0, <1>8, Frames DEF Count
  <2>2. CASE NumberOf(tg[p], rel) = rec[p]
    <3>1. Recounted(p) /\ due' = due
      BY <1>8, <2>2, Zenon DEF Count
    <3>2. tg[p] \notin over[p] => tag'[tg[p]] = NumberOf(tg[p], rel')
      BY <1>0, <2>1, <2>2 DEF LoadedOK, Loading
    <3> QED BY <1>7, <2>1, <3>1, <3>2 DEF Recounted
  <2>3. CASE NumberOf(tg[p], rel) # rec[p]
    <3>1. GoTo(p, "store") /\ UNCHANGED <<req, due, tg, rec, over, spoiled>>
      BY <1>8, <2>3, Zenon DEF Count
    <3>2. pc[p] = "count" /\ pc'[p] = "store" /\ due' = due /\ tg' = tg /\ spoiled' = spoiled
      BY <2>1, <3>1
    <3>3. Owed(p) \subseteq Owed(p)'
      BY <3>2 DEF Owed
    <3> QED BY <1>00, <1>000, <2>1, <3>2, <3>3, SettledSame
  <2> QED BY <2>2, <2>3
<1>9. ASSUME Store(p) PROVE CountsRight'
  <2>1. Frame({p}, {tg[p]}) /\ rel' = rel /\ pc[p] = "store" /\ Recounted(p) /\ due' = due
    BY <1>0, <1>9, Frames DEF Store
  <2>2. tg[p] \in Tags /\ tag'[tg[p]] = n[p]
    BY <1>0, <1>9 DEF Store, PointOK, Loading
  <2>3. tg[p] \notin over[p] => tag'[tg[p]] = NumberOf(tg[p], rel')
    BY <1>0, <2>1, <2>2 DEF LoadedOK
  <2> QED BY <1>7, <2>1, <2>3 DEF Recounted
<1>10. ASSUME Save(p) PROVE CountsRight'
  <2>1. /\ Frame({p}, {tg[p]}) /\ rel' = rel /\ pc[p] = "save" /\ tg[p] \in Tags
        /\ tag' = [tag EXCEPT ![tg[p]] = rec[p]] /\ spoiled \subseteq spoiled'
        /\ tg[p] \in over[p] => tg[p] \in spoiled'
    BY <1>0, <1>10, Frames DEF Save, PointOK, Loading
  <2>2. Owed(p) = {}
    BY <1>0, <2>1 DEF Owed, PointOK
  <2>3. \A u \in Tags \ {tg[p]} : Settled(u)'
    BY <1>00, <2>1, <2>2, SettledSame
  <2>4. CASE tg[p] \in over[p]
    <3>1. ASSUME NEW t \in Tags, t = tg[p] PROVE Settled(t)'
      BY <2>1, <2>4, <3>1 DEF Settled
    <3> QED BY <1>000, <2>3, <3>1
  <2>5. CASE tg[p] \notin over[p]
    <3>1. tag[tg[p]] = rec[p]
      BY <1>0, <2>1, <2>5 DEF LoadedOK, Loading
    <3>2. tag' = tag
      BY <2>1, <3>1
    <3>3. \A q \in Actors \ {p} : Owed(q)' = Owed(q)
      BY <2>1, OwedSame DEF Frame
    <3>4. \A t \in Tags : NumberOf(t, rel)' = NumberOf(t, rel)
      BY <2>1
    <3>5. \A t \in Tags : Settled(t)'
      BY <1>00, <2>1, <2>2, <3>2, <3>3, <3>4 DEF Settled
    <3> QED BY <1>000, <3>5
  <2> QED BY <2>4, <2>5
<1>11. ASSUME Drop(p) PROVE CountsRight'
  <2>1. /\ Frame({p}, TagsOf(req[p].drops)) /\ pc[p] = "drop" /\ spoiled' = spoiled
        /\ TagsOf(req[p].drops) \subseteq due'[p]
    BY <1>0, <1>11, Frames DEF Drop
  <2>2. Owed(p) = {} /\ TagsOf(req[p].drops) \subseteq Owed(p)'
    BY <1>0, <2>1 DEF Owed, PointOK
  <2>3. \A t \in Tags \ TagsOf(req[p].drops) : Settled(t)'
    BY <1>00, <2>1, <2>2, SettledSame
  <2>4. \A t \in TagsOf(req[p].drops) : Settled(t)'
    BY <1>0, <2>2 DEF Settled
  <2>5. \A t \in Tags : Settled(t)'
    BY <2>3, <2>4
  <2> QED BY <1>000, <2>5
<1>12. ASSUME Erase(p) PROVE CountsRight'
  <2>1. Frame({p}, req[p].ts) /\ pc[p] = "erase" /\ spoiled' = spoiled
    BY <1>0, <1>12, Frames DEF Erase
  <2>2. Owed(p) = {}
    BY <1>0, <2>1 DEF Owed, PointOK
  <2>3. \A t \in Tags \ req[p].ts : Settled(t)'
    BY <1>00, <2>1, <2>2, SettledSame
  <2>4. \A t \in Tags : t \in req[p].ts => tag'[t] = None
    BY <1>12 DEF Erase
  <2>5. \A t \in Tags : Settled(t)'
    BY <2>3, <2>4 DEF Settled
  <2> QED BY <1>000, <2>5
<1> HIDE DEF Typed, TypeOK, db, recount, rebuild, GoTo
<1> QED BY <1>2, <1>3, <1>4, <1>5, <1>6, <1>8, <1>9, <1>10, <1>11, <1>12 DEF Step

(* Counts after a step of the rebuild.                                     *)
LEMMA CountsRebuild ==
  ASSUME Typed, Informed, CountsRight, Rebuild
  PROVE  CountsRight'
<1> DEFINE R == Rebuilder
<1> USE Values DEF Typed, TypeOK, db, recount, rebuild, GoTo
<1>0. TypeOK /\ PointOK(R) /\ TalliedOK /\ \A q \in Actors : PointOK(q)
  BY DEF Informed
<1>00. \A t \in Tags : Settled(t)
  BY DEF Settled, CountsRight
<1>000. (\A t \in Tags : Settled(t)') => CountsRight'
  BY DEF Settled, CountsRight
<1>1. ASSUME NEW K, SweepStart(K) PROVE CountsRight'
  <2>1. Frame({R}, {}) /\ pc[R] = "idle" /\ spoiled' = spoiled
    BY <1>0, <1>1, Frames DEF SweepStart, Begin
  <2>2. Owed(R) = {}
    BY <1>0, <2>1 DEF Owed, PointOK
  <2> QED BY <1>00, <1>000, <2>1, <2>2, SettledSame
<1>2. ASSUME Sweep PROVE CountsRight'
  <2>1. pc'[R] = "tally"
    BY <1>2 DEF Sweep
  <2>2. \A t \in Tags : t \in Owed(R)'
    BY <2>1 DEF Owed
  <2> QED BY <1>000, <2>2 DEF Settled
<1>3. ASSUME Tally PROVE CountsRight'
  <2>1. pc'[R] = "snapshot"
    BY <1>3 DEF Tally
  <2>2. \A t \in Tags : t \in Owed(R)'
    BY <2>1 DEF Owed
  <2> QED BY <1>000, <2>2 DEF Settled
<1>4. ASSUME Snapshot PROVE CountsRight'
  <2>1. due'[R] = {t \in Tags : tag[t] # None} /\ tag' = tag
    BY <1>4 DEF Snapshot
  <2>2. \A t \in Tags : tag'[t] # None => t \in Owed(R)'
    BY <2>1 DEF Owed
  <2> QED BY <1>000, <2>2 DEF Settled
<1>5. ASSUME Rebuilt PROVE CountsRight'
  <2>1. Frame({R}, {}) /\ pc[R] = "restore" /\ due[R] = {} /\ spoiled' = spoiled
    BY <1>0, <1>5, Frames DEF Rebuilt
  <2>2. Owed(R) = {}
    BY <1>0, <2>1 DEF Owed, PointOK
  <2> QED BY <1>00, <1>000, <2>1, <2>2, SettledSame
<1>6. ASSUME NEW t \in Tags, RestoreCount(t) PROVE CountsRight'
  <2> DEFINE T == IF seen[t] = tally[t] THEN {} ELSE {t}
  <2>1. /\ Frame({R}, T) /\ pc[R] = "restore" /\ pc'[R] = "restore" /\ rel' = rel
        /\ due'[R] = due[R] \ {t} /\ spoiled \ {t} \subseteq spoiled' /\ t \in due[R]
        /\ t \in over[R] => t \in spoiled'
        /\ tag' = IF seen[t] = tally[t] THEN tag ELSE [tag EXCEPT ![t] = tally[t]]
    BY <1>0, <1>6, Frames DEF RestoreCount
  <2>2. \A u \in Tags \ {t} : u \in Owed(R) => u \in Owed(R)'
    BY <2>1 DEF Owed
  <2>3. \A u \in Tags \ {t} : Settled(u)'
    BY <1>00, <2>1, <2>2, SettledSame
  <2>4. t \notin over[R] => tag'[t] = NumberOf(t, rel')
    BY <1>0, <2>1 DEF TalliedOK
  <2>5. Settled(t)'
    BY <2>1, <2>4 DEF Settled
  <2>6. \A u \in Tags : Settled(u)'
    BY <2>3, <2>5
  <2> QED BY <1>000, <2>6
<1> HIDE DEF Typed, TypeOK, db, recount, rebuild, GoTo
<1> QED BY <1>1, <1>2, <1>3, <1>4, <1>5, <1>6 DEF Rebuild

(* Whoever gives up leaves the counts it owed as overtaken.                *)
LEMMA CountsRest ==
  ASSUME Typed, CountsRight,
         (\E t \in Tags : CreateTag(t)) \/ (\E p \in Actors : Fail(p)) \/ Restart
  PROVE  CountsRight'
<1> USE DEF Typed, TypeOK, db, recount, rebuild
<1>0. TypeOK /\ \A q \in Actors : PointOK(q)
  OBVIOUS
<1>00. \A t \in Tags : Settled(t)
  BY DEF Settled, CountsRight
<1>000. (\A t \in Tags : Settled(t)') => CountsRight'
  BY DEF Settled, CountsRight
<1>1. ASSUME NEW t \in Tags, CreateTag(t) PROVE CountsRight'
  <2>1. Frame({}, {t})
    BY <1>0, <1>1, Frames
  <2>2. \A u \in Tags \ {t} : Settled(u)'
    BY <1>00, <1>1, <2>1, SettledSame DEF CreateTag
  <2>3. tag'[t] = NumberOf(t, rel')
    <3>1. \A k \in Keys : <<t, k>> \notin rel'
      BY <1>1 DEF CreateTag, KnownIds
    <3>2. KeysOf(t, rel') = {}
      BY <3>1 DEF KeysOf
    <3>3. NumberOf(t, rel') = 0
      BY <3>2, FS_EmptySet DEF NumberOf
    <3> QED BY <1>1, <3>3 DEF CreateTag
  <2>4. Settled(t)'
    BY <2>3 DEF Settled
  <2>5. \A u \in Tags : Settled(u)'
    BY <2>2, <2>4
  <2> QED BY <1>000, <2>5
<1>2. ASSUME NEW A \in SUBSET Actors, Abandon(A), Frame(A, {})
      PROVE  CountsRight'
  <2>1. spoiled' = spoiled \cup {t \in Tags : \E p \in A : t \in Owed(p)}
    BY <1>2 DEF Abandon
  <2> QED BY <1>00, <1>000, <1>2, <2>1, SettledSame
<1>3. ASSUME NEW p \in Actors, Fail(p) PROVE CountsRight'
  BY <1>0, <1>2, <1>3, Frames DEF Fail
<1>4. ASSUME Restart PROVE CountsRight'
  BY <1>0, <1>2, <1>4, Frames DEF Restart
<1> HIDE DEF Typed, TypeOK, db, recount, rebuild
<1> QED BY <1>1, <1>3, <1>4

(***************************************************************************)
(* The theorems.                                                           *)
(***************************************************************************)
IInv == Typed /\ Informed /\ Halves /\ CountsRight

(* Nothing is written and nobody at work in an initial state.              *)
LEMMA InitInv == Init => IInv
<1> SUFFICES ASSUME Init PROVE IInv
  OBVIOUS
<1>1. Typed
  BY TypedInit
<1>2. /\ rel = {} /\ rev = {} /\ \A p \in Actors : pc[p] = "idle"
      /\ \A p \in Actors : due[p] = {}
  BY DEF Init
<1>3. (\A p \in Actors : LoadedOK(p)) /\ TalliedOK
  BY <1>2, Values DEF LoadedOK, TalliedOK, Loading
<1>4. Halves
  BY <1>2 DEF Halves, HalvesKnown, IndexAgrees
<1>5. \A t \in Tags : NumberOf(t, rel) = 0
  <2>1. \A t \in Tags : KeysOf(t, rel) = {}
    BY <1>2 DEF KeysOf
  <2> QED BY <2>1, FS_EmptySet DEF NumberOf
<1>6. CountsRight
  BY <1>5 DEF Init, CountsRight
<1> QED BY <1>1, <1>3, <1>4, <1>6 DEF IInv, Informed, Typed, Halves

(* Every step preserves what is known, the two keys and the counts.        *)
LEMMA NextInv == IInv /\ [Next]_vars => IInv'
<1> SUFFICES ASSUME IInv, [Next]_vars PROVE IInv'
  OBVIOUS
<1>1. Typed /\ Informed /\ Halves /\ CountsRight
  BY DEF IInv
<1>2. CASE Next
  <2>1. TypeOK'
    BY <1>1, <1>2, TypeStep
  <2>2. (\A q \in Actors : PointOK(q)' /\ LoadedOK(q)') /\ TalliedOK'
    BY <1>1, <1>2, <2>1, KnowledgeStep
  <2>3. KnownIds'
    BY <1>1, <1>2, KnownStep
  <2>4. Halves'
    BY <1>1, <1>2, HalvesStep
  <2>5. CountsRight'
    BY <1>1, <1>2, CountsStep, CountsRebuild, CountsRest DEF Next
  <2> QED BY <2>1, <2>2, <2>3, <2>4, <2>5 DEF IInv, Typed, Informed, Halves
<1>3. CASE UNCHANGED vars
  <2> USE <1>3 DEF vars
  <2>1. TypeOK' /\ (\A p \in Actors : PointOK(p)') /\ KnownIds'
    BY <1>1 DEF Typed, TypeOK, PointOK, KnownIds
  <2>2. (\A p \in Actors : LoadedOK(p)') /\ TalliedOK'
    BY <1>1 DEF Informed, LoadedOK, TalliedOK, NumberOf, KeysOf
  <2>3. HalvesKnown' /\ IndexAgrees'
    BY <1>1 DEF Halves, HalvesKnown, IndexAgrees
  <2>4. CountsRight'
    BY <1>1 DEF CountsRight, NumberOf, KeysOf, Owed
  <2> QED BY <2>1, <2>2, <2>3, <2>4 DEF IInv, Typed, Informed, Halves
<1> QED BY <1>2, <1>3

(* The inductive invariant.                                                *)
LEMMA Invariant == Spec => []IInv
BY InitInv, NextInv, PTL DEF Spec

(* The variables of the tags have their types, the locals of requests that *)
(* are under way included.                                                 *)
THEOREM TypeCorrect == Spec => []TypeOK
<1>1. IInv => TypeOK
  BY DEF IInv, Typed
<1> QED BY <1>1, Invariant, PTL

(* What an actor loaded or counted is still so, unless a write of another  *)
(* one overtook it.                                                        *)
THEOREM AlwaysInformed == Spec => []Informed
<1>1. IInv => Informed
  BY DEF IInv
<1> QED BY <1>1, Invariant, PTL

(* A stored count is wrong only while someone has to count, or after a     *)
(* count that was overtaken or cut short (docs/tags.md:32).                *)
THEOREM CountsAlwaysRight == Spec => []CountsRight
<1>1. IInv => CountsRight
  BY DEF IInv
<1> QED BY <1>1, Invariant, PTL

(* The two keys of a pair agree, unless someone is between them or was     *)
(* overtaken there (SaveTagRelation).                                      *)
THEOREM IndexAlwaysAgrees == Spec => []IndexAgrees
<1>1. IInv => IndexAgrees
  BY DEF IInv, Halves
<1> QED BY <1>1, Invariant, PTL

(* A deleted tag comes back only by a request that was overtaken by the    *)
(* deletion: one that loads the record later leaves it alone.              *)
THEOREM DeletedAlwaysStays == Spec => DeletedStaysDeleted
<1> DEFINE Stays == \A t \in used : tag[t] = None /\ tag'[t] # None =>
             \E p \in Actors : t \in over[p] /\ pc[p] \in {"store", "save", "restore"}
<1>1. IInv /\ [Next]_vars => [Stays]_vars
  <2> SUFFICES ASSUME IInv, Next, NEW t \in used, tag[t] = None, tag'[t] # None
               PROVE  \E p \in Actors : t \in over[p] /\ pc[p] \in {"store", "save", "restore"}
    OBVIOUS
  <2> USE Values DEF db
  <2>0. /\ TypeOK /\ t \in Tags /\ TalliedOK
        /\ \A p \in Actors : PointOK(p) /\ LoadedOK(p)
    BY DEF IInv, Typed, Informed, TypeOK
  <2>1. ASSUME NEW p \in Procs, Store(p) \/ Save(p)
        PROVE  t \in over[p] /\ pc[p] \in {"store", "save", "restore"}
    <3>1. tg[p] = t /\ pc[p] \in {"store", "save"}
      BY <2>0, <2>1 DEF Store, Save, TypeOK
    <3>2. t \notin over[p] => tag[t] = rec[p] /\ rec[p] \in Nat
      BY <2>0, <2>1, <3>1 DEF LoadedOK, PointOK, Loading
    <3> QED BY <3>1, <3>2
  <2>2. ASSUME NEW p \in Procs, Request(p) PROVE FALSE
    BY <2>2 DEF Request, AddTo, Remove, Update, ItemGone, DeleteTag, Rename
  <2>3. ASSUME NEW p \in Procs, Step(p), ~(Store(p) \/ Save(p)) PROVE FALSE
    <3>1. ASSUME NEW u \in Tags, NextTag(p, u) PROVE tag' = tag
      BY <3>1 DEF NextTag
    <3>2. ASSUME NEW u \in Tags, Load(p, u) PROVE tag' = tag
      BY <3>2 DEF Load
    <3>3. ASSUME NEW x \in Pairs, Primary(p, x) PROVE tag' = tag
      BY <3>3 DEF Primary
    <3>4. ASSUME Index(p) \/ Drop(p) PROVE tag' = tag
      BY <3>4 DEF Index, Drop
    <3>5. ASSUME Count(p) PROVE tag' = tag
      BY <3>5 DEF Count
    <3>6. ASSUME Erase(p) PROVE tag'[t] = None
      BY <2>0, <3>6 DEF Erase
    <3> QED BY <2>3, <3>1, <3>2, <3>3, <3>4, <3>5, <3>6 DEF Step
  <2>4. ASSUME NEW u \in Tags, CreateTag(u) PROVE FALSE
    BY <2>0, <2>4 DEF CreateTag, TypeOK
  <2>5. ASSUME NEW u \in Tags, RestoreCount(u)
        PROVE  t \in over[Rebuilder] /\ pc[Rebuilder] = "restore"
    <3>1. u = t /\ pc[Rebuilder] = "restore" /\ t \in due[Rebuilder]
      BY <2>0, <2>5 DEF RestoreCount, TypeOK
    <3> QED BY <2>0, <3>1 DEF TalliedOK
  <2>6. ASSUME Rebuild, ~\E u \in Tags : RestoreCount(u) PROVE FALSE
    BY <2>6 DEF Rebuild, SweepStart, Sweep, Tally, Snapshot, Rebuilt
  <2>7. ASSUME NEW p \in Actors, Fail(p) PROVE FALSE
    BY <2>7 DEF Fail
  <2>8. ASSUME Restart PROVE FALSE
    BY <2>8 DEF Restart
  <2> QED BY <2>1, <2>2, <2>3, <2>4, <2>5, <2>6, <2>7, <2>8 DEF Next
<1> QED BY <1>1, Invariant, PTL DEF Spec, DeletedStaysDeleted
=============================================================================
