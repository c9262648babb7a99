-------------------------------- MODULE Tags --------------------------------
(***************************************************************************)
(* The tags of PlainNAS (internal/db/tag.go, internal/graph/tags_api.go).  *)
(*                                                                         *)
(* A tag is a record with a stored count; that an item has a tag is a pair *)
(* of keys, one by tag and one by item.  Requests write the two keys of a  *)
(* pair one after the other, delete pairs in one batch, and then count     *)
(* each tag they touched: load the record, count the keys, store the       *)
(* record.  Nothing is locked: every action is one call to the database,   *)
(* and those of other requests come in between.                            *)
(***************************************************************************)
EXTENDS Naturals, FiniteSets

CONSTANTS
    Tags,       \* ids of tags
    Keys,       \* items, by their media UUID
    Procs,      \* request handlers
    Rebuilder,  \* the cleanup that follows the rescan after a reset
    MaxRequests, \* bound on the requests and cleanups of a behaviour
    Faults,     \* whether calls may fail and the process may restart
    None

Actors == Procs \cup {Rebuilder}
Pairs == Tags \X Keys

ASSUME RebuilderAssumption == Rebuilder \notin Procs
ASSUME KeysAssumption == IsFiniteSet(Keys)
ASSUME NoneAssumption == None \notin Nat \cup Tags \cup Pairs
ASSUME BoundAssumption == MaxRequests \in Nat
ASSUME FaultsAssumption == Faults \in BOOLEAN

VARIABLES
    tag,         \* Count of tag:<id>, None if there is no record
    used,        \* ids handed out by shortid.New
    rel,         \* tag_relation:<tag>:<key>
    rev,         \* tag_relation_key:<key>:<tag>
    begun,       \* requests and cleanups so far
    pc,          \* each actor's control point
    req,         \* what is left of its request
    due,         \* tags it has still to count
    tg, rec, n,  \* RecomputeTagCount: tag, Count as loaded, keys counted
    cur,         \* SaveTagRelation: the pair whose first key is written
    tally, seen, \* RebuildAllTagCounts: counts, and records as iterated
    over,        \* history: tags written by others since the actor's load
    spoiled,     \* history: tags whose last count was overtaken or cut short
    torn         \* history: pairs deleted or given up between their two keys

db == <<tag, used, rel, rev>>
recount == <<tg, rec, n>>
rebuild == <<tally, seen>>
vars == <<tag, used, rel, rev, begun, pc, req, due, tg, rec, n, cur, tally, seen,
          over, spoiled, torn>>

Ops == {"none", "addTo", "update", "remove", "item", "delete", "rename", "rebuild"}

Points == {"idle", "tag", "primary", "index", "recount", "count", "store",
           "drop", "erase", "save", "tally", "snapshot", "restore"}

(* A request: tags left to add, items, pairs left to save, pairs to        *)
(* delete, and whether the tag just saved is to be counted once more.      *)
Requests == [op : Ops, ts : SUBSET Tags, ks : SUBSET Keys,
             pairs : SUBSET Pairs, drops : SUBSET Pairs, again : BOOLEAN]

NoRequest == [op |-> "none", ts |-> {}, ks |-> {}, pairs |-> {}, drops |-> {},
              again |-> FALSE]

KeysOf(t, r) == {k \in Keys : <<t, k>> \in r}
TagsOf(r) == {t \in Tags : \E k \in Keys : <<t, k>> \in r}

(* The number of relations of a tag, docs/tags.md's number_of.             *)
NumberOf(t, r) == Cardinality(KeysOf(t, r))

Init ==
    /\ used \in SUBSET Tags
    /\ tag = [t \in Tags |-> IF t \in used THEN 0 ELSE None]
    /\ rel = {}
    /\ rev = {}
    /\ begun = 0
    /\ pc = [p \in Actors |-> "idle"]
    /\ req = [p \in Actors |-> NoRequest]
    /\ due = [p \in Actors |-> {}]
    /\ tg = [p \in Actors |-> None]
    /\ rec = [p \in Actors |-> None]
    /\ n = [p \in Actors |-> 0]
    /\ cur = [p \in Actors |-> None]
    /\ tally = [t \in Tags |-> 0]
    /\ seen = [t \in Tags |-> None]
    /\ over = [p \in Actors |-> {}]
    /\ spoiled = {}
    /\ torn = {}

(***************************************************************************)
(* Control.                                                                *)
(***************************************************************************)
GoTo(p, point) == pc' = [pc EXCEPT ![p] = point]

(* Where a request goes on when it has counted what it had to.             *)
After(p) ==
    LET q == req[p] IN
    CASE q.op = "delete" -> "erase"
      [] q.op # "delete" /\ q.pairs # {} -> "primary"
      [] q.op # "delete" /\ q.pairs = {} /\ q.ts # {} -> "tag"
      [] q.op # "delete" /\ q.pairs = {} /\ q.ts = {} /\ q.drops # {} -> "drop"
      [] OTHER -> "idle"

Proceed(p) ==
    LET next == IF due'[p] # {} THEN "recount" ELSE After(p) IN
    /\ GoTo(p, next)
    /\ req' = IF next = "idle" THEN [req EXCEPT ![p] = NoRequest] ELSE req

(* The tags whose loaded record or counted keys an actor relies on.        *)
Loaded(q) ==
    IF q = Rebuilder THEN IF pc[q] \in {"snapshot", "restore"} THEN Tags ELSE {}
    ELSE IF pc[q] \in {"count", "store", "save"} THEN {tg[q]} ELSE {}

(* A write to the tags T or to their relations overtakes whoever else      *)
(* relies on one of them.                                                  *)
Touch(p, T) ==
    over' = [q \in Actors |-> IF q = p THEN over[q]
                               ELSE over[q] \cup (T \cap Loaded(q))]

(***************************************************************************)
(* Requests.                                                               *)
(***************************************************************************)
Begin(p, q) ==
    /\ pc[p] = "idle"
    /\ begun < MaxRequests
    /\ begun' = begun + 1
    /\ req' = [req EXCEPT ![p] = q]

(* addToTags(tagIds, query).                                               *)
AddTo(p, T, K) ==
    /\ Begin(p, [NoRequest EXCEPT !.op = "addTo", !.ts = T, !.ks = K])
    /\ GoTo(p, "tag")
    /\ UNCHANGED <<db, due, recount, cur, rebuild, over, spoiled, torn>>

(* updateTagRelations(item, addTagIds, removeTagIds).                      *)
Update(p, k, T, R) ==
    /\ T # {} \/ R # {}
    /\ Begin(p, [NoRequest EXCEPT !.op = "update", !.ts = T, !.ks = {k},
                                  !.drops = R \X {k}])
    /\ GoTo(p, IF T # {} THEN "tag" ELSE "drop")
    /\ UNCHANGED <<db, due, recount, cur, rebuild, over, spoiled, torn>>

(* removeFromTags(tagIds, query), and DeleteTagRelationsByKeysAndTagIDs    *)
(* before its batch.                                                       *)
Remove(p, T, K) ==
    /\ Begin(p, [NoRequest EXCEPT !.op = "remove", !.drops = T \X K])
    /\ GoTo(p, "drop")
    /\ UNCHANGED <<db, due, recount, cur, rebuild, over, spoiled, torn>>

(* DeleteTagRelationsByKeys, called when an item is trashed or deleted,    *)
(* up to its batch: the pairs come from the index by item.                 *)
ItemGone(p, k) ==
    LET found == {x \in rev : x[2] = k} IN
    /\ found # {}
    /\ Begin(p, [NoRequest EXCEPT !.op = "item", !.drops = found])
    /\ GoTo(p, "drop")
    /\ UNCHANGED <<db, due, recount, cur, rebuild, over, spoiled, torn>>

(* deleteTag, up to the batch of DeleteTagRelationsByTagID.                *)
DeleteTag(p, t) ==
    /\ Begin(p, [NoRequest EXCEPT !.op = "delete", !.ts = {t},
                                  !.drops = {x \in rel : x[1] = t}])
    /\ GoTo(p, "drop")
    /\ UNCHANGED <<db, due, recount, cur, rebuild, over, spoiled, torn>>

(* createTag: a record under a new id.                                     *)
CreateTag(t) ==
    /\ t \notin used
    /\ used' = used \cup {t}
    /\ tag' = [tag EXCEPT ![t] = 0]
    /\ over' = [q \in Actors |-> over[q] \cup ({t} \cap Loaded(q))]
    /\ UNCHANGED <<rel, rev, begun, pc, req, due, recount, cur, rebuild, spoiled,
                   torn>>

(* updateTag: AddOrUpdateTag loads the record to change its name.          *)
Rename(p, t) ==
    /\ tag[t] # None
    /\ Begin(p, [NoRequest EXCEPT !.op = "rename"])
    /\ GoTo(p, "save")
    /\ tg' = [tg EXCEPT ![p] = t]
    /\ rec' = [rec EXCEPT ![p] = tag[t]]
    /\ UNCHANGED <<db, due, n, cur, rebuild, over, spoiled, torn>>

(***************************************************************************)
(* SaveTagRelations: per pair two keys and a count, and one more count.    *)
(***************************************************************************)
(* The next tag; addToTags leaves out the items that have it already.      *)
NextTag(p, t) ==
    LET new == IF req[p].op = "addTo" THEN req[p].ks \ KeysOf(t, rel) ELSE req[p].ks
        left == [req[p] EXCEPT !.ts = @ \ {t}, !.pairs = {t} \X new]
    IN
    /\ pc[p] = "tag"
    /\ t \in req[p].ts
    /\ IF new = {} /\ left.ts = {}
       THEN GoTo(p, "idle") /\ req' = [req EXCEPT ![p] = NoRequest]
       ELSE /\ GoTo(p, IF new = {} THEN "tag" ELSE "primary")
            /\ req' = [req EXCEPT ![p] = left]
    /\ UNCHANGED <<begun, db, due, recount, cur, rebuild, over, spoiled, torn>>

(* SaveTagRelation writes the key by tag ...                               *)
Primary(p, x) ==
    /\ pc[p] = "primary"
    /\ x \in req[p].pairs
    /\ rel' = rel \cup {x}
    /\ cur' = [cur EXCEPT ![p] = x]
    /\ torn' = torn \ {x}
    /\ Touch(p, {x[1]})
    /\ GoTo(p, "index")
    /\ UNCHANGED <<begun, tag, used, rev, req, due, recount, rebuild, spoiled>>

(* Mutation for TypeOK: the pair is noted for counting instead of its tag. *)
IndexNotesPair(p) ==
    LET left == req[p].pairs \ {cur[p]} IN
    /\ pc[p] = "index"
    /\ rev' = rev \cup {cur[p]}
    /\ due' = [due EXCEPT ![p] = {cur[p]}]
    /\ req' = [req EXCEPT ![p].pairs = left, ![p].again = (left = {})]
    /\ cur' = [cur EXCEPT ![p] = None]
    /\ GoTo(p, "recount")
    /\ UNCHANGED <<begun, tag, used, rel, recount, rebuild, over, spoiled, torn>>

(* ... and the key by item.                                                *)
Index(p) ==
    LET left == req[p].pairs \ {cur[p]} IN
    /\ pc[p] = "index"
    /\ rev' = rev \cup {cur[p]}
    /\ due' = [due EXCEPT ![p] = {cur[p][1]}]
    /\ req' = [req EXCEPT ![p].pairs = left, ![p].again = (left = {})]
    /\ cur' = [cur EXCEPT ![p] = None]
    /\ GoTo(p, "recount")
    /\ UNCHANGED <<begun, tag, used, rel, recount, rebuild, over, spoiled, torn>>

(***************************************************************************)
(* RecomputeTagCount.                                                      *)
(***************************************************************************)
(* Mutation for DeletedStaysDeleted: a missing record counts as an empty   *)
(* one.                                                                    *)
LoadMissing(p, t) ==
    LET rest == IF req[p].again THEN due[p] ELSE due[p] \ {t} IN
    /\ p \in Procs
    /\ pc[p] = "recount"
    /\ t \in due[p]
    /\ due' = [due EXCEPT ![p] = rest]
    /\ GoTo(p, "count")
    /\ req' = [req EXCEPT ![p].again = FALSE]
    /\ tg' = [tg EXCEPT ![p] = t]
    /\ rec' = [rec EXCEPT ![p] = IF tag[t] # None THEN tag[t] ELSE 0]
    /\ UNCHANGED <<begun, db, n, cur, rebuild, over, spoiled, torn>>

(* A tag without a record is not counted.                                  *)
Load(p, t) ==
    LET rest == IF req[p].again THEN due[p] ELSE due[p] \ {t}
        next == IF tag[t] # None THEN "count"
                ELSE IF rest # {} THEN "recount" ELSE After(p)
    IN
    /\ p \in Procs
    /\ pc[p] = "recount"
    /\ t \in due[p]
    /\ due' = [due EXCEPT ![p] = rest]
    /\ GoTo(p, next)
    /\ req' = [req EXCEPT ![p] = IF next = "idle" THEN NoRequest
                                 ELSE [@ EXCEPT !.again = FALSE]]
    /\ IF tag[t] # None
       THEN tg' = [tg EXCEPT ![p] = t] /\ rec' = [rec EXCEPT ![p] = tag[t]]
       ELSE UNCHANGED <<tg, rec>>
    /\ UNCHANGED <<begun, db, n, cur, rebuild, over, spoiled, torn>>

(* The end of a count: what overtook it may have made it wrong.            *)
Recounted(p) ==
    /\ spoiled' = IF tg[p] \in over[p] THEN spoiled \cup {tg[p]}
                                       ELSE spoiled \ {tg[p]}
    /\ tg' = [tg EXCEPT ![p] = None]
    /\ rec' = [rec EXCEPT ![p] = None]
    /\ n' = [n EXCEPT ![p] = 0]

(* A count that is the stored one is not stored again.                     *)
Count(p) ==
    LET found == NumberOf(tg[p], rel) IN
    /\ pc[p] = "count"
    /\ IF found = rec[p]
       THEN /\ Recounted(p)
            /\ over' = [over EXCEPT ![p] = {}]
            /\ UNCHANGED due
            /\ Proceed(p)
       ELSE /\ n' = [n EXCEPT ![p] = found]
            /\ GoTo(p, "store")
            /\ UNCHANGED <<req, due, tg, rec, over, spoiled>>
    /\ UNCHANGED <<begun, db, cur, rebuild, torn>>

(* SaveTag writes the whole record, whatever became of it since.           *)
Store(p) ==
    /\ pc[p] = "store"
    /\ tag' = [tag EXCEPT ![tg[p]] = n[p]]
    /\ Recounted(p)
    /\ over' = [q \in Actors |-> IF q = p THEN {}
                                 ELSE over[q] \cup ({tg[p]} \cap Loaded(q))]
    /\ UNCHANGED due
    /\ Proceed(p)
    /\ UNCHANGED <<begun, used, rel, rev, cur, rebuild, torn>>

(* AddOrUpdateTag's SaveTag: the new name, and Count as it was loaded.     *)
Save(p) ==
    /\ pc[p] = "save"
    /\ tag' = [tag EXCEPT ![tg[p]] = rec[p]]
    /\ spoiled' = IF tg[p] \in over[p] THEN spoiled \cup {tg[p]} ELSE spoiled
    /\ over' = [q \in Actors |-> IF q = p THEN {}
                                 ELSE over[q] \cup ({tg[p]} \cap Loaded(q))]
    /\ tg' = [tg EXCEPT ![p] = None]
    /\ rec' = [rec EXCEPT ![p] = None]
    /\ GoTo(p, "idle")
    /\ req' = [req EXCEPT ![p] = NoRequest]
    /\ UNCHANGED <<begun, used, rel, rev, due, n, cur, rebuild, torn>>

(***************************************************************************)
(* Deletions: one batch for both keys of every pair.                       *)
(***************************************************************************)
(* Pairs that another actor has written one key of.                        *)
Midway(p) == {cur[q] : q \in {a \in Actors \ {p} : pc[a] = "index"}}

(* Mutation for IndexAgrees: only the keys by tag are deleted.             *)
DropPrimaryOnly(p) ==
    LET gone == req[p].drops IN
    /\ rel' = rel \ gone
    /\ rev' = rev
    /\ torn' = (torn \ gone) \cup (gone \cap Midway(p))
    /\ Touch(p, TagsOf(gone))

DropBatch(p) ==
    LET gone == req[p].drops IN
    /\ rel' = rel \ gone
    /\ rev' = rev \ gone
    /\ torn' = (torn \ gone) \cup (gone \cap Midway(p))
    /\ Touch(p, TagsOf(gone))

(* Mutation for CountsRight: what removeFromTags removed is not counted.   *)
DropUncounted(p) ==
    LET q == req[p]
        own == IF q.op = "delete" THEN q.ts ELSE {}
    IN
    /\ p \in Procs
    /\ pc[p] = "drop"
    /\ DropBatch(p)
    /\ due' = [due EXCEPT ![p] = own]
    /\ req' = [req EXCEPT ![p].drops = {}]
    /\ GoTo(p, IF own = {} THEN "idle" ELSE "recount")
    /\ UNCHANGED <<begun, tag, used, recount, cur, rebuild, spoiled>>

(* ... after which every tag concerned is counted.                         *)
Drop(p) ==
    LET q == req[p]
        own == IF q.op = "delete" THEN q.ts ELSE {}
    IN
    /\ p \in Procs
    /\ pc[p] = "drop"
    /\ DropBatch(p)
    /\ due' = [due EXCEPT ![p] = TagsOf(q.drops) \cup own]
    /\ req' = [req EXCEPT ![p].drops = {}]
    /\ GoTo(p, "recount")
    /\ UNCHANGED <<begun, tag, used, recount, cur, rebuild, spoiled>>

(* DeleteTag.                                                              *)
Erase(p) ==
    /\ pc[p] = "erase"
    /\ tag' = [t \in Tags |-> IF t \in req[p].ts THEN None ELSE tag[t]]
    /\ Touch(p, req[p].ts)
    /\ GoTo(p, "idle")
    /\ req' = [req EXCEPT ![p] = NoRequest]
    /\ UNCHANGED <<begun, used, rel, rev, due, recount, cur, rebuild, spoiled, torn>>

(***************************************************************************)
(* After a reset: relations of items that are no longer found go, and all  *)
(* counts are made anew (the end of ScanAndSync, RebuildAllTagCounts).     *)
(***************************************************************************)
SweepStart(K) ==
    /\ Begin(Rebuilder, [NoRequest EXCEPT !.op = "rebuild",
                                          !.drops = {x \in rev : x[2] \in K}])
    /\ GoTo(Rebuilder, "drop")
    /\ UNCHANGED <<db, due, recount, cur, rebuild, over, spoiled, torn>>

Sweep ==
    /\ pc[Rebuilder] = "drop"
    /\ DropBatch(Rebuilder)
    /\ req' = [req EXCEPT ![Rebuilder].drops = {}]
    /\ GoTo(Rebuilder, "tally")
    /\ UNCHANGED <<begun, tag, used, due, recount, cur, rebuild, spoiled>>

(* One scan of the keys by tag counts them all ...                         *)
Tally ==
    /\ pc[Rebuilder] = "tally"
    /\ tally' = [t \in Tags |-> NumberOf(t, rel)]
    /\ GoTo(Rebuilder, "snapshot")
    /\ UNCHANGED <<begun, db, req, due, recount, cur, seen, over, spoiled, torn>>

(* ... and the records are iterated as they are when the iterator opens.   *)
Snapshot ==
    LET all == {t \in Tags : tag[t] # None} IN
    /\ pc[Rebuilder] = "snapshot"
    /\ seen' = tag
    /\ due' = [due EXCEPT ![Rebuilder] = all]
    /\ GoTo(Rebuilder, "restore")
    /\ UNCHANGED <<begun, db, req, recount, cur, tally, over, spoiled, torn>>

RestoreCount(t) ==
    /\ pc[Rebuilder] = "restore"
    /\ t \in due[Rebuilder]
    /\ due' = [due EXCEPT ![Rebuilder] = @ \ {t}]
    /\ tag' = IF seen[t] = tally[t] THEN tag ELSE [tag EXCEPT ![t] = tally[t]]
    /\ spoiled' = IF t \in over[Rebuilder] THEN spoiled \cup {t} ELSE spoiled \ {t}
    /\ Touch(Rebuilder, IF seen[t] = tally[t] THEN {} ELSE {t})
    /\ UNCHANGED <<begun, used, rel, rev, pc, req, recount, cur, rebuild, torn>>

Rebuilt ==
    /\ pc[Rebuilder] = "restore"
    /\ due[Rebuilder] = {}
    /\ GoTo(Rebuilder, "idle")
    /\ req' = [req EXCEPT ![Rebuilder] = NoRequest]
    /\ tally' = [t \in Tags |-> 0]
    /\ seen' = [t \in Tags |-> None]
    /\ over' = [over EXCEPT ![Rebuilder] = {}]
    /\ UNCHANGED <<begun, db, due, recount, cur, spoiled, torn>>

(***************************************************************************)
(* Failures.                                                               *)
(***************************************************************************)
(* The tags an actor has changed, or may have, and not counted yet.        *)
Owed(p) ==
    due[p] \cup {t \in Tags : \/ pc[p] \in {"count", "store"} /\ tg[p] = t
                              \/ pc[p] = "index" /\ cur[p][1] = t
                              \/ pc[p] \in {"tally", "snapshot"}}

HalfSaved(p) == IF pc[p] = "index" THEN {cur[p]} ELSE {}

(* What A's requests leave when they end where they are.                   *)
Abandon(A) ==
    /\ pc' = [p \in Actors |-> IF p \in A THEN "idle" ELSE pc[p]]
    /\ req' = [p \in Actors |-> IF p \in A THEN NoRequest ELSE req[p]]
    /\ due' = [p \in Actors |-> IF p \in A THEN {} ELSE due[p]]
    /\ tg' = [p \in Actors |-> IF p \in A THEN None ELSE tg[p]]
    /\ rec' = [p \in Actors |-> IF p \in A THEN None ELSE rec[p]]
    /\ n' = [p \in Actors |-> IF p \in A THEN 0 ELSE n[p]]
    /\ cur' = [p \in Actors |-> IF p \in A THEN None ELSE cur[p]]
    /\ over' = [p \in Actors |-> IF p \in A THEN {} ELSE over[p]]
    /\ spoiled' = spoiled \cup {t \in Tags : \E p \in A : t \in Owed(p)}
    /\ IF Rebuilder \in A
       THEN tally' = [t \in Tags |-> 0] /\ seen' = [t \in Tags |-> None]
       ELSE UNCHANGED rebuild

(* A call to the database fails, and the request returns the error.        *)
Fail(p) ==
    /\ Faults
    /\ pc[p] # "idle"
    /\ Abandon({p})
    /\ torn' = torn \cup HalfSaved(p)
    /\ UNCHANGED <<db, begun>>

(* The process restarts: EnsureTagRelationKeyIndex makes the index by item *)
(* anew, but only if there is nothing in it.                               *)
Restart ==
    /\ Faults
    /\ Abandon(Actors)
    /\ IF rev = {}
       THEN rev' = rel /\ torn' = {}
       ELSE rev' = rev /\ torn' = torn \cup {x \in Pairs : \E p \in Actors : x \in HalfSaved(p)}
    /\ UNCHANGED <<begun, tag, used, rel>>

NonEmpty(S) == SUBSET S \ {{}}

(* Requests name tags by the ids they were given, which may be deleted.    *)
Request(p) ==
    \/ \E T \in NonEmpty(used), K \in NonEmpty(Keys) : AddTo(p, T, K) \/ Remove(p, T, K)
    \/ \E k \in Keys, T, R \in SUBSET used : Update(p, k, T, R)
    \/ \E k \in Keys : ItemGone(p, k)
    \/ \E t \in used : DeleteTag(p, t) \/ Rename(p, t)

Step(p) ==
    \/ \E t \in Tags : NextTag(p, t) \/ Load(p, t)
    \/ \E x \in Pairs : Primary(p, x)
    \/ Index(p) \/ Count(p) \/ Store(p) \/ Save(p) \/ Drop(p) \/ Erase(p)

Rebuild ==
    \/ \E K \in SUBSET Keys : SweepStart(K)
    \/ Sweep \/ Tally \/ Snapshot \/ Rebuilt
    \/ \E t \in Tags : RestoreCount(t)

Next ==
    \/ \E p \in Procs : Request(p) \/ Step(p)
    \/ \E t \in Tags : CreateTag(t)
    \/ Rebuild
    \/ \E p \in Actors : Fail(p)
    \/ Restart

Spec == Init /\ [][Next]_vars

(***************************************************************************)
(* Properties.                                                             *)
(***************************************************************************)
(* The variables have their types.                                         *)
TypeOK ==
    /\ tag \in [Tags -> Nat \cup {None}]
    /\ used \in SUBSET Tags
    /\ rel \in SUBSET Pairs
    /\ rev \in SUBSET Pairs
    /\ begun \in Nat
    /\ pc \in [Actors -> Points]
    /\ req \in [Actors -> Requests]
    /\ due \in [Actors -> SUBSET Tags]
    /\ tg \in [Actors -> Tags \cup {None}]
    /\ rec \in [Actors -> Nat \cup {None}]
    /\ n \in [Actors -> Nat]
    /\ cur \in [Actors -> Pairs \cup {None}]
    /\ tally \in [Tags -> Nat]
    /\ seen \in [Tags -> Nat \cup {None}]
    /\ over \in [Actors -> SUBSET Tags]
    /\ spoiled \in SUBSET Tags
    /\ torn \in SUBSET Pairs

(* The stored count of a tag is the number of its relations, unless        *)
(* someone has yet to count it, or the last count of it was overtaken by   *)
(* another request or cut short: requests that do not overlap keep counts  *)
(* right, and one undisturbed count makes a wrong one right again.         *)
CountsRight ==
    \A t \in Tags :
        tag[t] # None /\ tag[t] # NumberOf(t, rel) =>
            t \in spoiled \/ \E p \in Actors : t \in Owed(p)

(* A pair has both of its keys or none, unless someone is about to write   *)
(* the second one, or it was deleted or given up at that moment.           *)
IndexAgrees ==
    \A x \in Pairs \ torn :
        /\ x \in rev => x \in rel
        /\ x \in rel \ rev => \E p \in Actors : pc[p] = "index" /\ cur[p] = x

(* A tag that was deleted comes back only by the hand of a request that    *)
(* had loaded its record before and was overtaken by the deletion.         *)
DeletedStaysDeleted ==
    [][\A t \in used : tag[t] = None /\ tag'[t] # None =>
           \E p \in Actors : t \in over[p] /\ pc[p] \in {"store", "save", "restore"}]_vars

(* docs/tags.md:32, "tag.count must be correct": between requests it is    *)
(* the number of the tag's relations.                                      *)
CountCorrect ==
    (\A p \in Actors : pc[p] = "idle") =>
        \A t \in Tags : tag[t] # None => tag[t] = NumberOf(t, rel)
=============================================================================
