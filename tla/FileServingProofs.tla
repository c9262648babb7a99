-------------------------- MODULE FileServingProofs -------------------------
(* What thumbnails and previews are made from, and what is served of them, *)
(* for every set of requests, contents and stamps and any number of        *)
(* changes.                                                                *)
EXTENDS FileServing, TLAPS

(***************************************************************************)
(* The inductive invariant.                                                *)
(***************************************************************************)
(* Points where a request holds the lock of its key, where it has the key  *)
(* of what the thumbnail is made from, and where it knows what to make it  *)
(* from.                                                                   *)
InLock == {"recheck", "convert", "rename", "copy"}
Sourced == {"load", "create", "queue", "alone"}
Looked == {"failed", "cached", "source", "frames"} \cup Sourced
Office == {"peek", "lock", "serve"} \cup InLock
Points == {"new", "look", "barren", "store", "original", "done"} \cup Looked \cup Office

(* The locals that a request needs where it is are set.                    *)
LocalsOK(r) ==
    /\ pc[r] \notin {"new", "done"} => key[r] \in Stamps
    /\ pc[r] \in Sourced \cup {"frames"} => src[r] \in Sources
    /\ pc[r] \in {"store", "rename", "copy"} => data[r] \in Versions
    /\ pc[r] = "serve" => previews[key[r]] \in Previews

Typed == TypeOK /\ pc \in [Requests -> Points] /\ \A r \in Requests : LocalsOK(r)

(* Whoever makes a preview holds the lock of its key, and starts to only   *)
(* if there is none.                                                       *)
Locked ==
    \A r \in Requests :
        /\ pc[r] \in InLock => holder[key[r]] = r
        /\ pc[r] = "convert" => ~Present(key[r])

(* A preview that is not whole is one that a copy left.                    *)
Whole(k) == previews[k].size = "whole" \/ k \in copied
WholeInv ==
    /\ \A k \in Stamps : previews[k] # None => Whole(k)
    /\ \A r \in Requests : pc[r] = "copy" => key[r] \in copied
    /\ \A r \in Requests : pc[r] = "serve" => Whole(key[r])
    /\ \A r \in Requests : ans[r] # None => pc[r] = "done"

(* The content that the key of a thumbnail should have the stamp of.       *)
Ref == IF side # None THEN side ELSE file

(* What may have no thumbnail.                                             *)
Barren(k) ==
    \/ k \in lost
    \/ \E v \in Versions \ Covered : Stamp[v] = k /\ (kind = "audio" \/ v \in Bare)

(* What a thumbnail is made from is what its key is of.                    *)
SourceRight(r) ==
    \/ src[r].at = "side" /\ side # None
    \/ src[r].at = "file" /\ side = None
    \/ src[r].at = "copy" /\ src[r].of = Ref

(* Unless a change overtook the key: a request on its way has the key of   *)
(* what there is now, what it has made has the stamp of the key, and a     *)
(* request that no change met has the key of what there is now also when   *)
(* it has looked for the last time.                                        *)
RequestRight(r) ==
    key[r] \notin overtaken =>
        /\ pc[r] \in {"look", "peek", "lock", "recheck", "convert"} =>
               file # None /\ key[r] = Stamp[file]
        /\ pc[r] \in Looked => Ref # None /\ key[r] = Stamp[Ref]
        /\ pc[r] \in Sourced \cup {"frames"} => SourceRight(r)
        /\ pc[r] = "frames" =>
               src[r].at = "file" /\ (key[r] \in lost \/ file \notin Covered)
        /\ pc[r] \in {"store", "rename", "copy"} => Stamp[data[r]] = key[r]
        /\ pc[r] = "barren" => Barren(key[r])
        /\ pc[r] = "serve" => Stamp[previews[key[r]].of] = key[r]
        /\ r \in calm /\ pc[r] \in {"store", "barren"} => key[r] = Stamp[Ref]
        /\ r \in calm /\ pc[r] \in {"rename", "copy", "serve"} => key[r] = Stamp[file]

(* ServesPresent for the answer of one request.                            *)
Answered(r) ==
    /\ ans[r].kind = "thumb" => Stamp[ans[r].of] = Stamp[Ref]
    /\ ans[r].kind \in {"pdf", "torn"} => Stamp[ans[r].of] = Stamp[file]
    /\ ans[r].kind = "none" =>
           \/ key[r] \in lost
           \/ \E v \in Versions \ Covered :
                 Stamp[v] = Stamp[Ref] /\ (kind = "audio" \/ v \in Bare)

(* So does what the caches have.                                           *)
StoreRight ==
    \A k \in Stamps \ overtaken :
        /\ cache[k] # None => Stamp[cache[k]] = k
        /\ previews[k] # None => Stamp[previews[k].of] = k
        /\ k \in fails => Barren(k)

PresentInv == StoreRight /\ (\A r \in Requests : RequestRight(r)) /\ ServesPresent

(***************************************************************************)
(* Types.                                                                  *)
(***************************************************************************)
(* The variables have their types in an initial state.                     *)
LEMMA TypedInit == Init => Typed
BY DEF Init, Typed, TypeOK, LocalsOK, Points, Looked, Office, InLock, Sourced

(* What is read where a thumbnail is made from is a content or nothing.    *)
LEMMA ReadableFacts ==
  ASSUME Typed, NEW r \in Requests, pc[r] \in Sourced \cup {"frames"}
  PROVE  Readable(r) \subseteq Versions \cup {None}
<1>1. src[r] \in Sources
  BY DEF Typed, LocalsOK
<1>2. src[r].at = "copy" => src[r].of \in Versions
  BY <1>1 DEF Sources
<1>3. src[r].at \in {"side", "file", "copy"}
  BY <1>1 DEF Sources
<1> QED BY <1>2, <1>3 DEF Readable, Typed, TypeOK

(* The answers, sources and previews that there are.                       *)
LEMMA RecordFacts ==
  /\ \A v \in Versions, k \in {"thumb", "original", "pdf", "torn"} :
         [kind |-> k, of |-> v] \in Answers
  /\ \A k \in {"none", "missing", "error"} : [kind |-> k, of |-> None] \in Answers
  /\ \A v \in Versions, z \in {"empty", "part", "whole"} :
         [of |-> v, size |-> z] \in Previews
  /\ \A v \in Versions : [at |-> "copy", of |-> v] \in Sources
  /\ [at |-> "side", of |-> None] \in Sources
  /\ [at |-> "file", of |-> None] \in Sources
  /\ \A p \in Previews : p.of \in Versions
BY DEF Answers, Previews, Sources

(* The stamps of contents.                                                *)
LEMMA StampFacts == \A v \in Versions : Stamp[v] \in Stamps
BY DEF Stamps

(* What a request finds to make a thumbnail from, and where it goes on.    *)
LEMMA FindSourceFacts ==
  ASSUME Typed, NEW r \in Requests, FindSource(r)
  PROVE  /\ pc[r] = "source" /\ lost' \in {lost, lost \cup {key[r]}}
         /\ \/ /\ side # None
               /\ src' = [src EXCEPT ![r] = [at |-> "side", of |-> None]]
               /\ pc' = [pc EXCEPT ![r] = "load"]
            \/ /\ side = None /\ file \in Versions
               /\ src' = [src EXCEPT ![r] = [at |-> "copy", of |-> file]]
               /\ pc' = [pc EXCEPT ![r] = "load"]
            \/ /\ side = None
               /\ src' = [src EXCEPT ![r] = [at |-> "file", of |-> None]]
               /\ \/ pc' = [pc EXCEPT ![r] = "load"]
                  \/ /\ pc' = [pc EXCEPT ![r] = "frames"]
                     /\ key[r] \in lost' \/ file \notin Covered
            \/ /\ side = None /\ src' = src
               /\ pc' = [pc EXCEPT ![r] = "barren"]
               /\ kind = "audio" /\ (key[r] \in lost' \/ file \notin Covered)
<1> USE VersionsAssumption DEF FindSource, HasCover, Goto
<1>1. CASE side # None
  BY <1>1
<1>2. CASE side = None /\ HasCover /\ UNCHANGED lost /\ pc' = [pc EXCEPT ![r] = "load"]
  BY <1>2
<1>3. CASE side = None /\ HasCover /\ lost' = lost \cup {key[r]}
  BY <1>3
<1>4. CASE side = None /\ ~HasCover
  BY <1>4
<1> QED BY <1>1, <1>2, <1>3, <1>4

(* It has its types then.                                                  *)
LEMMA FindSourceTypes ==
  ASSUME Typed, NEW r \in Requests, FindSource(r)
  PROVE  /\ src' \in [Requests -> Sources \cup {None}]
         /\ pc' \in [Requests -> Points]
         /\ pc'[r] \in {"load", "frames"} => src'[r] \in Sources
<1>1. src \in [Requests -> Sources \cup {None}] /\ pc \in [Requests -> Points]
  BY DEF Typed, TypeOK
<1>2. {"load", "frames", "barren"} \subseteq Points
  BY DEF Points, Looked, Sourced
<1>3. file \in Versions => [at |-> "copy", of |-> file] \in Sources
  BY RecordFacts
<1>4. pc' \in [Requests -> Points]
  BY <1>1, <1>2, FindSourceFacts
<1>5. \/ \E s \in Sources : src' = [src EXCEPT ![r] = s]
      \/ src' = src /\ pc'[r] = "barren"
  BY <1>1, <1>3, FindSourceFacts, RecordFacts
<1> QED BY <1>1, <1>4, <1>5

(* What a conversion puts in place is a preview.                           *)
LEMMA PutFacts ==
  ASSUME Typed, NEW r \in Requests, pc[r] \in {"rename", "copy"},
         NEW z \in {"empty", "part", "whole"}, Put(r, z)
  PROVE  /\ previews' \in [Stamps -> Previews \cup {None}]
         /\ previews'[key[r]] \in Previews
         /\ \A k \in Stamps \ {key[r]} : previews'[k] = previews[k]
<1>1. key[r] \in Stamps /\ data[r] \in Versions
  BY DEF Typed, LocalsOK
<1>2. [of |-> data[r], size |-> z] \in Previews
  BY <1>1, RecordFacts
<1> QED BY <1>1, <1>2 DEF Put, Typed, TypeOK

(* It leaves previews where there are any ...                              *)
LEMMA PutKeeps ==
  ASSUME Typed, NEW r \in Requests, pc[r] \in {"rename", "copy"},
         NEW z \in {"empty", "part", "whole"}, Put(r, z), NEW k \in Stamps,
         previews[k] \in Previews
  PROVE  previews'[k] \in Previews
<1>1. previews'[key[r]] \in Previews
  BY PutFacts
<1>2. k # key[r] => previews'[k] = previews[k]
  BY PutFacts
<1> QED BY <1>1, <1>2

(* ... and has the content and the size that are put.                      *)
LEMMA PutRecord ==
  ASSUME Typed, NEW r \in Requests, pc[r] \in {"rename", "copy"},
         NEW z \in {"empty", "part", "whole"}, Put(r, z)
  PROVE  previews'[key[r]].of = data[r] /\ previews'[key[r]].size = z
<1>1. previews'[key[r]] = [of |-> data[r], size |-> z]
  BY DEF Put, Typed, TypeOK, LocalsOK
<1> QED BY <1>1

(* Every step keeps the types of the variables.                            *)
LEMMA TypeStep ==
  Typed /\ [Next]_vars => TypeOK' /\ pc' \in [Requests -> Points]
<1> SUFFICES ASSUME Typed, [Next]_vars PROVE TypeOK' /\ pc' \in [Requests -> Points]
    OBVIOUS
<1> USE RecordFacts, StampFacts
    DEF Typed, TypeOK, LocalsOK, Points, Looked, Office, InLock, Sourced, disk,
        store, office, Goto, Finish, Forget, Unlock
<1>1. ASSUME NEW r \in Requests, Resolve(r) PROVE TypeOK' /\ pc' \in [Requests -> Points]
  <2>1. CASE file = None
    BY <1>1, <2>1 DEF Resolve
  <2>2. CASE file # None
    <3>1. pc' \in [Requests -> Points]
      BY <1>1, <2>2 DEF Resolve
    <3>2. key' \in [Requests -> Stamps \cup {None}]
      BY <1>1, <2>2 DEF Resolve
    <3> QED BY <1>1, <2>2, <3>1, <3>2 DEF Resolve
  <2> QED BY <2>1, <2>2
<1>2. ASSUME NEW r \in Requests, Look(r) PROVE TypeOK' /\ pc' \in [Requests -> Points]
  BY <1>2 DEF Look
<1>3. ASSUME NEW r \in Requests, LookUpFailure(r) PROVE TypeOK' /\ pc' \in [Requests -> Points]
  BY <1>3 DEF LookUpFailure
<1>4. ASSUME NEW r \in Requests, LookUp(r) PROVE TypeOK' /\ pc' \in [Requests -> Points]
  <2>1. key[r] \in Stamps /\ cache[key[r]] \in Versions \cup {None}
    BY <1>4 DEF LookUp
  <2>2. CASE cache[key[r]] = None
    BY <1>4, <2>2 DEF LookUp
  <2>3. CASE cache[key[r]] # None
    BY <1>4, <2>1, <2>3 DEF LookUp
  <2> QED BY <2>2, <2>3
<1>5. ASSUME NEW r \in Requests, FindSource(r) PROVE TypeOK' /\ pc' \in [Requests -> Points]
  <2>1. src' \in [Requests -> Sources \cup {None}] /\ pc' \in [Requests -> Points]
    BY <1>5, FindSourceTypes
  <2>2. key[r] \in Stamps /\ lost' \in {lost, lost \cup {key[r]}}
    BY <1>5, FindSourceFacts
  <2> QED BY <1>5, <2>1, <2>2 DEF FindSource
<1>6. ASSUME NEW r \in Requests, LoadManager(r) PROVE TypeOK' /\ pc' \in [Requests -> Points]
  BY <1>6 DEF LoadManager
<1>7. ASSUME NEW r \in Requests, LoadOrStoreManager(r) PROVE TypeOK' /\ pc' \in [Requests -> Points]
  BY <1>7 DEF LoadOrStoreManager
<1>8. ASSUME NEW r \in Requests, Resized(r) PROVE TypeOK' /\ pc' \in [Requests -> Points]
  BY <1>8, ReadableFacts DEF Resized
<1>9. ASSUME NEW r \in Requests, ResizedAlone(r) PROVE TypeOK' /\ pc' \in [Requests -> Points]
  BY <1>9, ReadableFacts DEF ResizedAlone
<1>10. ASSUME NEW r \in Requests, Framed(r) PROVE TypeOK' /\ pc' \in [Requests -> Points]
  BY <1>10, ReadableFacts DEF Framed
<1>11. ASSUME NEW r \in Requests, StoreFailure(r) PROVE TypeOK' /\ pc' \in [Requests -> Points]
  BY <1>11 DEF StoreFailure
<1>12. ASSUME NEW r \in Requests, Store(r) PROVE TypeOK' /\ pc' \in [Requests -> Points]
  BY <1>12 DEF Store
<1>13. ASSUME NEW r \in Requests, Original(r) PROVE TypeOK' /\ pc' \in [Requests -> Points]
  <2>1. CASE file = None
    BY <1>13, <2>1 DEF Original
  <2>2. CASE file # None
    BY <1>13, <2>2 DEF Original
  <2> QED BY <2>1, <2>2
<1>14. ASSUME NEW r \in Requests, Peek(r) PROVE TypeOK' /\ pc' \in [Requests -> Points]
  BY <1>14 DEF Peek
<1>15. ASSUME NEW r \in Requests, Lock(r) PROVE TypeOK' /\ pc' \in [Requests -> Points]
  BY <1>15 DEF Lock
<1>16. ASSUME NEW r \in Requests, CheckAgain(r) PROVE TypeOK' /\ pc' \in [Requests -> Points]
  BY <1>16 DEF CheckAgain
<1>17. ASSUME NEW r \in Requests, Convert(r) PROVE TypeOK' /\ pc' \in [Requests -> Points]
  <2>1. CASE /\ file # None /\ data' = [data EXCEPT ![r] = file]
             /\ Goto(r, "rename") /\ UNCHANGED holder
    BY <1>17, <2>1 DEF Convert
  <2>2. CASE Finish(r, "error", None) /\ Unlock(r) /\ UNCHANGED data
    BY <1>17, <2>2 DEF Convert
  <2> QED BY <1>17, <2>1, <2>2 DEF Convert
<1>18. ASSUME NEW r \in Requests, Rename(r) PROVE TypeOK' /\ pc' \in [Requests -> Points]
  <2>1. previews' \in [Stamps -> Previews \cup {None}]
    BY <1>18, PutFacts DEF Rename
  <2> QED BY <1>18, <2>1 DEF Rename
<1>19. ASSUME NEW r \in Requests, Copy(r) PROVE TypeOK' /\ pc' \in [Requests -> Points]
  <2>1. ASSUME NEW z \in {"empty", "part", "whole"}, Put(r, z)
        PROVE  previews' \in [Stamps -> Previews \cup {None}]
    <3>1. pc[r] = "copy"
      BY <1>19 DEF Copy
    <3> QED BY <2>1, <3>1, PutFacts
  <2>2. previews' \in [Stamps -> Previews \cup {None}]
    BY <1>19, <2>1 DEF Copy
  <2>3. pc' \in [Requests -> Points]
    BY <1>19 DEF Copy
  <2>5. ans' \in [Requests -> Answers \cup {None}]
    BY <1>19 DEF Copy
  <2>4. holder' \in [Stamps -> Requests \cup {None}]
    BY <1>19 DEF Copy
  <2> QED BY <1>19, <2>2, <2>3, <2>4, <2>5 DEF Copy
<1>20. ASSUME NEW r \in Requests, Serve(r) PROVE TypeOK' /\ pc' \in [Requests -> Points]
  BY <1>20 DEF Serve
<1>21. CASE Change
  BY <1>21 DEF Change, OnTheWay
<1>22. CASE UNCHANGED vars
  BY <1>22 DEF vars
<1> QED BY <1>1, <1>2, <1>3, <1>4, <1>5, <1>6, <1>7, <1>8, <1>9, <1>10, <1>11, <1>12, <1>13, <1>14, <1>15, <1>16, <1>17, <1>18, <1>19, <1>20, <1>21, <1>22 DEF Next, fsHandler

(* Every step keeps the locals of each request set.                        *)
LEMMA LocalsStep ==
  ASSUME Typed, [Next]_vars, NEW q \in Requests PROVE LocalsOK(q)'
<1> USE StampFacts
    DEF Typed, TypeOK, LocalsOK, Points, Looked, Office, InLock, Sourced, disk,
        store, office, Goto, Finish, Forget, Unlock
<1>1. ASSUME NEW r \in Requests, Resolve(r) PROVE LocalsOK(q)'
  <2>1. CASE file = None
    BY <1>1, <2>1 DEF Resolve
  <2>2. CASE file # None
    BY <1>1, <2>2 DEF Resolve
  <2> QED BY <2>1, <2>2
<1>2. ASSUME NEW r \in Requests, Look(r) PROVE LocalsOK(q)'
  BY <1>2 DEF Look
<1>3. ASSUME NEW r \in Requests, LookUpFailure(r) PROVE LocalsOK(q)'
  BY <1>3 DEF LookUpFailure
<1>4. ASSUME NEW r \in Requests, LookUp(r) PROVE LocalsOK(q)'
  <2>1. CASE cache[key[r]] = None
    BY <1>4, <2>1 DEF LookUp
  <2>2. CASE cache[key[r]] # None
    BY <1>4, <2>2 DEF LookUp
  <2> QED BY <2>1, <2>2
<1>5. ASSUME NEW r \in Requests, FindSource(r) PROVE LocalsOK(q)'
  <2>1. pc'[r] \in {"load", "frames"} => src'[r] \in Sources
    BY <1>5, FindSourceTypes
  <2> QED BY <1>5, <2>1 DEF FindSource
<1>6. ASSUME NEW r \in Requests, LoadManager(r) PROVE LocalsOK(q)'
  BY <1>6 DEF LoadManager
<1>7. ASSUME NEW r \in Requests, LoadOrStoreManager(r) PROVE LocalsOK(q)'
  BY <1>7 DEF LoadOrStoreManager
<1>8. ASSUME NEW r \in Requests, Resized(r) PROVE LocalsOK(q)'
  BY <1>8, ReadableFacts DEF Resized
<1>9. ASSUME NEW r \in Requests, ResizedAlone(r) PROVE LocalsOK(q)'
  BY <1>9, ReadableFacts DEF ResizedAlone
<1>10. ASSUME NEW r \in Requests, Framed(r) PROVE LocalsOK(q)'
  BY <1>10, ReadableFacts DEF Framed
<1>11. ASSUME NEW r \in Requests, StoreFailure(r) PROVE LocalsOK(q)'
  BY <1>11 DEF StoreFailure
<1>12. ASSUME NEW r \in Requests, Store(r) PROVE LocalsOK(q)'
  BY <1>12 DEF Store
<1>13. ASSUME NEW r \in Requests, Original(r) PROVE LocalsOK(q)'
  <2>1. CASE file = None
    BY <1>13, <2>1 DEF Original
  <2>2. CASE file # None
    BY <1>13, <2>2 DEF Original
  <2> QED BY <2>1, <2>2
<1>14. ASSUME NEW r \in Requests, Peek(r) PROVE LocalsOK(q)'
  BY <1>14 DEF Peek, Present
<1>15. ASSUME NEW r \in Requests, Lock(r) PROVE LocalsOK(q)'
  BY <1>15 DEF Lock
<1>16. ASSUME NEW r \in Requests, CheckAgain(r) PROVE LocalsOK(q)'
  BY <1>16 DEF CheckAgain, Present
<1>17. ASSUME NEW r \in Requests, Convert(r) PROVE LocalsOK(q)'
  <2>1. CASE file # None /\ data' = [data EXCEPT ![r] = file] /\ Goto(r, "rename")
    BY <1>17, <2>1 DEF Convert
  <2>2. CASE Finish(r, "error", None) /\ UNCHANGED data
    BY <1>17, <2>2 DEF Convert
  <2> QED BY <1>17, <2>1, <2>2 DEF Convert
<1>18. ASSUME NEW r \in Requests, Rename(r) PROVE LocalsOK(q)'
  <2>1. \A k \in Stamps : previews[k] \in Previews => previews'[k] \in Previews
    BY <1>18, PutFacts DEF Rename
  <2>2. pc'[r] = "serve" => previews'[key[r]] \in Previews
    BY <1>18, PutFacts DEF Rename
  <2> QED BY <1>18, <2>1, <2>2 DEF Rename
<1>19. ASSUME NEW r \in Requests, Copy(r) PROVE LocalsOK(q)'
  <2>1. ASSUME NEW k \in Stamps, previews[k] \in Previews,
               NEW z \in {"empty", "part", "whole"}, Put(r, z)
        PROVE  previews'[k] \in Previews
    BY <1>19, <2>1, PutKeeps DEF Copy
  <2>2. \A k \in Stamps : previews[k] \in Previews => previews'[k] \in Previews
    BY <1>19, <2>1 DEF Copy
  <2>3. pc'[r] = "serve" => previews'[key[r]] \in Previews
    <3>1. Put(r, "whole") => previews'[key[r]] \in Previews
      BY <1>19, PutFacts DEF Copy
    <3> QED BY <1>19, <3>1 DEF Copy
  <2>4. key' = key /\ src' = src /\ data' = data /\ pc[r] = "copy"
    BY <1>19 DEF Copy
  <2>5. pc'[q] = pc[q] \/ (q = r /\ pc'[q] \in {"copy", "serve", "done"})
    BY <1>19 DEF Copy
  <2>6. CASE pc'[q] = pc[q]
    BY <2>2, <2>4, <2>6
  <2>7. CASE q = r /\ pc'[q] \in {"copy", "serve", "done"}
    BY <2>3, <2>4, <2>7
  <2> QED BY <2>5, <2>6, <2>7
<1>20. ASSUME NEW r \in Requests, Serve(r) PROVE LocalsOK(q)'
  BY <1>20 DEF Serve
<1>21. CASE Change
  BY <1>21 DEF Change, OnTheWay
<1>22. CASE UNCHANGED vars
  BY <1>22 DEF vars
<1> QED BY <1>1, <1>2, <1>3, <1>4, <1>5, <1>6, <1>7, <1>8, <1>9, <1>10, <1>11, <1>12, <1>13, <1>14, <1>15, <1>16, <1>17, <1>18, <1>19, <1>20, <1>21, <1>22 DEF Next, fsHandler

(* The variables have their types, and the locals that a request needs are *)
(* set.                                                                    *)
THEOREM TypedAlways == Spec => []Typed
<1>1. Typed /\ [Next]_vars => Typed'
  BY TypeStep, LocalsStep DEF Typed
<1> QED BY <1>1, TypedInit, PTL DEF Spec

(* The variables of requests, caches and queues have their types.          *)
THEOREM TypeCorrect == Spec => []TypeOK
BY TypedAlways, PTL DEF Typed

(***************************************************************************)
(* The queue.                                                              *)
(***************************************************************************)
(* What requests use is the manager there is, before and after every step. *)
LEMMA OneManagerStep == Typed /\ OneManager /\ [Next]_vars => OneManager'
<1> SUFFICES ASSUME Typed, OneManager, [Next]_vars PROVE OneManager'
    OBVIOUS
<1> USE RequestsAssumption DEF Typed, TypeOK, OneManager, store, office, disk, Forget
<1>1. ASSUME NEW r \in Requests, Resolve(r) PROVE OneManager'
  BY <1>1 DEF Resolve
<1>2. ASSUME NEW r \in Requests, Look(r) PROVE OneManager'
  BY <1>2 DEF Look
<1>3. ASSUME NEW r \in Requests, LookUpFailure(r) PROVE OneManager'
  BY <1>3 DEF LookUpFailure
<1>4. ASSUME NEW r \in Requests, LookUp(r) PROVE OneManager'
  BY <1>4 DEF LookUp
<1>5. ASSUME NEW r \in Requests, FindSource(r) PROVE OneManager'
  BY <1>5 DEF FindSource
<1>6. ASSUME NEW r \in Requests, LoadManager(r) PROVE OneManager'
  BY <1>6 DEF LoadManager
<1>7. ASSUME NEW r \in Requests, LoadOrStoreManager(r) PROVE OneManager'
  <2>1. CASE manager = None
    BY <1>7, <2>1 DEF LoadOrStoreManager
  <2>2. CASE manager # None
    BY <1>7, <2>2 DEF LoadOrStoreManager
  <2> QED BY <2>1, <2>2
<1>8. ASSUME NEW r \in Requests, Resized(r) PROVE OneManager'
  BY <1>8 DEF Resized
<1>9. ASSUME NEW r \in Requests, ResizedAlone(r) PROVE OneManager'
  BY <1>9 DEF ResizedAlone
<1>10. ASSUME NEW r \in Requests, Framed(r) PROVE OneManager'
  BY <1>10 DEF Framed
<1>11. ASSUME NEW r \in Requests, StoreFailure(r) PROVE OneManager'
  BY <1>11 DEF StoreFailure
<1>12. ASSUME NEW r \in Requests, Store(r) PROVE OneManager'
  BY <1>12 DEF Store
<1>13. ASSUME NEW r \in Requests, Original(r) PROVE OneManager'
  BY <1>13 DEF Original
<1>14. ASSUME NEW r \in Requests, Peek(r) PROVE OneManager'
  BY <1>14 DEF Peek
<1>15. ASSUME NEW r \in Requests, Lock(r) PROVE OneManager'
  BY <1>15 DEF Lock
<1>16. ASSUME NEW r \in Requests, CheckAgain(r) PROVE OneManager'
  BY <1>16 DEF CheckAgain
<1>17. ASSUME NEW r \in Requests, Convert(r) PROVE OneManager'
  BY <1>17 DEF Convert
<1>18. ASSUME NEW r \in Requests, Rename(r) PROVE OneManager'
  BY <1>18 DEF Rename
<1>19. ASSUME NEW r \in Requests, Copy(r) PROVE OneManager'
  BY <1>19 DEF Copy
<1>20. ASSUME NEW r \in Requests, Serve(r) PROVE OneManager'
  BY <1>20 DEF Serve
<1>21. CASE Change
  BY <1>21 DEF Change
<1>22. CASE UNCHANGED vars
  BY <1>22 DEF vars
<1> QED BY <1>1, <1>2, <1>3, <1>4, <1>5, <1>6, <1>7, <1>8, <1>9, <1>10, <1>11, <1>12, <1>13, <1>14, <1>15, <1>16, <1>17, <1>18, <1>19, <1>20, <1>21, <1>22 DEF Next, fsHandler

(* All requests for thumbnails of this size and quality use one queue,     *)
(* though the first ones may each make one: LoadOrStore keeps the first.   *)
THEOREM OneManagerAlways == Spec => []OneManager
<1>1. Init => OneManager
  BY DEF Init, OneManager
<1> QED BY <1>1, TypedAlways, OneManagerStep, PTL DEF Spec

(***************************************************************************)
(* Previews.                                                               *)
(***************************************************************************)
(* Every step leaves the lock of a preview with whoever makes it.          *)
LEMMA LockedStep == Typed /\ Locked /\ [Next]_vars => Locked'
<1> SUFFICES ASSUME Typed, Locked, [Next]_vars PROVE Locked'
    OBVIOUS
<1> USE RequestsAssumption
    DEF Typed, TypeOK, LocalsOK, Locked, InLock, Looked, Present, disk, store, office,
        Goto, Finish, Forget, Unlock
<1>1. ASSUME NEW r \in Requests, Resolve(r) PROVE Locked'
  BY <1>1 DEF Resolve
<1>2. ASSUME NEW r \in Requests, Look(r) PROVE Locked'
  BY <1>2 DEF Look
<1>3. ASSUME NEW r \in Requests, LookUpFailure(r) PROVE Locked'
  BY <1>3 DEF LookUpFailure
<1>4. ASSUME NEW r \in Requests, LookUp(r) PROVE Locked'
  BY <1>4 DEF LookUp
<1>5. ASSUME NEW r \in Requests, FindSource(r) PROVE Locked'
  BY <1>5 DEF FindSource
<1>6. ASSUME NEW r \in Requests, LoadManager(r) PROVE Locked'
  BY <1>6 DEF LoadManager
<1>7. ASSUME NEW r \in Requests, LoadOrStoreManager(r) PROVE Locked'
  BY <1>7 DEF LoadOrStoreManager
<1>8. ASSUME NEW r \in Requests, Resized(r) PROVE Locked'
  BY <1>8 DEF Resized
<1>9. ASSUME NEW r \in Requests, ResizedAlone(r) PROVE Locked'
  BY <1>9 DEF ResizedAlone
<1>10. ASSUME NEW r \in Requests, Framed(r) PROVE Locked'
  BY <1>10 DEF Framed
<1>11. ASSUME NEW r \in Requests, StoreFailure(r) PROVE Locked'
  BY <1>11 DEF StoreFailure
<1>12. ASSUME NEW r \in Requests, Store(r) PROVE Locked'
  BY <1>12 DEF Store
<1>13. ASSUME NEW r \in Requests, Original(r) PROVE Locked'
  BY <1>13 DEF Original
<1>14. ASSUME NEW r \in Requests, Peek(r) PROVE Locked'
  BY <1>14 DEF Peek
<1>15. ASSUME NEW r \in Requests, Lock(r) PROVE Locked'
  BY <1>15 DEF Lock
<1>16. ASSUME NEW r \in Requests, CheckAgain(r) PROVE Locked'
  BY <1>16 DEF CheckAgain
<1>17. ASSUME NEW r \in Requests, Convert(r) PROVE Locked'
  BY <1>17 DEF Convert
<1>18. ASSUME NEW r \in Requests, Rename(r) PROVE Locked'
  <2>1. \A q \in Requests : q # r /\ pc[q] \in InLock => key[q] # key[r]
    BY <1>18 DEF Rename
  <2>2. \A k \in Stamps \ {key[r]} : previews'[k] = previews[k]
    BY <1>18, PutFacts DEF Rename
  <2> QED BY <1>18, <2>1, <2>2 DEF Rename
<1>19. ASSUME NEW r \in Requests, Copy(r) PROVE Locked'
  <2>1. \A q \in Requests : q # r /\ pc[q] \in InLock => key[q] # key[r]
    BY <1>19 DEF Copy
  <2>2. \A k \in Stamps \ {key[r]} : previews'[k] = previews[k]
    BY <1>19, PutFacts DEF Copy
  <2> QED BY <1>19, <2>1, <2>2 DEF Copy
<1>20. ASSUME NEW r \in Requests, Serve(r) PROVE Locked'
  BY <1>20 DEF Serve
<1>21. CASE Change
  BY <1>21 DEF Change
<1>22. CASE UNCHANGED vars
  BY <1>22 DEF vars
<1> QED BY <1>1, <1>2, <1>3, <1>4, <1>5, <1>6, <1>7, <1>8, <1>9, <1>10, <1>11, <1>12, <1>13, <1>14, <1>15, <1>16, <1>17, <1>18, <1>19, <1>20, <1>21, <1>22 DEF Next, fsHandler

(* A preview is made under the lock of its key, by one request at a time.  *)
THEOREM LockedAlways == Spec => []Locked
<1>1. Init => Locked
  BY DEF Init, Locked, InLock
<1> QED BY <1>1, TypedAlways, LockedStep, PTL DEF Spec

(* A document is converted only if there is no preview of it: who waited   *)
(* for the lock looks again.                                               *)
THEOREM ConvertsOnceAlways == Spec => ConvertsOnce
<1>1. Locked => \A r \in Requests : Convert(r) => ~Present(key[r])
  BY DEF Locked, Convert
<1> QED BY <1>1, LockedAlways, PTL DEF ConvertsOnce

(* Every step leaves only previews that are whole or copied.               *)
LEMMA WholeStep == Typed /\ WholeInv /\ [Next]_vars => WholeInv'
<1> SUFFICES ASSUME Typed, WholeInv, [Next]_vars PROVE WholeInv'
    OBVIOUS
<1> USE DEF Typed, TypeOK, LocalsOK, WholeInv, Whole, Looked, Office, InLock, disk, store,
            office, Goto, Finish, Forget, Unlock
<1>1. ASSUME NEW r \in Requests, Resolve(r) PROVE WholeInv'
  BY <1>1 DEF Resolve
<1>2. ASSUME NEW r \in Requests, Look(r) PROVE WholeInv'
  BY <1>2 DEF Look
<1>3. ASSUME NEW r \in Requests, LookUpFailure(r) PROVE WholeInv'
  BY <1>3 DEF LookUpFailure
<1>4. ASSUME NEW r \in Requests, LookUp(r) PROVE WholeInv'
  BY <1>4 DEF LookUp
<1>5. ASSUME NEW r \in Requests, FindSource(r) PROVE WholeInv'
  BY <1>5, FindSourceFacts DEF FindSource
<1>6. ASSUME NEW r \in Requests, LoadManager(r) PROVE WholeInv'
  BY <1>6 DEF LoadManager
<1>7. ASSUME NEW r \in Requests, LoadOrStoreManager(r) PROVE WholeInv'
  BY <1>7 DEF LoadOrStoreManager
<1>8. ASSUME NEW r \in Requests, Resized(r) PROVE WholeInv'
  BY <1>8 DEF Resized
<1>9. ASSUME NEW r \in Requests, ResizedAlone(r) PROVE WholeInv'
  BY <1>9 DEF ResizedAlone
<1>10. ASSUME NEW r \in Requests, Framed(r) PROVE WholeInv'
  BY <1>10 DEF Framed
<1>11. ASSUME NEW r \in Requests, StoreFailure(r) PROVE WholeInv'
  BY <1>11 DEF StoreFailure
<1>12. ASSUME NEW r \in Requests, Store(r) PROVE WholeInv'
  BY <1>12 DEF Store
<1>13. ASSUME NEW r \in Requests, Original(r) PROVE WholeInv'
  BY <1>13 DEF Original
<1>14. ASSUME NEW r \in Requests, Peek(r) PROVE WholeInv'
  BY <1>14 DEF Peek, Present
<1>15. ASSUME NEW r \in Requests, Lock(r) PROVE WholeInv'
  BY <1>15 DEF Lock
<1>16. ASSUME NEW r \in Requests, CheckAgain(r) PROVE WholeInv'
  BY <1>16 DEF CheckAgain, Present
<1>17. ASSUME NEW r \in Requests, Convert(r) PROVE WholeInv'
  BY <1>17 DEF Convert
<1>18. ASSUME NEW r \in Requests, Rename(r) PROVE WholeInv'
  <2>1. CASE Put(r, "whole") /\ UNCHANGED copied
    <3>1. previews'[key[r]].size = "whole"
      BY <1>18, <2>1, PutRecord DEF Rename
    <3>2. \A k \in Stamps \ {key[r]} : previews'[k] = previews[k]
      BY <1>18, <2>1, PutFacts DEF Rename
    <3> QED BY <1>18, <2>1, <3>1, <3>2 DEF Rename
  <2>2. CASE copied' = copied \cup {key[r]} /\ UNCHANGED previews
    BY <1>18, <2>2 DEF Rename
  <2> QED BY <1>18, <2>1, <2>2 DEF Rename
<1>19. ASSUME NEW r \in Requests, Copy(r) PROVE WholeInv'
  <2>1. \A k \in Stamps \ {key[r]} : previews'[k] = previews[k]
    BY <1>19, PutFacts DEF Copy
  <2>2. key[r] \in copied'
    BY <1>19 DEF Copy
  <2> QED BY <1>19, <2>1, <2>2 DEF Copy
<1>20. ASSUME NEW r \in Requests, Serve(r) PROVE WholeInv'
  BY <1>20 DEF Serve
<1>21. CASE Change
  BY <1>21 DEF Change
<1>22. CASE UNCHANGED vars
  BY <1>22 DEF vars
<1> QED BY <1>1, <1>2, <1>3, <1>4, <1>5, <1>6, <1>7, <1>8, <1>9, <1>10, <1>11, <1>12, <1>13, <1>14, <1>15, <1>16, <1>17, <1>18, <1>19, <1>20, <1>21, <1>22 DEF Next, fsHandler

(* No request is answered with a part of a preview that was not copied.    *)
LEMMA ServesWholeStep ==
  Typed /\ WholeInv /\ ServesWhole /\ [Next]_vars => ServesWhole'
<1> SUFFICES ASSUME Typed, WholeInv, ServesWhole, [Next]_vars PROVE ServesWhole'
    OBVIOUS
<1> USE DEF Typed, TypeOK, LocalsOK, WholeInv, Whole, ServesWhole, disk, store, office,
            Goto, Finish, Forget
<1>1. ASSUME NEW r \in Requests, Resolve(r) PROVE ServesWhole'
  BY <1>1 DEF Resolve
<1>2. ASSUME NEW r \in Requests, Look(r) PROVE ServesWhole'
  BY <1>2 DEF Look
<1>3. ASSUME NEW r \in Requests, LookUpFailure(r) PROVE ServesWhole'
  BY <1>3 DEF LookUpFailure
<1>4. ASSUME NEW r \in Requests, LookUp(r) PROVE ServesWhole'
  BY <1>4 DEF LookUp
<1>5. ASSUME NEW r \in Requests, FindSource(r) PROVE ServesWhole'
  BY <1>5, FindSourceFacts DEF FindSource
<1>6. ASSUME NEW r \in Requests, LoadManager(r) PROVE ServesWhole'
  BY <1>6 DEF LoadManager
<1>7. ASSUME NEW r \in Requests, LoadOrStoreManager(r) PROVE ServesWhole'
  BY <1>7 DEF LoadOrStoreManager
<1>8. ASSUME NEW r \in Requests, Resized(r) PROVE ServesWhole'
  BY <1>8 DEF Resized
<1>9. ASSUME NEW r \in Requests, ResizedAlone(r) PROVE ServesWhole'
  BY <1>9 DEF ResizedAlone
<1>10. ASSUME NEW r \in Requests, Framed(r) PROVE ServesWhole'
  BY <1>10 DEF Framed
<1>11. ASSUME NEW r \in Requests, StoreFailure(r) PROVE ServesWhole'
  BY <1>11 DEF StoreFailure
<1>12. ASSUME NEW r \in Requests, Store(r) PROVE ServesWhole'
  BY <1>12 DEF Store
<1>13. ASSUME NEW r \in Requests, Original(r) PROVE ServesWhole'
  BY <1>13 DEF Original
<1>14. ASSUME NEW r \in Requests, Peek(r) PROVE ServesWhole'
  BY <1>14 DEF Peek
<1>15. ASSUME NEW r \in Requests, Lock(r) PROVE ServesWhole'
  BY <1>15 DEF Lock
<1>16. ASSUME NEW r \in Requests, CheckAgain(r) PROVE ServesWhole'
  BY <1>16 DEF CheckAgain
<1>17. ASSUME NEW r \in Requests, Convert(r) PROVE ServesWhole'
  BY <1>17 DEF Convert
<1>18. ASSUME NEW r \in Requests, Rename(r) PROVE ServesWhole'
  BY <1>18 DEF Rename
<1>19. ASSUME NEW r \in Requests, Copy(r) PROVE ServesWhole'
  BY <1>19 DEF Copy
<1>20. ASSUME NEW r \in Requests, Serve(r) PROVE ServesWhole'
  BY <1>20 DEF Serve
<1>21. CASE Change
  BY <1>21 DEF Change
<1>22. CASE UNCHANGED vars
  BY <1>22 DEF vars
<1> QED BY <1>1, <1>2, <1>3, <1>4, <1>5, <1>6, <1>7, <1>8, <1>9, <1>10, <1>11, <1>12, <1>13, <1>14, <1>15, <1>16, <1>17, <1>18, <1>19, <1>20, <1>21, <1>22 DEF Next, fsHandler

(* A preview is served whole, though requests look for it without the      *)
(* lock, unless it had to be copied into place.                            *)
THEOREM ServesWholeAlways == Spec => []ServesWhole
<1>1. Init => WholeInv /\ ServesWhole
  BY DEF Init, WholeInv, ServesWhole
<1> QED BY <1>1, TypedAlways, WholeStep, ServesWholeStep, PTL DEF Spec

(***************************************************************************)
(* What is served is what there is.                                        *)
(***************************************************************************)
(* Every step but a change of a file leaves the files and what a change    *)
(* overtook alone, and what may have no thumbnail stays so.                *)
LEMMA FilesStay ==
  ASSUME NEW r \in Requests, fsHandler(r)
  PROVE  /\ UNCHANGED <<kind, file, side, overtaken>>
         /\ lost \subseteq lost'
         /\ \A k : Barren(k) => Barren(k)'
<1>1. UNCHANGED <<kind, file, side, overtaken>> /\ lost \subseteq lost'
  BY DEF fsHandler, disk, store, Resolve, Look, LookUpFailure, LookUp, FindSource,
         LoadManager, LoadOrStoreManager, Resized, ResizedAlone, Framed, StoreFailure,
         Store, Original, Peek, Lock, CheckAgain, Convert, Rename, Copy, Serve
<1> QED BY <1>1 DEF Barren

(* What is read where a thumbnail is made from has the stamp of the key.   *)
LEMMA ReadsRight ==
  ASSUME Typed, NEW r \in Requests, RequestRight(r), key[r] \notin overtaken,
         pc[r] \in Sourced \cup {"frames"}, NEW v \in Readable(r), v # None
  PROVE  v \in Versions /\ Stamp[v] = key[r] /\ (src[r].at = "file" => v = file)
<1>1. SourceRight(r) /\ key[r] = Stamp[Ref]
  BY DEF RequestRight, Looked
<1>2. src[r].at \in {"side", "file", "copy"}
  BY DEF Typed, LocalsOK, Sources
<1>3. v = Ref
  BY <1>1, <1>2 DEF Readable, SourceRight, Ref
<1>4. v \in Versions
  BY ReadableFacts
<1> QED BY <1>1, <1>2, <1>3, <1>4 DEF SourceRight, Ref

(* What a conversion or a thumbnail puts into a cache is right.            *)
LEMMA PutRight ==
  ASSUME Typed, NEW r \in Requests, RequestRight(r), StoreRight,
         pc[r] \in {"rename", "copy"},
         NEW z \in {"empty", "part", "whole"}, Put(r, z)
  PROVE  \A k \in Stamps \ overtaken :
             previews'[k] # None /\ (previews[k] # None => Stamp[previews[k].of] = k)
                 => Stamp[previews'[k].of] = k
<1>1. previews'[key[r]].of = data[r]
  BY PutRecord
<1>2. \A k \in Stamps \ {key[r]} : previews'[k] = previews[k]
  BY PutFacts
<1>3. key[r] \notin overtaken => Stamp[data[r]] = key[r]
  BY DEF RequestRight
<1> QED BY <1>1, <1>2, <1>3 DEF StoreRight

(* What storing a thumbnail does to the cache.                             *)
LEMMA CacheFacts ==
  ASSUME Typed, NEW r \in Requests, Store(r)
  PROVE  \A k \in Stamps : cache'[k] = cache[k] \/ (k = key[r] /\ cache'[k] = data[r])
<1>1. cache' = cache \/ cache' = [cache EXCEPT ![key[r]] = data[r]]
  BY DEF Store
<1>2. cache \in [Stamps -> Versions \cup {None}]
  BY DEF Typed, TypeOK
<1>3. CASE cache' = cache
  BY <1>3
<1>4. CASE cache' = [cache EXCEPT ![key[r]] = data[r]]
  BY <1>2, <1>4
<1> QED BY <1>1, <1>3, <1>4

(* Every step keeps the caches right.                                      *)
LEMMA StoreRightStep ==
  Typed /\ PresentInv /\ [Next]_vars => StoreRight'
<1> SUFFICES ASSUME Typed, PresentInv, [Next]_vars PROVE StoreRight'
    OBVIOUS
<1>a. ASSUME NEW r \in Requests, fsHandler(r)
      PROVE  overtaken' = overtaken /\ \A k : Barren(k) => Barren(k)'
  BY <1>a, FilesStay
<1>b. StoreRight /\ \A r \in Requests : RequestRight(r)
  BY DEF PresentInv
<1> USE <1>a, <1>b DEF StoreRight, disk, store, office, Goto, Finish, Forget, Typed, TypeOK, LocalsOK
<1>1. ASSUME NEW r \in Requests, Resolve(r) PROVE StoreRight'
  BY <1>1 DEF Resolve, fsHandler
<1>2. ASSUME NEW r \in Requests, Look(r) PROVE StoreRight'
  BY <1>2 DEF Look, fsHandler
<1>3. ASSUME NEW r \in Requests, LookUpFailure(r) PROVE StoreRight'
  BY <1>3 DEF LookUpFailure, fsHandler
<1>4. ASSUME NEW r \in Requests, LookUp(r) PROVE StoreRight'
  BY <1>4 DEF LookUp, fsHandler
<1>5. ASSUME NEW r \in Requests, FindSource(r) PROVE StoreRight'
  BY <1>5 DEF FindSource, fsHandler
<1>6. ASSUME NEW r \in Requests, LoadManager(r) PROVE StoreRight'
  BY <1>6 DEF LoadManager, fsHandler
<1>7. ASSUME NEW r \in Requests, LoadOrStoreManager(r) PROVE StoreRight'
  BY <1>7 DEF LoadOrStoreManager, fsHandler
<1>8. ASSUME NEW r \in Requests, Resized(r) PROVE StoreRight'
  BY <1>8 DEF Resized, fsHandler
<1>9. ASSUME NEW r \in Requests, ResizedAlone(r) PROVE StoreRight'
  BY <1>9 DEF ResizedAlone, fsHandler
<1>10. ASSUME NEW r \in Requests, Framed(r) PROVE StoreRight'
  BY <1>10 DEF Framed, fsHandler
<1>11. ASSUME NEW r \in Requests, StoreFailure(r) PROVE StoreRight'
  <2>1. key[r] \notin overtaken => Barren(key[r])
    BY <1>11 DEF StoreFailure, RequestRight
  <2> QED BY <1>11, <2>1 DEF StoreFailure, fsHandler
<1>12. ASSUME NEW r \in Requests, Store(r) PROVE StoreRight'
  <2>1. key[r] \in Stamps /\ (key[r] \notin overtaken => Stamp[data[r]] = key[r])
    BY <1>12 DEF Store, RequestRight
  <2>2. \A k \in Stamps : cache'[k] = cache[k] \/ (k = key[r] /\ cache'[k] = data[r])
    BY <1>12, CacheFacts
  <2> QED BY <1>12, <2>1, <2>2 DEF Store, fsHandler
<1>13. ASSUME NEW r \in Requests, Original(r) PROVE StoreRight'
  BY <1>13 DEF Original, fsHandler
<1>14. ASSUME NEW r \in Requests, Peek(r) PROVE StoreRight'
  BY <1>14 DEF Peek, fsHandler
<1>15. ASSUME NEW r \in Requests, Lock(r) PROVE StoreRight'
  BY <1>15 DEF Lock, fsHandler
<1>16. ASSUME NEW r \in Requests, CheckAgain(r) PROVE StoreRight'
  BY <1>16 DEF CheckAgain, fsHandler
<1>17. ASSUME NEW r \in Requests, Convert(r) PROVE StoreRight'
  BY <1>17 DEF Convert, fsHandler
<1>18. ASSUME NEW r \in Requests, Rename(r) PROVE StoreRight'
  <2>1. CASE Put(r, "whole")
    BY <1>18, <2>1, PutRight DEF Rename, fsHandler
  <2>2. CASE UNCHANGED previews
    BY <1>18, <2>2 DEF Rename, fsHandler
  <2> QED BY <1>18, <2>1, <2>2 DEF Rename
<1>19. ASSUME NEW r \in Requests, Copy(r) PROVE StoreRight'
  <2>1. ASSUME NEW z \in {"empty", "part", "whole"}, Put(r, z) PROVE StoreRight'
    BY <1>19, <2>1, PutRight DEF Copy, fsHandler
  <2>2. CASE UNCHANGED previews
    BY <1>19, <2>2 DEF Copy, fsHandler
  <2> QED BY <1>19, <2>1, <2>2 DEF Copy
<1>20. ASSUME NEW r \in Requests, Serve(r) PROVE StoreRight'
  BY <1>20 DEF Serve, fsHandler
<1>21. CASE Change
  BY <1>21 DEF Change, Barren
<1>22. CASE UNCHANGED vars
  BY <1>22 DEF vars, Barren
<1> QED BY <1>1, <1>2, <1>3, <1>4, <1>5, <1>6, <1>7, <1>8, <1>9, <1>10, <1>11, <1>12, <1>13, <1>14, <1>15, <1>16, <1>17, <1>18, <1>19, <1>20, <1>21, <1>22 DEF Next, fsHandler

(* Every step keeps what requests have right: that of another request ...  *)
LEMMA OthersRight ==
  ASSUME Typed, PresentInv, NEW r \in Requests, fsHandler(r),
         NEW q \in Requests \ {r}
  PROVE  RequestRight(q)'
<1>1. UNCHANGED <<kind, file, side, overtaken>> /\ lost \subseteq lost'
      /\ \A k : Barren(k) => Barren(k)'
  BY FilesStay
<1>2. pc'[q] = pc[q] /\ key'[q] = key[q] /\ src'[q] = src[q] /\ data'[q] = data[q]
      /\ (q \in calm' <=> q \in calm)
  BY DEF Typed, TypeOK, fsHandler, disk, store, office, Goto, Finish, Forget, Resolve, Look,
         LookUpFailure, LookUp, FindSource, LoadManager, LoadOrStoreManager, Resized,
         ResizedAlone, Framed, StoreFailure, Store, Original, Peek, Lock, CheckAgain,
         Convert, Rename, Copy, Serve
<1>3. RequestRight(q)
  BY DEF PresentInv
<1>4. ASSUME pc[q] = "serve", key[q] \notin overtaken
      PROVE  Stamp[previews'[key[q]].of] = key[q]
  <2>1. Stamp[previews[key[q]].of] = key[q]
    BY <1>3, <1>4 DEF RequestRight
  <2>2. CASE UNCHANGED previews
    BY <2>1, <2>2
  <2>3. ASSUME Rename(r) \/ Copy(r), NEW z \in {"empty", "part", "whole"}, Put(r, z)
        PROVE  Stamp[previews'[key[q]].of] = key[q]
    <3>1. pc[r] \in {"rename", "copy"} /\ RequestRight(r)
      BY <2>3 DEF Rename, Copy, PresentInv
    <3>2. previews'[key[r]].of = data[r]
      BY <2>3, <3>1, PutRecord
    <3>3. \A k \in Stamps \ {key[r]} : previews'[k] = previews[k]
      BY <2>3, <3>1, PutFacts
    <3>4. key[r] \notin overtaken => Stamp[data[r]] = key[r]
      BY <3>1 DEF RequestRight
    <3>5. key[q] \in Stamps
      BY <1>4 DEF Typed, LocalsOK
    <3> QED BY <1>4, <2>1, <3>2, <3>3, <3>4, <3>5
  <2> QED
    BY <2>2, <2>3
       DEF fsHandler, office, Resolve, Look, LookUpFailure, LookUp, FindSource, LoadManager,
           LoadOrStoreManager, Resized, ResizedAlone, Framed, StoreFailure, Store, Original,
           Peek, Lock, CheckAgain, Convert, Rename, Copy, Serve
<1> QED
  BY <1>1, <1>2, <1>3, <1>4 DEF RequestRight, SourceRight, Ref

(* ... that of the request itself, ...                                     *)
LEMMA OwnRight ==
  ASSUME Typed, PresentInv, NEW r \in Requests, fsHandler(r)
  PROVE  RequestRight(r)'
<1>a. UNCHANGED <<kind, file, side, overtaken>> /\ lost \subseteq lost'
      /\ \A k : Barren(k) => Barren(k)'
  BY FilesStay
<1>b. RequestRight(r) /\ StoreRight
  BY DEF PresentInv
<1> USE <1>a, <1>b
    DEF Typed, TypeOK, LocalsOK, RequestRight, Looked, Sourced, Ref, disk, store, office,
        Goto, Finish, Forget
<1>1. CASE Resolve(r)
  BY <1>1 DEF Resolve
<1>2. CASE Look(r)
  BY <1>2 DEF Look
<1>3. CASE LookUpFailure(r)
  BY <1>3 DEF LookUpFailure
<1>4. CASE LookUp(r)
  BY <1>4 DEF LookUp
<1>5. CASE FindSource(r)
  <2>1. file \in Versions /\ key[r] \notin overtaken /\ kind = "audio" /\ side = None
            /\ (key[r] \in lost' \/ file \notin Covered) => Barren(key[r])'
    BY <1>5 DEF FindSource, Barren
  <2>2. key'[r] = key[r]
    BY <1>5 DEF FindSource
  <2>3. key[r] \notin overtaken => Ref # None /\ key[r] = Stamp[Ref]
    BY <1>5 DEF FindSource
  <2>4. key[r] \notin overtaken /\ pc'[r] = "barren" => Barren(key[r])'
    BY <1>5, <2>1, <2>3, FindSourceFacts
  <2>5. key[r] \notin overtaken /\ pc'[r] \in {"load", "frames"} => SourceRight(r)'
    BY <1>5, <2>3, FindSourceFacts DEF SourceRight
  <2>6. pc'[r] = "frames"
           => src'[r].at = "file" /\ (key[r] \in lost' \/ file \notin Covered)
    BY <1>5, FindSourceFacts
  <2>7. pc'[r] \in {"load", "frames", "barren"}
    BY <1>5, FindSourceFacts
  <2> QED BY <2>2, <2>3, <2>4, <2>5, <2>6, <2>7
<1>6. CASE LoadManager(r)
  BY <1>6 DEF LoadManager, SourceRight
<1>7. CASE LoadOrStoreManager(r)
  BY <1>7 DEF LoadOrStoreManager, SourceRight
<1>8. CASE Resized(r)
  <2>1. PICK v \in Readable(r) :
           /\ data' = [data EXCEPT ![r] = v]
           /\ pc' = [pc EXCEPT ![r] = IF v = None THEN "alone" ELSE "store"]
    BY <1>8 DEF Resized
  <2>2. key[r] \notin overtaken /\ v # None => Stamp[v] = key[r]
    BY <1>8, ReadsRight DEF Resized
  <2> QED BY <1>8, <2>1, <2>2 DEF Resized, SourceRight
<1>9. CASE ResizedAlone(r)
  <2>1. PICK v \in Readable(r) :
           /\ data' = [data EXCEPT ![r] = v]
           /\ pc' = [pc EXCEPT ![r] = IF v = None THEN "original" ELSE "store"]
    BY <1>9 DEF ResizedAlone
  <2>2. key[r] \notin overtaken /\ v # None => Stamp[v] = key[r]
    BY <1>9, ReadsRight DEF ResizedAlone
  <2> QED BY <1>9, <2>1, <2>2 DEF ResizedAlone, SourceRight
<1>10. CASE Framed(r)
  <2>1. PICK v \in Readable(r) :
           /\ data' = [data EXCEPT ![r] = v]
           /\ pc' = [pc EXCEPT ![r] = IF v = None THEN "original"
                                      ELSE IF v \in Bare THEN "barren" ELSE "store"]
    BY <1>10 DEF Framed
  <2>2. key[r] \notin overtaken /\ v # None
           => v \in Versions /\ Stamp[v] = key[r] /\ v = file
    BY <1>10, ReadsRight DEF Framed
  <2>3. key[r] \notin overtaken /\ v # None /\ v \in Bare => Barren(key[r])'
    BY <1>10, <2>2 DEF Framed, Barren
  <2> QED BY <1>10, <2>1, <2>2, <2>3 DEF Framed
<1>11. CASE StoreFailure(r)
  BY <1>11 DEF StoreFailure
<1>12. CASE Store(r)
  BY <1>12 DEF Store
<1>13. CASE Original(r)
  BY <1>13 DEF Original
<1>14. CASE Peek(r)
  BY <1>14 DEF Peek, Present, StoreRight
<1>15. CASE Lock(r)
  BY <1>15 DEF Lock
<1>16. CASE CheckAgain(r)
  BY <1>16 DEF CheckAgain, Present, StoreRight
<1>17. CASE Convert(r)
  BY <1>17 DEF Convert
<1>18. CASE Rename(r)
  <2>1. CASE Put(r, "whole") /\ pc' = [pc EXCEPT ![r] = "serve"]
    <3>1. previews'[key[r]].of = data[r]
      BY <1>18, <2>1, PutRecord DEF Rename
    <3> QED BY <1>18, <2>1, <3>1 DEF Rename
  <2>2. CASE pc' = [pc EXCEPT ![r] = "copy"]
    BY <1>18, <2>2 DEF Rename
  <2> QED BY <1>18, <2>1, <2>2 DEF Rename
<1>19. CASE Copy(r)
  <2>1. CASE Put(r, "whole") /\ pc' = [pc EXCEPT ![r] = "serve"]
    <3>1. previews'[key[r]].of = data[r]
      BY <1>19, <2>1, PutRecord DEF Copy
    <3> QED BY <1>19, <2>1, <3>1 DEF Copy
  <2>2. CASE pc' \in {[pc EXCEPT ![r] = "copy"], [pc EXCEPT ![r] = "done"]}
    BY <1>19, <2>2 DEF Copy
  <2> QED BY <1>19, <2>1, <2>2 DEF Copy
<1>20. CASE Serve(r)
  BY <1>20 DEF Serve
<1> QED BY <1>1, <1>2, <1>3, <1>4, <1>5, <1>6, <1>7, <1>8, <1>9, <1>10, <1>11, <1>12, <1>13, <1>14, <1>15, <1>16, <1>17, <1>18, <1>19, <1>20 DEF fsHandler

(* ... and that of all when a file changes.                                *)
LEMMA ChangeRight ==
  ASSUME Typed, PresentInv, Change, NEW q \in Requests
  PROVE  RequestRight(q)'
<1>1. UNCHANGED <<kind, store, office, pc, key, src, data>> /\ calm' = {}
      /\ overtaken \subseteq overtaken'
  BY DEF Change
<1>2. key[q] \notin overtaken' => q \notin OnTheWay
  BY DEF Change
<1>3. \A k : Barren(k)' <=> Barren(k)
  BY <1>1 DEF Barren, store
<1>4. RequestRight(q)
  BY DEF PresentInv
<1> QED
  BY <1>1, <1>2, <1>3, <1>4
     DEF Typed, RequestRight, OnTheWay, Looked, Sourced, store, office

(* A request that no change met is answered right.                         *)
LEMMA AnswerRight ==
  ASSUME Typed, PresentInv, NEW r \in Requests, fsHandler(r),
         pc'[r] = "done", r \in calm', key'[r] \notin overtaken'
  PROVE  Answered(r)'
<1>a. UNCHANGED <<kind, file, side, overtaken>> /\ lost \subseteq lost'
  BY FilesStay
<1>b. RequestRight(r) /\ StoreRight
  BY DEF PresentInv
<1> USE <1>a, <1>b
    DEF Typed, TypeOK, LocalsOK, RequestRight, Looked, Sourced, disk, store, office,
        Goto, Finish, Forget
<1>1. CASE Resolve(r)
  BY <1>1 DEF Resolve, Answered
<1>2. CASE Look(r)
  BY <1>2 DEF Look
<1>3. CASE LookUpFailure(r)
  <2>1. key[r] \notin overtaken /\ key[r] \in Stamps /\ key[r] = Stamp[Ref]
    BY <1>3 DEF LookUpFailure
  <2>2. Barren(key[r])
    BY <1>3, <2>1 DEF LookUpFailure, StoreRight
  <2>3. ans'[r].kind = "none" /\ UNCHANGED <<key, lost>>
    BY <1>3 DEF LookUpFailure
  <2> QED BY <2>1, <2>2, <2>3 DEF Answered, Ref, Barren
<1>4. CASE LookUp(r)
  <2>1. key[r] \notin overtaken /\ key[r] \in Stamps /\ key[r] = Stamp[Ref]
    BY <1>4 DEF LookUp
  <2>2. cache[key[r]] # None /\ ans'[r] = [kind |-> "thumb", of |-> cache[key[r]]]
    BY <1>4 DEF LookUp
  <2>3. ans'[r].kind = "thumb" /\ ans'[r].of = cache[key[r]]
    BY <2>2
  <2>4. Stamp[cache[key[r]]] = key[r]
    BY <2>1, <2>2 DEF StoreRight
  <2> QED BY <2>1, <2>3, <2>4 DEF Answered, Ref
<1>5. CASE FindSource(r)
  BY <1>5 DEF FindSource
<1>6. CASE LoadManager(r)
  BY <1>6 DEF LoadManager
<1>7. CASE LoadOrStoreManager(r)
  BY <1>7 DEF LoadOrStoreManager
<1>8. CASE Resized(r)
  BY <1>8 DEF Resized
<1>9. CASE ResizedAlone(r)
  BY <1>9 DEF ResizedAlone
<1>10. CASE Framed(r)
  BY <1>10 DEF Framed
<1>11. CASE StoreFailure(r)
  <2>1. key[r] = Stamp[Ref] /\ Barren(key[r])
    BY <1>11 DEF StoreFailure
  <2>2. ans'[r].kind = "none" /\ UNCHANGED <<key, lost>>
    BY <1>11 DEF StoreFailure
  <2> QED BY <2>1, <2>2 DEF Answered, Ref, Barren
<1>12. CASE Store(r)
  <2>1. key[r] = Stamp[Ref] /\ Stamp[data[r]] = key[r]
    BY <1>12 DEF Store
  <2>2. ans'[r] = [kind |-> "thumb", of |-> data[r]]
    BY <1>12 DEF Store
  <2>3. ans'[r].kind = "thumb" /\ ans'[r].of = data[r]
    BY <2>2
  <2> QED BY <2>1, <2>3 DEF Answered, Ref
<1>13. CASE Original(r)
  BY <1>13 DEF Original, Answered
<1>14. CASE Peek(r)
  BY <1>14 DEF Peek
<1>15. CASE Lock(r)
  BY <1>15 DEF Lock
<1>16. CASE CheckAgain(r)
  BY <1>16 DEF CheckAgain
<1>17. CASE Convert(r)
  BY <1>17 DEF Convert, Answered
<1>18. CASE Rename(r)
  BY <1>18 DEF Rename
<1>19. CASE Copy(r)
  BY <1>19 DEF Copy, Answered
<1>20. CASE Serve(r)
  <2>1. key[r] = Stamp[file] /\ Stamp[previews[key[r]].of] = key[r]
    BY <1>20 DEF Serve
  <2>2. \E k \in {"pdf", "torn"} :
           ans'[r] = [kind |-> k, of |-> previews[key[r]].of]
    BY <1>20 DEF Serve
  <2>3. ans'[r].kind \in {"pdf", "torn"} /\ ans'[r].of = previews[key[r]].of
    BY <2>2
  <2> QED BY <2>1, <2>3 DEF Answered, Ref
<1> QED BY <1>1, <1>2, <1>3, <1>4, <1>5, <1>6, <1>7, <1>8, <1>9, <1>10, <1>11, <1>12, <1>13, <1>14, <1>15, <1>16, <1>17, <1>18, <1>19, <1>20 DEF fsHandler

(* Every step keeps the answers of the requests that no change met right.  *)
LEMMA ServesPresentStep ==
  Typed /\ PresentInv /\ [Next]_vars => ServesPresent'
<1> SUFFICES ASSUME Typed, PresentInv, [Next]_vars PROVE ServesPresent'
    OBVIOUS
<1> SUFFICES ASSUME NEW q \in Requests,
                    q \in calm', pc'[q] = "done", key'[q] \notin overtaken'
             PROVE  Answered(q)'
  <2>1. calm' \subseteq Requests
    BY TypeStep DEF TypeOK
  <2>2. ServesPresent' <=> \A s \in calm' :
           pc'[s] = "done" /\ key'[s] \notin overtaken' => Answered(s)'
    BY DEF ServesPresent, Answered, Ref
  <2> QED BY <2>1, <2>2
<1>1. ASSUME q \in calm, pc[q] = "done", key[q] \notin overtaken PROVE Answered(q)
  BY <1>1 DEF PresentInv, ServesPresent, Answered, Ref
<1>2. ASSUME NEW r \in Requests, fsHandler(r), r # q PROVE Answered(q)'
  <2>1. UNCHANGED <<kind, file, side, overtaken>> /\ lost \subseteq lost'
    BY <1>2, FilesStay
  <2>2. pc'[q] = pc[q] /\ key'[q] = key[q] /\ ans'[q] = ans[q] /\ q \in calm
    BY <1>2 DEF Typed, TypeOK, fsHandler, disk, store, office, Goto, Finish, Forget,
         Resolve, Look, LookUpFailure, LookUp, FindSource, LoadManager,
         LoadOrStoreManager, Resized, ResizedAlone, Framed, StoreFailure, Store, Original,
         Peek, Lock, CheckAgain, Convert, Rename, Copy, Serve
  <2>3. Answered(q)
    BY <1>1, <2>1, <2>2
  <2> QED BY <2>1, <2>2, <2>3 DEF Answered, Ref
<1>3. ASSUME fsHandler(q) PROVE Answered(q)'
  BY <1>3, AnswerRight
<1>4. ~Change
  BY DEF Change
<1>5. CASE UNCHANGED vars
  <2>1. Answered(q)
    BY <1>1, <1>5 DEF vars
  <2> QED BY <1>5, <2>1 DEF vars, Answered, Ref
<1> QED BY <1>2, <1>3, <1>4, <1>5 DEF Next

(* Every step keeps what requests and caches have, and answers, right.     *)
LEMMA PresentStep == Typed /\ PresentInv /\ [Next]_vars => PresentInv'
<1> SUFFICES ASSUME Typed, PresentInv, [Next]_vars, NEW q \in Requests
             PROVE  RequestRight(q)'
    BY StoreRightStep, ServesPresentStep DEF PresentInv
<1>1. ASSUME NEW r \in Requests, fsHandler(r) PROVE RequestRight(q)'
  BY <1>1, OwnRight, OthersRight
<1>2. CASE Change
  BY <1>2, ChangeRight
<1>3. CASE UNCHANGED vars
  <2>1. RequestRight(q)
    BY DEF PresentInv
  <2> QED BY <1>3, <2>1 DEF vars, RequestRight, SourceRight, Barren, Ref
<1> QED BY <1>1, <1>2, <1>3 DEF Next

(* A request during which no file changes is answered from what there is,  *)
(* unless its key was overtaken.                                           *)
THEOREM ServesPresentAlways == Spec => []ServesPresent
<1>1. Init => PresentInv
  BY DEF Init, PresentInv, StoreRight, RequestRight, Looked, Sourced, ServesPresent
<1>2. PresentInv => ServesPresent
  BY DEF PresentInv
<1> QED BY <1>1, <1>2, TypedAlways, PresentStep, PTL DEF Spec
=============================================================================
