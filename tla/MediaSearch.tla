----------------------------- MODULE MediaSearch ----------------------------
(***************************************************************************)
(* The search of media (internal/media/search_index.go) and the building   *)
(* of its index when the service starts (cmd/services/watcher/run.go).     *)
(*                                                                         *)
(* Indexes are written, file by file and in place, from the records of the *)
(* database; they are never brought up to date.  The two of n-grams, of    *)
(* names and of paths, are written in a row and opened and read together:  *)
(* they are one index here, of the n-grams of both.  A search reads the    *)
(* index of names and that of paths, adds what it finds by n-grams when    *)
(* that is little, looks every record up, and reads all records instead    *)
(* when there is no index or it leads to nothing.  Records change between  *)
(* any two of its steps, a request removes the index, file by file, and    *)
(* then the data, and the process is restarted.                            *)
(***************************************************************************)
EXTENDS IndexFiles

CONSTANTS
    Ids,        \* the records' document ids
    Values,     \* what a record may be: name and path (tokens), and whether filters let it pass
    Grams,      \* the n-grams of each token, in order
    Inside,     \* pairs of tokens of which the first is a part of the second
    Queries,    \* sequences of tokens
    Enough,     \* exact matches with which n-grams are not asked (3 * limit)
    MaxChanges, \* bound on changes of records
    MaxResets,  \* bound on resets
    MaxRestarts, \* bound on restarts
    Orders,     \* the orders in which a directory may list its files
    NoRecord

ASSUME IdsAssumption == Ids \subseteq Nat \ {0}
ASSUME EnoughAssumption == Enough \in Nat \ {0}
ASSUME ValuesAssumption ==
    /\ Values \subseteq [name : Seq(DOMAIN Grams), path : Seq(DOMAIN Grams), ok : BOOLEAN]
    /\ NoRecord \notin Values
ASSUME QueriesAssumption == Queries \subseteq Seq(DOMAIN Grams) \ {<<>>}
ASSUME BoundsAssumption == MaxChanges \in Nat /\ MaxResets \in Nat /\ MaxRestarts \in Nat

VARIABLES
    records,   \* media:uuid:, the database's records
    docs,      \* media:docid:, the ids that lead to a record
    disk,      \* the files of the indexes: absent, part or whole, and their contents
    folder,    \* is there the folder of the index?
    builder,   \* BuildMediaIndex at startup: control point, file, contents, ids to be set
    reset,     \* ResetAllMediaData: control point, files and keys it has listed
    search,    \* a search: control point, query, what it has opened and found
    changes, resets, restarts,
    indexed,   \* history: the records as the last build has read them
    altered,   \* history: ids since then changed, or removed from docs
    unseen,    \* history: what the index a search has met cannot lead it to
    touched,   \* history: ids changed since the search began
    halved,    \* history: has a removal taken a file that has not gone through?
    mixed      \* history: has the build begun among what such a removal left?

index == <<docs, disk, folder>>
bounds == <<changes, resets, restarts>>
remains == <<halved, mixed>>
history == <<indexed, altered, unseen, touched, remains>>
searchVars == <<records, index, builder, reset, search, bounds, history>>

-----------------------------------------------------------------------------
(* Files.  A dictionary is written last: its name is the last to appear.   *)

Kinds == <<"name", "path", "gram">>
Parts == <<"dat", "idx", "dict">>
Files == {Kinds[k] : k \in 1 .. 3} \X {Parts[p] : p \in 1 .. 3}
ASSUME OrdersAssumption == \A order \in Orders : order \in [1 .. 9 -> Files] /\ ToSet(order) = Files

File(n) == <<Kinds[((n - 1) \div 3) + 1], Parts[((n - 1) % 3) + 1]>>

Absent == [st |-> "absent", val |-> <<>>]
Part == [st |-> "part", val |-> <<>>]
Whole(v) == [st |-> "whole", val |-> v]

GramsOf(tokens) == FlattenSeq([i \in DOMAIN tokens |-> Grams[tokens[i]]])

(* The terms of a record in each index.                                    *)
TermsOf(kind, r) ==
    CASE kind = "name" -> r.name
      [] kind = "path" -> r.path
      [] kind = "gram" -> GramsOf(r.name) \o GramsOf(r.path)

Live == {d \in Ids : records[d] # NoRecord}

Contents(kind) == Layout([d \in Live |-> TermsOf(kind, records[d])])

(* MediaIndexExists: the six files of names and paths.                     *)
MediaIndexExists == \A n \in 1 .. 6 : disk[File(n)] # Absent

(* openMediaMmap: a broken dictionary, an absent file and an empty one     *)
(* (which cannot be mapped) are errors.                                    *)
Opens(kind) ==
    /\ disk[<<kind, "dict">>].st = "whole"
    /\ disk[<<kind, "dat">>].val # <<>>
    /\ disk[<<kind, "idx">>].val # <<>>
Opened(kind) == [p \in {"dat", "idx", "dict"} |-> disk[<<kind, p>>].val]

-----------------------------------------------------------------------------
NoBuild == [at |-> "check", n |-> 1, contents |-> <<>>, ids |-> {}]
Ended == [NoBuild EXCEPT !.at = "stopped"]
NoReset == [at |-> "none", files |-> {}, ids |-> {}, docs |-> {}]
NoSearch == [at |-> "none", query |-> <<>>, index |-> <<>>, ids |-> <<>>, found |-> {}]

(* What is noted for a search is noted while there is one.                 *)
During(S) == IF search.at = "none" THEN {} ELSE S

SearchInit ==
    /\ records \in [Ids -> Values \cup {NoRecord}]
    /\ docs = {}
    /\ disk = [f \in Files |-> Absent] /\ folder = FALSE
    /\ builder = NoBuild /\ reset = NoReset /\ search = NoSearch
    /\ changes = 0 /\ resets = 0 /\ restarts = 0
    /\ indexed = [d \in Ids |-> NoRecord] /\ altered = Ids
    /\ unseen = {} /\ touched = {} /\ halved = FALSE /\ mixed = FALSE

-----------------------------------------------------------------------------
(* The builder.                                                            *)

(* Mutant: the index is built again at every start.                        *)
CheckNot ==
    /\ builder.at = "check"
    /\ builder' = [builder EXCEPT !.at = "read"]
    /\ UNCHANGED <<records, index, reset, search, bounds, history>>

(* Only a missing index is built, and only if some storage is mounted.     *)
Check ==
    /\ builder.at = "check"
    /\ \/ builder' = Ended
       \/ ~MediaIndexExists /\ builder' = [builder EXCEPT !.at = "read"]
    /\ UNCHANGED <<records, index, reset, search, bounds, history>>

(* The folder is made if need be, and the iterator sees the database as it *)
(* is when it begins.  Files that are there stay until they are truncated. *)
Read ==
    /\ builder.at = "read"
    /\ folder' = TRUE
    /\ builder' = [at |-> "ids", n |-> 1, ids |-> Live,
                   contents |-> [k \in {Kinds[i] : i \in 1 .. 3} |-> Contents(k)]]
    /\ indexed' = records /\ altered' = {}
    /\ mixed' = halved /\ unseen' = IF halved THEN During(Ids) ELSE unseen
    /\ UNCHANGED <<records, docs, disk, reset, search, bounds, touched, halved>>

(* Mutant: the document id of the last record is not set.                  *)
SetDocIdNotLast ==
    /\ builder.at = "ids"
    /\ IF Cardinality(builder.ids) <= 1
       THEN builder' = [builder EXCEPT !.at = "create"] /\ UNCHANGED docs
       ELSE \E d \in builder.ids :
               builder' = [builder EXCEPT !.ids = @ \ {d}] /\ docs' = docs \cup {d}
    /\ UNCHANGED <<records, disk, folder, reset, search, bounds, history>>

(* The iteration leaves a document id for each record it has read.         *)
SetDocId ==
    /\ builder.at = "ids"
    /\ IF builder.ids = {}
       THEN builder' = [builder EXCEPT !.at = "create"] /\ UNCHANGED docs
       ELSE \E d \in builder.ids :
               builder' = [builder EXCEPT !.ids = @ \ {d}] /\ docs' = docs \cup {d}
    /\ UNCHANGED <<records, disk, folder, reset, search, bounds, history>>

(* A file is created, or truncated; without its folder the build ends.     *)
CreateFile ==
    /\ builder.at = "create"
    /\ IF folder
       THEN /\ disk' = [disk EXCEPT ![File(builder.n)] = Part]
            /\ builder' = [builder EXCEPT !.at = "write"]
       ELSE /\ builder' = Ended
            /\ UNCHANGED disk
    /\ UNCHANGED <<records, docs, folder, reset, search, bounds, history>>

(* What is written to a file that has been removed is lost.  After the     *)
(* last file all may be there, and of this build.                          *)
WriteFile ==
    /\ builder.at = "write"
    /\ LET f == File(builder.n)
       IN disk' = IF disk[f] = Absent THEN disk
                  ELSE [disk EXCEPT ![f] = Whole(builder.contents[f[1]][f[2]])]
    /\ builder' = IF builder.n = 9 THEN Ended
                  ELSE [builder EXCEPT !.at = "create", !.n = @ + 1]
    /\ LET through == builder.n = 9 /\ \A f \in Files : disk[f] # Absent
       IN mixed' = (mixed /\ ~through) /\ halved' = (halved /\ ~(through /\ reset.at # "unlink"))
    /\ UNCHANGED <<records, docs, folder, reset, search, bounds, indexed, altered, unseen, touched>>

-----------------------------------------------------------------------------
(* A search.                                                               *)

Begin ==
    /\ search.at = "none"
    /\ \E q \in Queries :
          search' = [NoSearch EXCEPT !.query = q,
                                     !.at = IF MediaIndexExists THEN "name" ELSE "scan"]
    /\ unseen' = CASE ~MediaIndexExists -> {} [] mixed -> Ids [] OTHER -> altered
    /\ touched' = {}
    /\ UNCHANGED <<records, index, builder, reset, bounds, indexed, altered, remains>>

OpenNames ==
    /\ search.at = "name"
    /\ search' = IF Opens("name")
                 THEN [search EXCEPT !.at = "path", !.index = [name |-> Opened("name")]]
                 ELSE [search EXCEPT !.at = "scan"]
    /\ UNCHANGED <<records, index, builder, reset, bounds, history>>

Postings(names, paths, t) == Union(Posting(names, t), Posting(paths, t))

(* A list that is said to end after the data panics, and the request ends. *)
Panics(read, terms) == \E i \in DOMAIN terms : Overruns(read, terms[i])

(* The names and paths together hold each term of the query.               *)
OpenPaths ==
    /\ search.at = "path"
    /\ LET q == search.query
           exact == IntersectAll([i \in DOMAIN q |-> Postings(search.index.name, Opened("path"), q[i])])
       IN search' = CASE ~Opens("path") -> [search EXCEPT !.at = "scan", !.index = <<>>]
                      [] Opens("path") /\ (Panics(search.index.name, q) \/ Panics(Opened("path"), q)) -> NoSearch
                      [] OTHER -> [search EXCEPT !.at = IF Len(exact) >= Enough THEN "look" ELSE "gram",
                                                 !.ids = exact, !.index = <<>>]
    /\ UNCHANGED <<records, index, builder, reset, bounds, history>>

(* Of the query's n-grams those that occur are in each of the ids added.   *)
OpenGrams ==
    /\ search.at = "gram"
    /\ LET grams == GramsOf(search.query)
           lists == [i \in DOMAIN grams |-> Union(Posting(Opened("gram"), grams[i]), <<>>)]
           fuzzy == IntersectAll(NonEmpty(lists))
       IN search' = IF Opens("gram") /\ Panics(Opened("gram"), grams) THEN NoSearch
                    ELSE [search EXCEPT !.at = "look",
                                        !.ids = IF Opens("gram") THEN Union(@, fuzzy) ELSE @]
    /\ UNCHANGED <<records, index, builder, reset, bounds, history>>

Passes(d) == records[d] # NoRecord /\ records[d].ok

(* The record is looked up by its document id, and filtered.               *)
Look ==
    /\ search.at = "look"
    /\ search.ids # <<>>
    /\ LET d == Head(search.ids)
       IN search' = [search EXCEPT !.ids = Tail(@),
                                   !.found = @ \cup {e \in {d} : e \in docs /\ Passes(e)}]
    /\ UNCHANGED <<records, index, builder, reset, bounds, history>>

(* Mutant: what the index leads to is the answer.                          *)
AfterNothing == "done"

(* Where a search goes that has found nothing.                             *)
Otherwise == "scan"

Looked ==
    /\ search.at = "look"
    /\ search.ids = <<>>
    /\ search' = [search EXCEPT !.at = IF search.found = {} THEN Otherwise ELSE "done"]
    /\ UNCHANGED <<records, index, builder, reset, bounds, history>>

Tokens(r) == ToSet(r.name) \cup ToSet(r.path)

(* Each token of the query is, or is part of, a token of name or path.     *)
Resembles(r, q) ==
    \A i \in DOMAIN q : \E t \in Tokens(r) : t = q[i] \/ <<q[i], t>> \in Inside

Scan ==
    /\ search.at = "scan"
    /\ search' = [search EXCEPT !.at = "done",
                                !.found = {d \in Ids : Passes(d) /\ Resembles(records[d], search.query)}]
    /\ UNCHANGED <<records, index, builder, reset, bounds, history>>

-----------------------------------------------------------------------------
(* Records are added, changed and removed by scans and requests; the index *)
(* is not told.                                                            *)
Change(d) ==
    /\ changes < MaxChanges
    /\ changes' = changes + 1
    /\ \E v \in Values \cup {NoRecord} :
          v # records[d] /\ records' = [records EXCEPT ![d] = v]
    /\ altered' = altered \cup {d} /\ touched' = During(touched \cup {d})
    /\ UNCHANGED <<index, builder, reset, search, resets, restarts, indexed, unseen, remains>>

-----------------------------------------------------------------------------
(* ResetAllMediaData, when a request asks for it, beside all of the above. *)

(* os.RemoveAll lists the folder once; one that is absent counts as        *)
(* removed.                                                                *)
ListFiles ==
    /\ reset.at = "none"
    /\ resets < MaxResets
    /\ resets' = resets + 1
    /\ reset' = IF folder
                THEN [reset EXCEPT !.at = "unlink", !.files = {f \in Files : disk[f] # Absent}]
                ELSE [reset EXCEPT !.at = "records"]
    /\ UNCHANGED <<records, index, builder, search, changes, restarts, history>>

(* It removes what it has listed, file by file, whoever has written it by  *)
(* now: of what is left, the first in an order of the directory.           *)
Unlink ==
    /\ reset.at = "unlink"
    /\ \E order \in Orders, i \in 1 .. 9 :
          /\ order[i] \in reset.files /\ \A j \in 1 .. i - 1 : order[j] \notin reset.files
          /\ reset' = [reset EXCEPT !.files = @ \ {order[i]}]
          /\ disk' = [disk EXCEPT ![order[i]] = Absent]
    /\ halved' = TRUE
    /\ UNCHANGED <<records, docs, folder, builder, search, bounds, indexed, altered, unseen, touched, mixed>>

(* A folder with files that a build has created since cannot be removed;   *)
(* then the data stays.                                                    *)
RemoveFolder ==
    /\ reset.at = "unlink"
    /\ reset.files = {}
    /\ IF \A f \in Files : disk[f] = Absent
       THEN /\ folder' = FALSE /\ halved' = FALSE /\ mixed' = FALSE
            /\ reset' = [reset EXCEPT !.at = "records"]
       ELSE reset' = NoReset /\ UNCHANGED <<folder, remains>>
    /\ UNCHANGED <<records, docs, disk, builder, search, bounds, indexed, altered, unseen, touched>>

(* The keys of the records are listed, and then those of the document ids. *)
ListRecords ==
    /\ reset.at = "records"
    /\ reset' = [reset EXCEPT !.at = "docs", !.ids = Live]
    /\ UNCHANGED <<records, index, builder, search, bounds, history>>

ListDocs ==
    /\ reset.at = "docs"
    /\ reset' = [reset EXCEPT !.at = "rest", !.docs = docs]
    /\ UNCHANGED <<records, index, builder, search, bounds, history>>

(* What is listed is deleted at the end, or before when it fills a batch,  *)
(* whatever has been set under its keys since.                             *)
DeleteBatch ==
    /\ reset.at \in {"docs", "rest"}
    /\ reset' = IF reset.at = "rest" THEN NoReset ELSE [reset EXCEPT !.ids = {}]
    /\ records' = [d \in Ids |-> IF d \in reset.ids THEN NoRecord ELSE records[d]]
    /\ docs' = docs \ reset.docs
    /\ altered' = altered \cup reset.ids \cup reset.docs
    /\ touched' = During(touched \cup reset.ids) /\ unseen' = During(unseen \cup reset.docs)
    /\ UNCHANGED <<disk, folder, builder, search, bounds, indexed, remains>>

(* The process is restarted: a file being written stays as it is, and so   *)
(* does what a reset has not removed.                                      *)
Restart ==
    /\ restarts < MaxRestarts
    /\ restarts' = restarts + 1
    /\ unseen' = {} /\ touched' = {}
    /\ builder' = NoBuild /\ reset' = NoReset /\ search' = NoSearch
    /\ UNCHANGED <<records, index, changes, resets, indexed, altered, remains>>

SearchNext ==
    \/ Check \/ Read \/ SetDocId \/ CreateFile \/ WriteFile
    \/ Begin \/ OpenNames \/ OpenPaths \/ OpenGrams \/ Look \/ Looked \/ Scan
    \/ \E d \in Ids : Change(d)
    \/ ListFiles \/ Unlink \/ RemoveFolder \/ ListRecords \/ ListDocs \/ DeleteBatch
    \/ Restart

SearchSpec == SearchInit /\ [][SearchNext]_searchVars

-----------------------------------------------------------------------------
(* The values that the variables take.                                     *)
SearchTypeOK ==
    /\ records \in [Ids -> Values \cup {NoRecord}]
    /\ docs \subseteq Ids
    /\ \A f \in Files : disk[f].st \in {"absent", "part", "whole"}
    /\ ~folder => \A f \in Files : disk[f] = Absent
    /\ builder.at \in {"check", "read", "ids", "create", "write", "stopped"}
    /\ builder.n \in 1 .. 9 /\ builder.ids \subseteq Ids
    /\ reset.at \in {"none", "unlink", "records", "docs", "rest"}
    /\ reset.files \subseteq Files /\ reset.ids \subseteq Ids /\ reset.docs \subseteq Ids
    /\ search.at \in {"none", "name", "path", "gram", "look", "scan", "done"}
    /\ search.found \subseteq Ids
    /\ changes \in 0 .. MaxChanges /\ resets \in 0 .. MaxResets /\ restarts \in 0 .. MaxRestarts

(* What the data of IndexFiles must do, whoever writes and reads it when:  *)
(* what is laid out of records is read back, ...                           *)
Terms == DOMAIN Grams \cup UNION {ToSet(GramsOf(q)) : q \in Queries}
Layouts == [Ids -> Values \cup {NoRecord}]
Plan(kind, recs) == Layout([d \in {e \in Ids : recs[e] # NoRecord} |-> TermsOf(kind, recs[d])])
PostingsRight ==
    \A recs \in Layouts, k \in 1 .. 3, t \in Terms :
        LET ids == Posting(Plan(Kinds[k], recs), t)
        IN ids \in Seq(Ids) /\ ToSet(ids) = {d \in Ids : /\ recs[d] # NoRecord
                                                         /\ t \in ToSet(TermsOf(Kinds[k], recs[d]))}

(* ... sets of ids are sorted, and what is in each of some lists is in     *)
(* their intersection.                                                     *)
Sorted == {Ascending(S) : S \in SUBSET Ids}
ListsRight ==
    /\ \A S \in SUBSET Ids : Ascending(S) \in Seq(Ids) /\ ToSet(Ascending(S)) = S
    /\ \A q \in Queries : \A lists \in [DOMAIN q -> Sorted] :
          LET ids == IntersectAll(lists)
          IN ids \in Seq(Ids) /\ ToSet(ids) = {d \in Ids : \A i \in DOMAIN q : d \in ToSet(lists[i])}
    /\ \A q \in Queries : \A lists \in [DOMAIN GramsOf(q) -> Sorted] :
          IntersectAll(NonEmpty(lists)) \in Seq(Ids)

(* Whoever sees that the index exists, and can open names and paths, reads *)
(* from them every document of every term as the last build has read it.   *)
IndexIsWhole ==
    MediaIndexExists /\ Opens("name") /\ Opens("path") =>
        \A kind \in {"name", "path"}, t \in DOMAIN Grams :
            ToSet(Posting(Opened(kind), t)) =
                {d \in Ids : indexed[d] # NoRecord /\ t \in ToSet(TermsOf(kind, indexed[d]))}

(* So it is while the index is written, however often builds were broken   *)
(* off and begun again over their files, and however a removal takes files *)
(* beside a build.  It is not so when the last build has begun among files *)
(* that a removal, under way, broken off or failed, had left: of those     *)
(* nothing is said until a build has all its files there or a removal has  *)
(* gone through.                                                           *)
ExistsIsWhole == ~mixed => IndexIsWhole

Matches(r, q) == r.ok /\ \A i \in DOMAIN q : q[i] \in Tokens(r)

(* A search finds every record that matches it and has not changed while   *)
(* it ran nor, if it met an index, since the build had read the records,   *)
(* whatever the build, a reset and a restart do in the meantime.  Excused  *)
(* are a record whose document id a reset has deleted since it was set,    *)
(* and all of a search that runs while the index is that of a build begun  *)
(* among what a removal had left.                                          *)
FindsIndexed ==
    search.at = "done" =>
        \A d \in Live \ (unseen \cup touched) :
            Matches(records[d], search.query) => d \in search.found

(* A search that finds nothing tells the truth, though the index knows     *)
(* nothing of the records that came after it: no record matched that was   *)
(* there, unchanged, all the time.                                         *)
NothingIsTrue ==
    search.at = "done" /\ search.found = {} =>
        \A d \in Live \ touched : ~Matches(records[d], search.query)
=============================================================================
