----------------------------- MODULE FileServing ----------------------------
(***************************************************************************)
(* Thumbnails and previews of a file (cmd/services/api/fs.go,              *)
(* internal/media/thumbnail.go, cover.go, thumb/vips_worker.go,            *)
(* video_thumb_worker.go and internal/fs/pdf_preview.go).                  *)
(*                                                                         *)
(* A request for a thumbnail looks at the file, or at a picture beside it  *)
(* that serves as its cover, for the key of the cache, and only when the   *)
(* cache has nothing looks at them again to make the thumbnail, through    *)
(* the batching queue, which returns the result of the request's own job   *)
(* or an error (Calls).  A request for the preview of a document has it    *)
(* converted once, under a lock of its key.  Nothing keeps the files from  *)
(* changing in between.                                                    *)
(*                                                                         *)
(* All requests are for one file, one size and one quality.  A file is     *)
(* known by its content, of which the keys of the caches have no more than *)
(* the stamp: seconds of change and size.                                  *)
(***************************************************************************)
EXTENDS Naturals

CONSTANTS
    Requests,
    Versions,  \* contents of files
    Stamp,     \* ModTime().Unix() and Size() of each
    Covered,   \* contents of audio and video files that have a cover in them
    Bare,      \* contents ffmpeg finds no frame in
    MaxChanges, \* bound on the changes of files
    None

ASSUME VersionsAssumption == None \notin Versions /\ Covered \cup Bare \subseteq Versions
ASSUME RequestsAssumption == None \notin Requests
ASSUME ChangesAssumption == MaxChanges \in Nat

Kinds == {"image", "audio", "video", "office"}
Stamps == {Stamp[v] : v \in Versions}

VARIABLES
    kind,      \* of the file, by its extension
    file, side, \* content of the file and of the picture beside it, None if missing
    cache, fails, \* thumb: and thumbfail: in the database
    previews, holder, \* preview_pdf/<key>.pdf and the locks of pdfPreviewLocks
    manager,   \* the queue in VipsWorker.bytesMgrs, named for the request that made it
    pc, key, src, data, uses, \* each request's locals
    ans,       \* each request's answer
    changes,   \* bounded counter
    calm,      \* history: requests during which no file has changed
    overtaken, \* history: keys some file changed under while a request was on its way
    lost,      \* history: keys for which a cover could not be copied
    copied     \* history: keys whose preview could not be renamed

disk == <<kind, file, side>>
store == <<cache, fails, lost>>
office == <<previews, holder, copied>>
vars == <<kind, file, side, cache, fails, previews, holder, manager, pc, key,
          src, data, uses, ans, changes, calm, overtaken, lost, copied>>

(* Where a thumbnail is made from: a copy of the cover in the file, or the *)
(* path of the picture beside it or of the file, read when it is its turn. *)
Sources == [at : {"side", "file"}, of : {None}] \cup [at : {"copy"}, of : Versions]
Answers == [kind : {"thumb", "original", "pdf", "torn"}, of : Versions]
              \cup [kind : {"none", "missing", "error"}, of : {None}]
Previews == [of : Versions, size : {"empty", "part", "whole"}]

Init ==
    /\ kind \in Kinds
    /\ file \in Versions /\ side \in Versions \cup {None}
    /\ cache = [k \in Stamps |-> None]
    /\ fails = {}
    /\ previews = [k \in Stamps |-> None]
    /\ holder = [k \in Stamps |-> None]
    /\ manager = None
    /\ pc = [r \in Requests |-> "new"]
    /\ key = [r \in Requests |-> None]
    /\ src = [r \in Requests |-> None]
    /\ data = [r \in Requests |-> None]
    /\ uses = [r \in Requests |-> None]
    /\ ans = [r \in Requests |-> None]
    /\ changes = 0
    /\ calm = {} /\ overtaken = {} /\ lost = {} /\ copied = {}

(* A request goes on to point p, or ends with the answer of kind k.        *)
Goto(r, p) == pc' = [pc EXCEPT ![r] = p] /\ UNCHANGED ans
Finish(r, k, v) ==
    /\ pc' = [pc EXCEPT ![r] = "done"]
    /\ ans' = [ans EXCEPT ![r] = [kind |-> k, of |-> v]]

Forget(r) ==
    /\ src' = [src EXCEPT ![r] = None]
    /\ data' = [data EXCEPT ![r] = None]
    /\ uses' = [uses EXCEPT ![r] = None]

(***************************************************************************)
(* Thumbnails.                                                             *)
(***************************************************************************)
(* resolveFSFile.                                                          *)
Resolve(r) ==
    /\ pc[r] = "new"
    /\ IF file = None THEN Finish(r, "missing", None) /\ UNCHANGED key
       ELSE /\ Goto(r, IF kind = "office" THEN "peek" ELSE "look")
            /\ key' = [key EXCEPT ![r] = Stamp[file]]
    /\ calm' = calm \cup {r}
    /\ UNCHANGED <<disk, store, office, manager, src, data, uses, changes, overtaken>>

(* Mutation for ServesPresent: the key has the stamp of the file.          *)
LookAtFile(r) ==
    /\ pc[r] = "look"
    /\ Goto(r, "failed")
    /\ UNCHANGED <<disk, store, office, manager, key, src, data, uses, changes, calm,
                   overtaken>>

(* ThumbnailCacheRefPath: the picture beside the file makes the key.       *)
Look(r) ==
    /\ pc[r] = "look"
    /\ key' = [key EXCEPT ![r] = IF side = None THEN @ ELSE Stamp[side]]
    /\ Goto(r, "failed")
    /\ UNCHANGED <<disk, store, office, manager, src, data, uses, changes, calm, overtaken>>

LookUpFailure(r) ==
    /\ pc[r] = "failed"
    /\ IF key[r] \in fails THEN Finish(r, "none", None) ELSE Goto(r, "cached")
    /\ UNCHANGED <<disk, store, office, manager, key, src, data, uses, changes, calm,
                   overtaken>>

LookUp(r) ==
    /\ pc[r] = "cached"
    /\ LET v == cache[key[r]] IN
          IF v # None THEN Finish(r, "thumb", v) ELSE Goto(r, "source")
    /\ UNCHANGED <<disk, store, office, manager, key, src, data, uses, changes, calm,
                   overtaken>>

HasCover == kind \in {"audio", "video"} /\ file \in Covered

(* maybeExtractCoverToTempImage, which may fail to write the copy, and     *)
(* what GenerateThumbnail does without a cover: sound has no thumbnail     *)
(* then.                                                                   *)
FindSource(r) ==
    LET from(at, v, p) == src' = [src EXCEPT ![r] = [at |-> at, of |-> v]] /\ Goto(r, p)
        without == \/ kind = "image" /\ from("file", None, "load")
                   \/ kind = "video" /\ from("file", None, "frames")
                   \/ kind = "audio" /\ Goto(r, "barren") /\ UNCHANGED src IN
    /\ pc[r] = "source"
    /\ \/ side # None /\ from("side", None, "load") /\ UNCHANGED lost
       \/ side = None /\ HasCover /\ from("copy", file, "load") /\ UNCHANGED lost
       \/ side = None /\ HasCover /\ without /\ lost' = lost \cup {key[r]}
       \/ side = None /\ ~HasCover /\ without /\ UNCHANGED lost
    /\ UNCHANGED <<disk, cache, fails, office, manager, key, data, uses, changes, calm,
                   overtaken>>

(* ResizeWEBPBytes: managers.Load, and New and LoadOrStore if there is     *)
(* none; the one made for nothing is forgotten.                            *)
LoadManager(r) ==
    /\ pc[r] = "load"
    /\ uses' = [uses EXCEPT ![r] = manager]
    /\ Goto(r, IF manager = None THEN "create" ELSE "queue")
    /\ UNCHANGED <<disk, store, office, manager, key, src, data, changes, calm, overtaken>>

(* Mutation for OneManager: Store.                                         *)
StoreManager(r) ==
    /\ pc[r] = "create"
    /\ manager' = r
    /\ uses' = [uses EXCEPT ![r] = r]
    /\ Goto(r, "queue")
    /\ UNCHANGED <<disk, store, office, key, src, data, changes, calm, overtaken>>

LoadOrStoreManager(r) ==
    /\ pc[r] = "create"
    /\ manager' = IF manager = None THEN r ELSE manager
    /\ uses' = [uses EXCEPT ![r] = manager']
    /\ Goto(r, "queue")
    /\ UNCHANGED <<disk, store, office, key, src, data, changes, calm, overtaken>>

(* What is read where the thumbnail is made from, None if nothing can be.  *)
Readable(r) ==
    {None, CASE src[r].at = "side" -> side [] src[r].at = "file" -> file [] OTHER -> src[r].of}

(* Submit and runVipsthumbnailBatchBytes: the pictures of the batch are    *)
(* read, or there is an error; then a command for this one alone is tried. *)
Resized(r) ==
    /\ pc[r] = "queue"
    /\ \E v \in Readable(r) :
          /\ data' = [data EXCEPT ![r] = v]
          /\ Goto(r, IF v = None THEN "alone" ELSE "store")
    /\ UNCHANGED <<disk, store, office, manager, key, src, uses, changes, calm, overtaken>>

(* generateImageThumbnailWEBPWithVipsCLI.                                  *)
ResizedAlone(r) ==
    /\ pc[r] = "alone"
    /\ \E v \in Readable(r) :
          /\ data' = [data EXCEPT ![r] = v]
          /\ Goto(r, IF v = None THEN "original" ELSE "store")
    /\ UNCHANGED <<disk, store, office, manager, key, src, uses, changes, calm, overtaken>>

(* runFFmpegThumbBatch: an empty picture says that there is no frame.      *)
Framed(r) ==
    /\ pc[r] = "frames"
    /\ \E v \in Readable(r) :
          /\ data' = [data EXCEPT ![r] = v]
          /\ Goto(r, IF v = None THEN "original" ELSE IF v \in Bare THEN "barren" ELSE "store")
    /\ UNCHANGED <<disk, store, office, manager, key, src, uses, changes, calm, overtaken>>

(* What is made is served whether or not it could be stored.               *)
StoreFailure(r) ==
    /\ pc[r] = "barren"
    /\ fails' \in {fails, fails \cup {key[r]}}
    /\ Finish(r, "none", None)
    /\ Forget(r)
    /\ UNCHANGED <<disk, cache, lost, office, manager, key, changes, calm, overtaken>>

Store(r) ==
    /\ pc[r] = "store"
    /\ cache' \in {cache, [cache EXCEPT ![key[r]] = data[r]]}
    /\ Finish(r, "thumb", data[r])
    /\ Forget(r)
    /\ UNCHANGED <<disk, fails, lost, office, manager, key, changes, calm, overtaken>>

(* c.File(path), after any error.                                          *)
Original(r) ==
    /\ pc[r] = "original"
    /\ IF file = None THEN Finish(r, "missing", None) ELSE Finish(r, "original", file)
    /\ Forget(r)
    /\ UNCHANGED <<disk, store, office, manager, key, changes, calm, overtaken>>

(***************************************************************************)
(* Previews.                                                               *)
(***************************************************************************)
Present(k) == previews[k] # None /\ previews[k].size # "empty"

Peek(r) ==
    /\ pc[r] = "peek"
    /\ Goto(r, IF Present(key[r]) THEN "serve" ELSE "lock")
    /\ UNCHANGED <<disk, store, office, manager, key, src, data, uses, changes, calm,
                   overtaken>>

Lock(r) ==
    /\ pc[r] = "lock"
    /\ holder[key[r]] = None
    /\ holder' = [holder EXCEPT ![key[r]] = r]
    /\ Goto(r, "recheck")
    /\ UNCHANGED <<disk, store, previews, copied, manager, key, src, data, uses, changes,
                   calm, overtaken>>

Unlock(r) == holder' = [holder EXCEPT ![key[r]] = None]

(* Mutation for ConvertsOnce: no second look.                              *)
CheckNothing(r) ==
    /\ pc[r] = "recheck"
    /\ Goto(r, "convert") /\ UNCHANGED holder
    /\ UNCHANGED <<disk, store, previews, copied, manager, key, src, data, uses, changes,
                   calm, overtaken>>

CheckAgain(r) ==
    /\ pc[r] = "recheck"
    /\ IF Present(key[r]) THEN Goto(r, "serve") /\ Unlock(r)
       ELSE Goto(r, "convert") /\ UNCHANGED holder
    /\ UNCHANGED <<disk, store, previews, copied, manager, key, src, data, uses, changes,
                   calm, overtaken>>

(* Mutation for ServesWhole: LibreOffice writes where previews are served  *)
(* from.                                                                   *)
ConvertInPlace(r) ==
    /\ pc[r] = "convert"
    /\ \/ /\ file # None
          /\ data' = [data EXCEPT ![r] = file]
          /\ previews' = [previews EXCEPT ![key[r]] = [of |-> file, size |-> "part"]]
          /\ Goto(r, "rename") /\ UNCHANGED holder
       \/ Finish(r, "error", None) /\ Unlock(r) /\ UNCHANGED <<previews, data>>
    /\ UNCHANGED <<disk, store, copied, manager, key, src, uses, changes, calm, overtaken>>

(* LibreOffice reads the file, or there is no LibreOffice, no file or no   *)
(* PDF.                                                                    *)
Convert(r) ==
    /\ pc[r] = "convert"
    /\ \/ /\ file # None
          /\ data' = [data EXCEPT ![r] = file]
          /\ Goto(r, "rename") /\ UNCHANGED holder
       \/ Finish(r, "error", None) /\ Unlock(r) /\ UNCHANGED data
    /\ UNCHANGED <<disk, store, previews, copied, manager, key, src, uses, changes, calm,
                   overtaken>>

Put(r, size) == previews' = [previews EXCEPT ![key[r]] = [of |-> data[r], size |-> size]]

(* The rename may fail; then the PDF is copied over what is there ...      *)
Rename(r) ==
    /\ pc[r] = "rename"
    /\ \/ Put(r, "whole") /\ Goto(r, "serve") /\ Unlock(r) /\ UNCHANGED copied
       \/ /\ copied' = copied \cup {key[r]}
          /\ Goto(r, "copy") /\ UNCHANGED <<previews, holder>>
    /\ UNCHANGED <<disk, store, manager, key, src, data, uses, changes, calm, overtaken>>

(* ... piece by piece, unless that fails and leaves what it has written.   *)
Copy(r) ==
    /\ pc[r] = "copy"
    /\ \/ /\ \E size \in {"empty", "part"} : Put(r, size)
          /\ Goto(r, "copy") /\ UNCHANGED holder
       \/ Put(r, "whole") /\ Goto(r, "serve") /\ Unlock(r)
       \/ Finish(r, "error", None) /\ Unlock(r) /\ UNCHANGED previews
    /\ UNCHANGED <<disk, store, copied, manager, key, src, data, uses, changes, calm,
                   overtaken>>

(* c.File(pdfPath).                                                        *)
Serve(r) ==
    /\ pc[r] = "serve"
    /\ LET p == previews[key[r]] IN
          Finish(r, IF p.size = "whole" THEN "pdf" ELSE "torn", p.of)
    /\ Forget(r)
    /\ UNCHANGED <<disk, store, office, manager, key, changes, calm, overtaken>>

(***************************************************************************)
(* Files change.                                                           *)
(***************************************************************************)
(* Requests that have looked at a file and will again.                     *)
OnTheWay == {r \in Requests : pc[r] \notin {"new", "barren", "store", "original", "rename",
                                            "copy", "serve", "done"}}

Change ==
    /\ changes < MaxChanges
    /\ changes' = changes + 1
    /\ \/ file' \in (Versions \cup {None}) \ {file} /\ UNCHANGED side
       \/ side' \in (Versions \cup {None}) \ {side} /\ UNCHANGED file
    /\ calm' = {}
    /\ overtaken' = overtaken \cup {key[r] : r \in OnTheWay}
    /\ UNCHANGED <<kind, store, office, manager, pc, key, src, data, uses, ans>>

fsHandler(r) ==
    \/ Resolve(r) \/ Look(r) \/ LookUpFailure(r) \/ LookUp(r) \/ FindSource(r)
    \/ LoadManager(r) \/ LoadOrStoreManager(r) \/ Resized(r)
    \/ ResizedAlone(r) \/ Framed(r) \/ StoreFailure(r) \/ Store(r) \/ Original(r)
    \/ Peek(r) \/ Lock(r) \/ CheckAgain(r) \/ Convert(r) \/ Rename(r) \/ Copy(r) \/ Serve(r)

Next == Change \/ \E r \in Requests : fsHandler(r)

Spec == Init /\ [][Next]_vars

(***************************************************************************)
(* Properties.                                                             *)
(***************************************************************************)
(* The variables have their types.                                         *)
TypeOK ==
    /\ kind \in Kinds
    /\ file \in Versions \cup {None} /\ side \in Versions \cup {None}
    /\ cache \in [Stamps -> Versions \cup {None}]
    /\ fails \in SUBSET Stamps
    /\ previews \in [Stamps -> Previews \cup {None}]
    /\ holder \in [Stamps -> Requests \cup {None}]
    /\ manager \in Requests \cup {None}
    /\ key \in [Requests -> Stamps \cup {None}]
    /\ src \in [Requests -> Sources \cup {None}]
    /\ data \in [Requests -> Versions \cup {None}]
    /\ uses \in [Requests -> Requests \cup {None}]
    /\ ans \in [Requests -> Answers \cup {None}]
    /\ calm \in SUBSET Requests
    /\ overtaken \in SUBSET Stamps /\ lost \in SUBSET Stamps /\ copied \in SUBSET Stamps

(* docs/thumbnails.md:107 and docs/office.md:29: a request during which no *)
(* file changes is answered from the file, or the picture beside it, as it *)
(* is, and finds nothing only if there is nothing or a cover could not be  *)
(* copied, unless the caches have for this stamp what a change overtook,   *)
(* or what another content with it left there.                             *)
ServesPresent ==
    \A r \in calm : pc[r] = "done" /\ key[r] \notin overtaken =>
        /\ ans[r].kind = "thumb" =>
               Stamp[ans[r].of] = Stamp[IF side # None THEN side ELSE file]
        /\ ans[r].kind \in {"pdf", "torn"} => Stamp[ans[r].of] = Stamp[file]
        /\ ans[r].kind = "none" =>
               \/ key[r] \in lost
               \/ \E v \in Versions \ Covered :
                     /\ Stamp[v] = Stamp[IF side # None THEN side ELSE file]
                     /\ kind = "audio" \/ v \in Bare

(* A preview is served whole, while others make it and whatever they meet, *)
(* unless a rename within the directory of the previews has failed.        *)
ServesWhole == \A r \in Requests : ans[r] # None /\ ans[r].kind = "torn" => key[r] \in copied

(* Requests for a preview that is there wait for it, and do not make it    *)
(* again.                                                                  *)
ConvertsOnce == [][\A r \in Requests : Convert(r) => ~Present(key[r])]_vars

(* docs/thumbnails.md:16: thumbnails of one size and quality are batched   *)
(* by one queue, also when the first requests for them come at once.       *)
OneManager == \A r \in Requests : uses[r] # None => uses[r] = manager
=============================================================================
