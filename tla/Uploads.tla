------------------------------- MODULE Uploads ------------------------------
(***************************************************************************)
(* Uploads: the browser's queue (web/src/lib/upload) and the handlers that *)
(* receive files (cmd/services/api/upload.go, upload_merge_chunks_api.go,  *)
(* uploaded_chunks_api.go).                                                *)
(*                                                                         *)
(* A small file goes in one request.  A large one goes in chunks, each     *)
(* kept in a file of its own in a directory named for the content; the     *)
(* chunks that directory has already are not sent again, and a last        *)
(* request appends them to the file.  The browser's code runs from await   *)
(* to await: pausing an upload breaks off the request it is sending, if it *)
(* is sending one, and resuming it starts another run of upload() even if  *)
(* the first has not ended.  A handler whose connection breaks goes on     *)
(* until it notices.                                                       *)
(***************************************************************************)
EXTENDS Naturals, FiniteSets

CONSTANTS
    Tasks,      \* uploads, numbered in the order they were added to the queue
    Files,      \* contents
    Size,       \* number of chunks of each; a file of one chunk is sent directly
    Names,      \* paths they are uploaded to
    UploadJobs, \* what uploads there may be: file, name, replace
    Limit,      \* maxConcurrent
    MaxTries,   \* maxRetries
    MaxCopies,  \* bound on the numbers of unique names
    MaxRuns,    \* bound on the runs of upload() for a task
    MaxStops,   \* bound on pauses, removals, lost connections and failures
    Other,      \* what a file holds that was there before
    Nothing

ASSUME SizeAssumption == \A f \in Files : Size[f] \in Nat \ {0}
ASSUME LimitAssumption == Limit \in Nat \ {0} /\ MaxTries \in Nat \ {0}
ASSUME TaskAssumption == Tasks \subseteq Nat /\ IsFiniteSet(Tasks)
ASSUME JobAssumption == UploadJobs \subseteq [file : Files, name : Names, replace : BOOLEAN]

VARIABLES
    job,       \* each task's file, name and replace flag
    task,      \* status, upload.status, upload.error, aborted, runs so far and
               \* the run that made upload.xhr
    running,   \* keys of the queue's map of running tasks
    run,       \* each run's control point, chunk, attempt and uploadedChunks
    requests,  \* requests on their way and in handlers
    chunk,     \* the chunk files: missing, partly written or whole
    file,      \* the files: what each part of it holds
    stops,     \* bounded counter
    calm       \* history: tasks not paused or removed that lost no connection

uploadVars == <<job, task, running, run, requests, chunk, file, stops, calm>>

Chunks == UNION {0 .. Size[f] - 1 : f \in Files}
Runs == Tasks \X (1 .. MaxRuns)
Paths == Names \X (0 .. MaxCopies)
FileOf(q) == job[q.run[1]].file
Contents == ((Files \cup {Other}) \X BOOLEAN) \cup {Nothing}
Empty == [i \in Chunks |-> Nothing]
Old == [i \in Chunks |-> <<Other, TRUE>>]

ASSUME BoundAssumption == MaxCopies \in Nat /\ MaxRuns \in Nat \ {0} /\ MaxStops \in Nat
ASSUME OtherAssumption == Other \notin Files
ASSUME NothingAssumption ==
    /\ Nothing \notin Paths \cup {<<Other, TRUE>>}
    /\ Nothing \notin [Chunks -> Contents]

Idle == [at |-> "none", i |-> 0, try |-> 0, have |-> {}]
Request(r, kind, i, try) ==
    [run |-> r, kind |-> kind, i |-> i, try |-> try, at |-> "sent", dest |-> Nothing,
     own |-> FALSE, whole |-> TRUE, cut |-> FALSE]

(***************************************************************************)
(* The queue.                                                              *)
(***************************************************************************)
(* processQueue and executeTask: pending tasks start in order while there  *)
(* is room.  k, n, u and q are the tasks, running tasks, runs and requests *)
(* that the caller leaves.                                                 *)
ProcessQueue(k, n, u, q) ==
    LET pending == {t \in Tasks : k[t].status = "pending"}
        starts == {t \in pending :
                      Cardinality(n) + Cardinality({v \in pending : v < t}) < Limit}
        direct == {t \in starts : Size[job[t].file] = 1}
        new(t) == <<t, k[t].runs + 1>>
    IN  /\ task' = [t \in Tasks |->
              IF t \in starts
              THEN [k[t] EXCEPT !.status = "running", !.shown = "uploading",
                                !.aborted = FALSE, !.runs = @ + 1,
                                !.xhr = IF t \in direct THEN k[t].runs + 1 ELSE @]
              ELSE k[t]]
        /\ running' = n \cup starts
        /\ run' = [r \in Runs |->
              IF r[1] \in starts /\ r = new(r[1])
              THEN [Idle EXCEPT !.at = IF r[1] \in direct THEN "direct" ELSE "query"]
              ELSE u[r]]
        /\ requests' = q \cup {Request(new(t), "direct", 0, 1) : t \in direct}

(* Mutation for Settles: nobody starts the next task.                      *)
ReturnOnly(r, error, k, q) ==
    LET t == r[1]
        end == IF k[t].aborted \/ k[t].status = "removed" THEN k[t]
               ELSE [k[t] EXCEPT !.status = IF error THEN "failed" ELSE "completed",
                                 !.shown = IF error THEN "error" ELSE "done"]
    IN  /\ task' = [k EXCEPT ![t] = end]
        /\ running' = running \ {t}
        /\ run' = [run EXCEPT ![r] = [Idle EXCEPT !.at = "over"]]
        /\ requests' = q

(* A run of upload() returns, with or without an error, to executeTask.    *)
Return(r, error, k, q) ==
    LET t == r[1]
        end == IF k[t].aborted \/ k[t].status = "removed" THEN k[t]
               ELSE [k[t] EXCEPT !.status = IF error THEN "failed" ELSE "completed",
                                 !.shown = IF error THEN "error" ELSE "done"]
    IN  ProcessQueue([k EXCEPT ![t] = end], running \ {t},
                     [run EXCEPT ![r] = [Idle EXCEPT !.at = "over"]], q)

Shown(t, s) == [task EXCEPT ![t].shown = s]
Failing(t) == [task EXCEPT ![t].shown = "error", ![t].failed = TRUE]

(* The loop over the chunks, from the i-th on.                             *)
GoOn(r, i, have, q) ==
    LET t == r[1]
        missing == {j \in i .. Size[job[t].file] - 1 : j \notin have}
        next == CHOOSE j \in missing : \A m \in missing : j <= m
    IN  IF task[t].shown \in {"paused", "canceled"} THEN Return(r, TRUE, task, q)
        ELSE /\ UNCHANGED running
             /\ IF missing # {}
                THEN /\ run' = [run EXCEPT ![r] = [at |-> "chunk", i |-> next, try |-> 1,
                                                   have |-> have]]
                     /\ requests' = q \cup {Request(r, "chunk", next, 1)}
                     /\ task' = [task EXCEPT ![t].xhr = r[2]]
                ELSE /\ run' = [run EXCEPT ![r] = [Idle EXCEPT !.at = "merge"]]
                     /\ requests' = q \cup {Request(r, "merge", 0, 1)}
                     /\ task' = Shown(t, "saving")

(* Mutation for DoneIsWhole: a chunk that fails once is passed over.       *)
ChunkPassedOver(r, q) == GoOn(r, run[r].i + 1, run[r].have \cup {run[r].i}, q)

(* An attempt to send a chunk has failed.                                  *)
ChunkFails(r, q) ==
    LET t == r[1] IN
    IF task[t].shown = "paused" THEN Return(r, TRUE, task, q)
    ELSE IF run[r].try < MaxTries
         THEN /\ run' = [run EXCEPT ![r].at = "wait"]
              /\ requests' = q
              /\ UNCHANGED <<task, running>>
         ELSE Return(r, FALSE, Failing(t), q)

(* getUploadedChunks: what is in the directory, whole or not; nothing if   *)
(* the query fails.                                                        *)
Listed(r) ==
    LET f == job[r[1]].file IN
    /\ run[r].at = "query"
    /\ \/ GoOn(r, 0, {i \in Chunks : chunk[f][i] # Nothing}, requests) /\ UNCHANGED stops
       \/ stops < MaxStops /\ stops' = stops + 1 /\ GoOn(r, 0, {}, requests)
    /\ UNCHANGED <<job, chunk, file, calm>>

WaitOver(r) ==
    LET t == r[1] IN
    /\ run[r].at = "wait"
    /\ IF task[t].shown = "paused" THEN Return(r, TRUE, task, requests)
       ELSE IF task[t].shown = "canceled" THEN Return(r, FALSE, Failing(t), requests)
       ELSE /\ run' = [run EXCEPT ![r].at = "chunk", ![r].try = @ + 1]
            /\ requests' = requests \cup {Request(r, "chunk", run[r].i, run[r].try + 1)}
            /\ task' = [task EXCEPT ![t].xhr = r[2]]
            /\ UNCHANGED running
    /\ UNCHANGED <<job, chunk, file, stops, calm>>

(* xhr.abort() breaks off the request that was made last, if it is not     *)
(* answered yet; the run that waits for it returns, or waits before its    *)
(* next attempt to send a chunk.                                           *)
Abort(t) == {q \in requests : /\ task[t].status = "running"
                              /\ q.run = <<t, task[t].xhr>> /\ q.kind # "merge" /\ ~q.cut}
CutOff(qs) == (requests \ qs) \cup {[q EXCEPT !.cut = TRUE] : q \in qs}
Over(qs, again) ==
    [r \in Runs |->
        IF ~ \E q \in qs : q.run = r THEN run[r]
        ELSE IF again /\ run[r].at = "chunk" /\ run[r].try < MaxTries
             THEN [run[r] EXCEPT !.at = "wait"]
             ELSE [Idle EXCEPT !.at = "over"]]

(* task.aborted is set, and the task leaves the map, only if it is running.*)
Stop(t, status, shown) ==
    /\ stops < MaxStops
    /\ stops' = stops + 1
    /\ calm' = calm \ {t}
    /\ ProcessQueue([task EXCEPT ![t].status = status, ![t].shown = shown,
                                 ![t].aborted = @ \/ task[t].status = "running"],
                    IF task[t].status = "running" THEN running \ {t} ELSE running,
                    Over(Abort(t), status = "removed"), CutOff(Abort(t)))
    /\ UNCHANGED <<job, chunk, file>>

PauseTask(t) == task[t].status \in {"running", "pending"} /\ Stop(t, "paused", "paused")
RemoveTask(t) == task[t].status # "removed" /\ Stop(t, "removed", "canceled")

ResumeTask(t) ==
    /\ task[t].status = "paused" /\ task[t].runs < MaxRuns
    /\ ProcessQueue([task EXCEPT ![t].status = "pending", ![t].shown = "uploading",
                                 ![t].aborted = FALSE],
                    running, run, requests)
    /\ UNCHANGED <<job, chunk, file, stops, calm>>

RetryTask(t) ==
    /\ task[t].status = "failed" /\ task[t].runs < MaxRuns
    /\ ProcessQueue([task EXCEPT ![t].status = "pending", ![t].shown = "uploading",
                                 ![t].failed = FALSE, ![t].aborted = FALSE],
                    running, run, requests)
    /\ UNCHANGED <<job, chunk, file, stops, calm>>

(***************************************************************************)
(* Answers.                                                                *)
(***************************************************************************)
(* What the browser makes of the answer to q, which leaves the requests    *)
(* others.  Nobody waits for the answer on a connection that broke.        *)
Succeeds(q, others) ==
    LET r == q.run IN
    IF q.cut THEN requests' = others /\ UNCHANGED <<task, running, run>>
    ELSE IF q.kind = "chunk"
         THEN GoOn(r, run[r].i + 1, run[r].have \cup {run[r].i}, others)
         ELSE Return(r, FALSE, Shown(r[1], "done"), others)

Fails(q, others) ==
    LET r == q.run IN
    IF q.cut THEN requests' = others /\ UNCHANGED <<task, running, run>>
    ELSE IF q.kind = "chunk" THEN ChunkFails(r, others)
    ELSE IF q.kind = "merge" /\ task[r[1]].shown = "paused" THEN Return(r, TRUE, task, others)
    ELSE Return(r, q.kind = "direct", Failing(r[1]), others)

Fault == stops < MaxStops /\ stops' = stops + 1

(* The connection breaks: the browser sees a failure, the handler may not. *)
LoseConnection(q) ==
    /\ ~q.cut
    /\ Fault
    /\ calm' = calm \ {q.run[1]}
    /\ Fails(q, CutOff({q}))
    /\ UNCHANGED <<job, chunk, file>>

(* A request that was broken off before its handler had begun.             *)
NeverArrives(q) ==
    /\ q.cut /\ q.at = "sent"
    /\ requests' = requests \ {q}
    /\ UNCHANGED <<job, task, running, run, chunk, file, stops, calm>>

(***************************************************************************)
(* uploadChunkHandler.                                                     *)
(***************************************************************************)
SameChunk(q, p) == p.kind = "chunk" /\ FileOf(p) = FileOf(q) /\ p.i = q.i

(* os.Create truncates a chunk that another handler is still writing.      *)
CreateChunk(q) ==
    /\ q.kind = "chunk" /\ q.at = "sent"
    /\ chunk' = [chunk EXCEPT ![FileOf(q)][q.i] = "part"]
    /\ requests' = {IF SameChunk(q, p) THEN [p EXCEPT !.own = FALSE] ELSE p :
                       p \in requests \ {q}}
                   \cup {[q EXCEPT !.at = "copy", !.own = TRUE]}
    /\ UNCHANGED <<job, task, running, run, file, stops, calm>>

ChunkSaved(q) ==
    /\ q.kind = "chunk" /\ q.at = "copy"
    /\ chunk' = IF q.own THEN [chunk EXCEPT ![FileOf(q)][q.i] = "whole"] ELSE chunk
    /\ Succeeds(q, requests \ {q})
    /\ UNCHANGED <<job, file, stops, calm>>

(* What was written of it stays.                                           *)
ChunkBreaks(q) ==
    /\ q.kind = "chunk" /\ q.at = "copy"
    /\ IF q.cut THEN UNCHANGED stops ELSE Fault
    /\ Fails(q, requests \ {q})
    /\ UNCHANGED <<job, chunk, file, calm>>

(***************************************************************************)
(* uploadHandler and mergeChunks.                                          *)
(***************************************************************************)
(* Mutation for OldIsKept: the name itself is not looked at.               *)
UniqueNumber(n) ==
    {k \in 0 .. MaxCopies : \A m \in 0 .. k - 1 : file[<<n, m>>] # Nothing}

(* The first name that is free.                                            *)
Unique(n) ==
    {k \in 0 .. MaxCopies : /\ file[<<n, k>>] = Nothing
                            /\ \A m \in 0 .. k - 1 : file[<<n, m>>] # Nothing}

(* Replace: uploadHandler removes the file, mergeChunks leaves it to be    *)
(* truncated.                                                              *)
ChooseName(q) ==
    LET j == job[q.run[1]] p == <<j.name, 0>> IN
    /\ q.kind # "chunk" /\ q.at = "sent"
    /\ \/ /\ j.replace
          /\ IF q.kind = "direct"
             THEN /\ file' = [file EXCEPT ![p] = Nothing]
                  /\ requests' = {IF o.dest = p THEN [o EXCEPT !.own = FALSE] ELSE o :
                                     o \in requests \ {q}}
                                 \cup {[q EXCEPT !.at = "chosen", !.dest = p]}
             ELSE /\ requests' = (requests \ {q}) \cup {[q EXCEPT !.at = "chosen", !.dest = p]}
                  /\ UNCHANGED file
       \/ /\ ~j.replace
          /\ \E k \in Unique(j.name) :
                requests' = (requests \ {q}) \cup {[q EXCEPT !.at = "chosen",
                                                             !.dest = <<j.name, k>>]}
          /\ UNCHANGED file
    /\ UNCHANGED <<job, task, running, run, chunk, stops, calm>>

CreateFile(q) ==
    /\ q.at = "chosen"
    /\ file' = [file EXCEPT ![q.dest] = Empty]
    /\ requests' = (requests \ {q}) \cup {[q EXCEPT !.at = "copy", !.own = TRUE]}
    /\ UNCHANGED <<job, task, running, run, chunk, stops, calm>>

(* The folder or the file cannot be made; a file to be replaced is gone.   *)
CreateFails(q) ==
    /\ q.at = "chosen"
    /\ Fault
    /\ Fails(q, requests \ {q})
    /\ UNCHANGED <<job, chunk, file, calm>>

(* The i-th part of the file is written, in whole or not.                  *)
Written(q, i, whole) ==
    file' = IF q.own THEN [file EXCEPT ![q.dest][i] = <<FileOf(q), whole>>] ELSE file

DirectSaved(q) ==
    /\ q.kind = "direct" /\ q.at = "copy"
    /\ Written(q, 0, TRUE)
    /\ Succeeds(q, requests \ {q})
    /\ UNCHANGED <<job, chunk, stops, calm>>

DirectBreaks(q) ==
    /\ q.kind = "direct" /\ q.at = "copy"
    /\ IF q.cut THEN UNCHANGED stops ELSE Fault
    /\ Written(q, 0, FALSE)
    /\ Fails(q, requests \ {q})
    /\ UNCHANGED <<job, chunk, calm>>

(* A chunk is appended; what follows a partial one is out of place.        *)
AppendChunk(q) ==
    LET c == chunk[FileOf(q)][q.i] IN
    /\ q.kind = "merge" /\ q.at = "copy"
    /\ q.i < Size[FileOf(q)] /\ c # Nothing
    /\ Written(q, q.i, q.whole /\ c = "whole")
    /\ requests' = (requests \ {q}) \cup {[q EXCEPT !.i = @ + 1, !.whole = @ /\ c = "whole"]}
    /\ UNCHANGED <<job, task, running, run, chunk, stops, calm>>

(* Reading the chunk or writing it fails.  The file that was begun stays,  *)
(* here and when a chunk is not there.                                     *)
MergeBreaks(q) ==
    /\ q.kind = "merge" /\ q.at = "copy"
    /\ q.i < Size[FileOf(q)] /\ chunk[FileOf(q)][q.i] # Nothing
    /\ Fault
    /\ Written(q, q.i, FALSE)
    /\ Fails(q, requests \ {q})
    /\ UNCHANGED <<job, chunk, calm>>

MissingChunk(q) ==
    /\ q.kind = "merge" /\ q.at = "copy"
    /\ q.i < Size[FileOf(q)] /\ chunk[FileOf(q)][q.i] = Nothing
    /\ Fails(q, requests \ {q})
    /\ UNCHANGED <<job, chunk, file, stops, calm>>

(* The directory is removed under the handlers that still write to it.     *)
Merged(q) ==
    LET others == {IF p.kind = "chunk" /\ FileOf(p) = FileOf(q)
                   THEN [p EXCEPT !.own = FALSE] ELSE p : p \in requests \ {q}} IN
    /\ q.kind = "merge" /\ q.at = "copy"
    /\ q.i = Size[FileOf(q)]
    /\ chunk' = [chunk EXCEPT ![FileOf(q)] = [i \in Chunks |-> Nothing]]
    /\ Succeeds(q, others)
    /\ UNCHANGED <<job, file, stops, calm>>

(***************************************************************************)
(* Specification.                                                          *)
(***************************************************************************)
(* The tasks have just been added, one after the other.                    *)
Added == [status |-> "pending", shown |-> "uploading", failed |-> FALSE,
          aborted |-> FALSE, runs |-> 0, xhr |-> 0]

UploadInit ==
    /\ job \in [Tasks -> UploadJobs]
    /\ chunk = [f \in Files |-> [i \in Chunks |-> Nothing]]
    /\ \E olds \in SUBSET Names :
          file = [p \in Paths |-> IF p[1] \in olds /\ p[2] = 0 THEN Old ELSE Nothing]
    /\ task = [t \in Tasks |-> Added]
    /\ running = {}
    /\ run = [r \in Runs |-> Idle]
    /\ requests = {}
    /\ stops = 0
    /\ calm = Tasks

Add ==
    /\ running = {} /\ \A t \in Tasks : task[t] = Added
    /\ ProcessQueue(task, running, run, requests)
    /\ UNCHANGED <<job, chunk, file, stops, calm>>

Browser ==
    \/ Add
    \/ \E r \in Runs : Listed(r) \/ WaitOver(r)

Server ==
    \E q \in requests :
       \/ NeverArrives(q) \/ CreateChunk(q) \/ ChunkSaved(q) \/ ChunkBreaks(q)
       \/ ChooseName(q) \/ CreateFile(q) \/ CreateFails(q)
       \/ DirectSaved(q) \/ DirectBreaks(q)
       \/ AppendChunk(q) \/ MergeBreaks(q) \/ MissingChunk(q) \/ Merged(q)

UploadNext ==
    \/ Browser
    \/ Server
    \/ \E q \in requests : LoseConnection(q)
    \/ \E t \in Tasks : PauseTask(t) \/ RemoveTask(t) \/ ResumeTask(t) \/ RetryTask(t)

UploadSpec == UploadInit /\ [][UploadNext]_uploadVars
FairUploadSpec == UploadSpec /\ WF_uploadVars(Browser) /\ WF_uploadVars(Server)

(***************************************************************************)
(* Properties.                                                             *)
(***************************************************************************)
(* The variables have their types.                                         *)
UploadTypeOK ==
    /\ job \in [Tasks -> UploadJobs]
    /\ task \in [Tasks -> [status : {"pending", "running", "paused", "completed", "failed",
                                     "removed"},
                           shown : {"uploading", "paused", "saving", "done", "error",
                                    "canceled"},
                           failed : BOOLEAN, aborted : BOOLEAN, runs : 0 .. MaxRuns,
                           xhr : 0 .. MaxRuns]]
    /\ running \subseteq Tasks
    /\ run \in [Runs -> [at : {"none", "query", "chunk", "wait", "merge", "direct", "over"},
                         i : Chunks, try : 0 .. MaxTries, have : SUBSET Chunks]]
    /\ \A q \in requests :
          /\ q.run \in Runs /\ q.kind \in {"chunk", "merge", "direct"}
          /\ q.at \in {"sent", "chosen", "copy"}
          /\ q.dest \in Paths \cup {Nothing}
          /\ ~q.cut => run[q.run].at = q.kind
    /\ chunk \in [Files -> [Chunks -> {"part", "whole", Nothing}]]
    /\ file \in [Paths -> [Chunks -> Contents] \cup {Nothing}]
    /\ stops \in 0 .. MaxStops /\ calm \subseteq Tasks

Holds(p, f) ==
    /\ file[p] # Nothing
    /\ \A i \in Chunks : file[p][i] = IF i < Size[f] THEN <<f, TRUE>> ELSE Nothing

Alone(t) == \A u \in Tasks \ {t} : job[u].file # job[t].file /\ job[u].name # job[t].name

(* An upload that is done has its file on the disk, if the user left it    *)
(* alone, no connection broke, no other upload has the same content or     *)
(* name and the browser does not show an error: attempts to send a chunk   *)
(* may have failed on the way, but not all those of one chunk.  When they  *)
(* all fail, or the merge does, upload() records the error and returns     *)
(* none, and the queue counts the task as completed all the same.          *)
DoneIsWhole ==
    \A t \in calm : /\ task[t].status = "completed" /\ ~task[t].failed
                    /\ Alone(t)
                    => \E k \in 0 .. MaxCopies : Holds(<<job[t].name, k>>, job[t].file)

(* The same, said of every upload.                                         *)
DoneIsSaved ==
    \A t \in Tasks : task[t].status = "completed"
                     => \E k \in 0 .. MaxCopies : Holds(<<job[t].name, k>>, job[t].file)

(* docs/file-conflicts.md:80: uploads that keep both leave the old file as *)
(* it was ...                                                              *)
OldIsKept ==
    [][\A n \in Names :
          file[<<n, 0>>] = Old /\ (\A t \in Tasks : job[t].name = n => ~job[t].replace)
          => file'[<<n, 0>>] = Old]_uploadVars

(* ... and each chooses a name of its own.                                 *)
KeepsBoth ==
    \A q, o \in requests : q # o /\ q.kind # "chunk" /\ o.kind # "chunk"
                           /\ q.at = "copy" /\ o.at = "copy" /\ q.dest = o.dest
                           => job[q.run[1]].replace \/ job[o.run[1]].replace

(* No task is forgotten in the queue or stays running for ever.            *)
Settles == \A t \in Tasks : task[t].status \in {"pending", "running"}
                            ~> task[t].status \notin {"pending", "running"}
=============================================================================
