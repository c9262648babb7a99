----------------------------- MODULE UploadsInv -----------------------------
(***************************************************************************)
(* What holds of the queue of uploads, the requests and the disk in every  *)
(* reachable state: the inductive invariants behind UploadTypeOK,          *)
(* OldIsKept and DoneIsWhole.                                              *)
(*                                                                         *)
(* k, u, q, c and w stand for task, run, requests, chunk and file, or for  *)
(* what a step hands to the queue on its way.                              *)
(***************************************************************************)
EXTENDS Uploads

(* What tasks, runs and requests are.                                      *)
Statuses == {"pending", "running", "paused", "completed", "failed", "removed"}
TaskSet == [status : Statuses, shown : {"uploading", "paused", "saving", "done", "error", "canceled"},
            failed : BOOLEAN, aborted : BOOLEAN, runs : 0 .. MaxRuns, xhr : 0 .. MaxRuns]
RunSet == [at : {"none", "query", "chunk", "wait", "merge", "direct", "over"},
           i : Chunks, try : 0 .. MaxTries, have : SUBSET Chunks]
RequestSet == [run : Runs, kind : {"chunk", "merge", "direct"}, i : Nat, try : Nat,
               at : {"sent", "chosen", "copy"}, dest : Paths \cup {Nothing},
               own : BOOLEAN, whole : BOOLEAN, cut : BOOLEAN]

(* The name it is uploaded to.                                             *)
NameOf(o) == job[o.run[1]].name
(* Where a run waits for something.                                        *)
Active == {"query", "chunk", "wait", "merge", "direct"}

(* A request, by itself.                                                   *)
WellFormed(o) ==
    /\ o \in RequestSet
    /\ o.kind = "chunk" => o.i \in Chunks /\ o.at # "chosen"
    /\ o.kind = "direct" => o.i = 0
    /\ IF o.kind # "chunk" /\ o.at \in {"chosen", "copy"}
       THEN \E m \in 0 .. MaxCopies : o.dest = <<NameOf(o), m>>
       ELSE o.dest = Nothing

(* A run waits for its last request, which is not cut off, and only for it.*)
Lone(u, q) ==
    /\ \A o \in q : ~o.cut => u[o.run].at = o.kind
    /\ \A o, p \in q : ~o.cut /\ ~p.cut /\ o.run = p.run => o = p

(* Only runs that were started are under way, and a run that waits for a   *)
(* chunk has tries left.                                                   *)
RunsOK(k, u) ==
    /\ k \in [Tasks -> TaskSet] /\ u \in [Runs -> RunSet]
    /\ \A t \in Tasks : k[t].status = "pending" => k[t].runs < MaxRuns
    /\ \A r \in Runs :
          /\ r[2] > k[r[1]].runs => u[r].at = "none"
          /\ u[r].at = "wait" => u[r].try < MaxTries
          /\ u[r].at = "direct" => Size[job[r[1]].file] = 1
          /\ u[r].at \in {"query", "chunk", "wait", "merge"} => Size[job[r[1]].file] # 1

(* All that is said of the queue alone.                                    *)
Sound(k, u, q) == RunsOK(k, u) /\ (\A o \in q : WellFormed(o)) /\ Lone(u, q)

(* The disk; a handler that still owns its file has one.                   *)
DiskOK ==
    /\ chunk \in [Files -> [Chunks -> {"part", "whole", Nothing}]]
    /\ file \in [Paths -> [Chunks -> Contents] \cup {Nothing}]
    /\ \A o \in requests : o.kind # "chunk" /\ o.at = "copy" /\ o.own => file[o.dest] # Nothing

(* The inductive invariant behind UploadTypeOK.                            *)
UploadInv ==
    /\ job \in [Tasks -> UploadJobs]
    /\ running \subseteq Tasks /\ stops \in 0 .. MaxStops /\ calm \subseteq Tasks
    /\ Sound(task, run, requests) /\ DiskOK

(* Nobody is about to write to an old file that is to be kept.             *)
OldSafe ==
    \A n \in Names :
       file[<<n, 0>>] = Old /\ (\A t \in Tasks : job[t].name = n => ~job[t].replace)
       => \A o \in requests : o.dest # <<n, 0>>

(* A task that is left alone has at most its last run.                     *)
Steady(t, k, u, q) ==
    /\ ~k[t].aborted /\ k[t].status \in {"pending", "running", "completed", "failed"}
    /\ k[t].shown \notin {"paused", "canceled"}
    /\ \A m \in 1 .. MaxRuns : u[<<t, m>>].at \in Active => m = k[t].runs /\ k[t].status = "running"
    /\ \A o \in q : o.run[1] = t => ~o.cut

(* What its request has done so far, ...                                   *)
Progressed(t, u, o, w) ==
    IF o.kind = "chunk" THEN o.i = u[o.run].i /\ (o.at = "copy" => o.own)
    ELSE IF o.at # "copy" THEN o.i = 0 /\ o.whole
    ELSE /\ o.own /\ o.whole /\ o.i <= Size[job[t].file]
         /\ w[o.dest] = [i \in Chunks |-> IF i < o.i THEN <<job[t].file, TRUE>> ELSE Nothing]
Progress(t, u, q, w) == \A o \in q : o.run[1] = t => Progressed(t, u, o, w)

(* ... and how far its run has come.                                       *)
Come(t, k, u, c) ==
    LET n == Size[job[t].file]
        sent(j) == c[job[t].file][j] = "whole"
    IN /\ n # 1 =>
             /\ k[t].status # "failed"
             /\ k[t].status = "pending" => \A j \in Chunks : c[job[t].file][j] = Nothing
       /\ \A m \in 1 .. MaxRuns :
             LET r == u[<<t, m>>] IN
             /\ r.at = "query" => \A j \in Chunks : c[job[t].file][j] = Nothing
             /\ r.at \in {"chunk", "wait"} => /\ r.i < n /\ r.have = 0 .. r.i - 1
                                              /\ \A j \in 0 .. r.i - 1 : sent(j)
             /\ r.at = "merge" => \A j \in 0 .. n - 1 : sent(j)

(* If it is done, its file is there.                                       *)
Saved(t, k, w) ==
    k[t].status = "completed" /\ ~k[t].failed =>
        \E m \in 0 .. MaxCopies :
            w[<<job[t].name, m>>] = [i \in Chunks |-> IF i < Size[job[t].file]
                                                      THEN <<job[t].file, TRUE>> ELSE Nothing]

(* All that is kept of a task that is left alone ...                       *)
Kept(t, k, u, q, c, w) ==
    /\ Steady(t, k, u, q)
    /\ Alone(t) => Progress(t, u, q, w) /\ Come(t, k, u, c) /\ Saved(t, k, w)

(* ... which is every task that was not stopped and lost no connection.    *)
WholeInv == \A t \in calm : Kept(t, task, run, requests, chunk, file)
=============================================================================
