------------------------------ MODULE FileTasks -----------------------------
(***************************************************************************)
(* Tasks that copy and move files (internal/graph: file_tasks_async.go,    *)
(* file_tasks_store.go, file_tasks_api.go, files_copy_move_api.go,         *)
(* helpers_local.go) and the browser's list of them (web/src/stores).      *)
(*                                                                         *)
(* A request adds a task and hands its id to the one worker.  Each time a  *)
(* task changes, a snapshot of it is published on the browser's websocket  *)
(* and, now and then, stored; a task that ends is always stored.  The      *)
(* tasks themselves are in memory: a restart forgets them.  A move within  *)
(* a filesystem is a rename, another one a copy after which the source is  *)
(* removed.  Files stand for directories too.                              *)
(***************************************************************************)
EXTENDS Naturals, Sequences, FiniteSets

CONSTANTS
    Tasks,     \* tasks that requests may create
    Mine,      \* those of the client whose browser is modelled
    Choices,   \* what each may be: a type and a sequence of operations
    Names,     \* paths, and the files at the start; a unique name adds a number
    Fresh,     \* files that the user may put at a path later
    Disk,      \* the filesystem of each name
    Slow,      \* may a second pass between two news of a task?
    Cap,       \* capacity of the queue
    MaxCopies, \* bound on the numbers of unique names
    MaxFaults, \* bound on failures, restarts, and files the user deletes
    None

Ops == [src : Names, dst : Names, overwrite : BOOLEAN]

ASSUME ChoicesAssumption ==
    \A c \in Choices : c.type \in {"COPY", "MOVE"} /\ c.ops \in Seq(Ops) /\ c.ops # <<>>
ASSUME MineAssumption == Mine \subseteq Tasks
ASSUME CapAssumption == Cap \in Nat \ {0} /\ Slow \in BOOLEAN
ASSUME BoundsAssumption == MaxCopies \in Nat /\ MaxFaults \in Nat
ASSUME NamesAssumption == IsFiniteSet(Names) /\ "part" \notin Names \cup Fresh

VARIABLES
    task,      \* m.tasks: each task's type, operations, status and progress
    create,    \* the control point of the request that creates it
    queue,     \* m.queue
    worker,    \* control point, the task, the paths and open files, and where to go on
    dir,       \* the file (inode) at each path, or 0
    data,      \* what each inode holds: a content, or "part" of one
    stored,    \* the snapshots in the database
    socket,    \* events on their way to the browser
    answers,   \* answers on their way to the browser
    loaded,    \* has the page asked for the list of tasks?
    view,      \* the browser's list
    faults,    \* bounded counter
    known,     \* history: contents that are or were there
    agreed,    \* history: contents that someone asked to replace or delete
    overtaken  \* history: tasks whose last news in the browser is known to be old

memory == <<task, create, queue, worker>>
files == <<dir, data, known, agreed>>
browser == <<answers, loaded, view>>
news == <<socket, overtaken>>
vars == <<memory, files, stored, browser, news, faults>>

Paths == Names \X (0 .. MaxCopies)
Contents == Names \cup Fresh
Inodes == 1 .. (Cardinality(Paths) + 2)

Snaps == [status : {"QUEUED", "RUNNING", "DONE", "ERROR"}, done : Nat]
ASSUME NoneAssumption == None \notin Snaps \cup Tasks

Snapshot(t) == [status |-> task[t].status, done |-> task[t].done]
Ended(s) == s.status \in {"DONE", "ERROR"}
Idle == [at |-> "idle", task |-> None, src |-> None, dst |-> None, in |-> 0, out |-> 0,
         then |-> "idle"]

(* Snapshots of one task in the order in which they are taken.             *)
Stage(s) == IF s = None THEN 0
            ELSE CASE s.status = "QUEUED" -> 1 [] s.status = "RUNNING" -> 2 [] OTHER -> 3
Earlier(s, u) == \/ Stage(s) < Stage(u)
                 \/ Stage(s) = 2 /\ Stage(u) = 2 /\ s.done < u.done

Used == {dir[p] : p \in Paths} \cup {worker.in, worker.out}
NewInode == CHOOSE i \in Inodes : i \notin Used

Init ==
    /\ task = [t \in Tasks |-> None]
    /\ create = [t \in Tasks |-> "none"]
    /\ queue = <<>>
    /\ worker = Idle
    /\ LET first == CHOOSE f \in [Names -> 1 .. Cardinality(Names)] :
                        \A m, n \in Names : f[m] = f[n] => m = n
       IN /\ dir = [p \in Paths |-> IF p[2] = 0 THEN first[p[1]] ELSE 0]
          /\ data = [i \in Inodes |-> IF \E n \in Names : first[n] = i
                                      THEN CHOOSE n \in Names : first[n] = i ELSE "part"]
    /\ stored = [t \in Tasks |-> None]
    /\ socket = <<>> /\ answers = {} /\ loaded = FALSE
    /\ view = [t \in Mine |-> None]
    /\ faults = 0
    /\ known = Names /\ agreed = {} /\ overtaken = {}

-----------------------------------------------------------------------------
(* A request: the task is entered, published, stored and only then queued. *)

Create(t) ==
    /\ create[t] = "none"
    /\ \E c \in Choices :
          task' = [task EXCEPT ![t] = [type |-> c.type, ops |-> c.ops,
                                       status |-> "QUEUED", done |-> 0]]
    /\ create' = [create EXCEPT ![t] = "publish"]
    /\ UNCHANGED <<queue, worker, files, stored, browser, news, faults>>

(* An event goes to the websockets of the task's client.                   *)
Publish(t) ==
    socket' = IF t \in Mine THEN Append(socket, [task |-> t, snap |-> Snapshot(t)]) ELSE socket

PublishNew(t) ==
    /\ create[t] = "publish"
    /\ Publish(t)
    /\ stored' = [stored EXCEPT ![t] = Snapshot(t)]
    /\ create' = [create EXCEPT ![t] = "enqueue"]
    /\ UNCHANGED <<task, queue, worker, files, browser, overtaken, faults>>

(* Mutant: the id is dropped when the queue is full.                       *)
EnqueueOrDrop(t) ==
    /\ create[t] = "enqueue"
    /\ queue' = IF Len(queue) < Cap THEN Append(queue, t) ELSE queue
    /\ create' = [create EXCEPT ![t] = "answer"]
    /\ UNCHANGED <<task, worker, files, stored, browser, news, faults>>

(* The channel has room for Cap ids; one more request waits.               *)
Enqueue(t) ==
    /\ create[t] = "enqueue"
    /\ Len(queue) < Cap
    /\ queue' = Append(queue, t)
    /\ create' = [create EXCEPT ![t] = "answer"]
    /\ UNCHANGED <<task, worker, files, stored, browser, news, faults>>

(* toModelFileTask: the answer tells the task's state of now.              *)
Answer(t) ==
    /\ create[t] = "answer"
    /\ create' = [create EXCEPT ![t] = "answered"]
    /\ answers' = answers \cup {[v \in {u} |-> Snapshot(v)] : u \in Mine \cap {t}}
    /\ UNCHANGED <<task, queue, worker, files, stored, loaded, view, news, faults>>

-----------------------------------------------------------------------------
(* The worker.                                                             *)

Now == worker.task
Op == task[Now].ops[task[Now].done + 1]

(* publishSnapshot with the task set to this status, and where to go on.   *)
Tell(status, done, then) ==
    /\ task' = [task EXCEPT ![Now] = [@ EXCEPT !.status = status, !.done = done]]
    /\ worker' = [Idle EXCEPT !.at = "publish", !.task = Now, !.then = then]

(* fail: the task keeps the count of what has been done.                   *)
Failed == Tell("ERROR", task[Now].done, "idle")

Take ==
    /\ worker.at = "idle"
    /\ queue # <<>>
    /\ LET t == Head(queue)
       IN /\ task' = [task EXCEPT ![t] = [@ EXCEPT !.status = "RUNNING"]]
          /\ worker' = [Idle EXCEPT !.at = "publish", !.task = t, !.then = "totals"]
    /\ queue' = Tail(queue)
    /\ UNCHANGED <<create, files, stored, browser, news, faults>>

Tells ==
    /\ worker.at = "publish"
    /\ Publish(Now)
    /\ worker' = [worker EXCEPT !.at = "save"]
    /\ UNCHANGED <<task, create, queue, files, stored, browser, overtaken, faults>>

(* Mutant: an end is stored only when a second has passed.                 *)
MayStoreThrottled(keep) == keep => Slow

(* persistThrottle: an end is stored, other news at most once a second.    *)
MayStore(keep) == IF Ended(task[Now]) THEN keep ELSE keep => Slow

Save ==
    /\ worker.at = "save"
    /\ \E keep \in BOOLEAN :
          /\ MayStore(keep)
          /\ stored' = IF keep THEN [stored EXCEPT ![Now] = Snapshot(Now)] ELSE stored
    /\ worker' = IF worker.then = "idle" THEN Idle ELSE [worker EXCEPT !.at = worker.then]
    /\ UNCHANGED <<task, create, queue, files, browser, news, faults>>

At(name) == dir[<<name, 0>>]

Totals ==
    /\ worker.at = "totals"
    /\ LET ops == task[Now].ops
       IN IF \E i \in DOMAIN ops : At(ops[i].src) = 0
          THEN Failed
          ELSE Tell("RUNNING", 0, "operation")
    /\ UNCHANGED <<create, queue, files, stored, browser, news, faults>>

AllDone ==
    /\ worker.at = "operation"
    /\ task[Now].done = Len(task[Now].ops)
    /\ Tell("DONE", task[Now].done, "idle")
    /\ UNCHANGED <<create, queue, files, stored, browser, news, faults>>

(* The name itself when there is nothing, otherwise the first free number. *)
FirstFree(name, from) ==
    CHOOSE k \in from .. MaxCopies :
        dir[<<name, k>>] = 0 /\ \A j \in from .. (k - 1) : dir[<<name, j>>] # 0
Target(op) == <<op.dst, IF op.overwrite \/ At(op.dst) = 0 THEN 0 ELSE FirstFree(op.dst, 1)>>

(* Bound: there is a free number when one is needed.                       *)
HasTarget(op) == op.overwrite \/ \E k \in 0 .. MaxCopies : dir[<<op.dst, k>>] = 0

(* copyFileOp and moveFileOp look at the source and settle the target; the *)
(* caller who overwrites has agreed to lose what is there.                 *)
Settle ==
    /\ worker.at = "operation"
    /\ task[Now].done < Len(task[Now].ops)
    /\ At(Op.src) = 0 \/ HasTarget(Op)
    /\ IF At(Op.src) = 0
       THEN Failed /\ UNCHANGED agreed
       ELSE /\ LET to == Target(Op)
               IN /\ worker' = [worker EXCEPT !.at = task[Now].type,
                                              !.src = <<Op.src, 0>>, !.dst = to]
                  /\ agreed' = IF dir[to] # 0 /\ Op.overwrite /\ Op.src # Op.dst
                               THEN agreed \cup {data[dir[to]]} ELSE agreed
            /\ UNCHANGED task
    /\ UNCHANGED <<create, queue, dir, data, known, stored, browser, news, faults>>

Finished == Tell("RUNNING", task[Now].done + 1, "operation")

(* A rename within one filesystem; onto itself it does nothing.            *)
Rename ==
    /\ worker.at = "MOVE"
    /\ dir[worker.src] # 0
    /\ Disk[worker.src[1]] = Disk[worker.dst[1]]
    /\ dir' = IF worker.src = worker.dst THEN dir
              ELSE [dir EXCEPT ![worker.dst] = dir[worker.src], ![worker.src] = 0]
    /\ Finished
    /\ UNCHANGED <<create, queue, data, known, agreed, stored, browser, news, faults>>

(* Open and Create: the file at the target, if there is one, is truncated. *)
Open ==
    /\ \/ worker.at = "COPY"
       \/ /\ worker.at = "MOVE"
          /\ dir[worker.src] # 0 => Disk[worker.src[1]] # Disk[worker.dst[1]]
    /\ IF dir[worker.src] = 0
       THEN Failed /\ UNCHANGED <<dir, data>>
       ELSE LET out == IF dir[worker.dst] # 0 THEN dir[worker.dst] ELSE NewInode
            IN /\ dir' = [dir EXCEPT ![worker.dst] = out]
               /\ data' = [data EXCEPT ![out] = "part"]
               /\ worker' = [worker EXCEPT !.at = "copying", !.in = dir[worker.src], !.out = out]
               /\ UNCHANGED task
    /\ UNCHANGED <<create, queue, known, agreed, stored, browser, news, faults>>

(* io.Copy: after it, a copy has finished; a move has its source to remove. *)
Copy ==
    /\ worker.at = "copying"
    /\ data' = [data EXCEPT ![worker.out] = data[worker.in]]
    /\ IF task[Now].type = "COPY"
       THEN Finished
       ELSE worker' = [worker EXCEPT !.at = "remove"] /\ UNCHANGED task
    /\ UNCHANGED <<create, queue, dir, known, agreed, stored, browser, news, faults>>

(* Mutant: a move removes its source though the copy has failed.           *)
CopyFailsUnseen ==
    /\ worker.at = "copying"
    /\ faults < MaxFaults
    /\ faults' = faults + 1
    /\ IF task[Now].type = "COPY"
       THEN Failed
       ELSE worker' = [worker EXCEPT !.at = "remove"] /\ UNCHANGED task
    /\ UNCHANGED <<create, queue, files, stored, browser, news>>

(* A read or write fails: what has been written stays at the target.       *)
CopyFails ==
    /\ worker.at = "copying"
    /\ faults < MaxFaults
    /\ faults' = faults + 1
    /\ Failed
    /\ UNCHANGED <<create, queue, files, stored, browser, news>>

RemoveSource ==
    /\ worker.at = "remove"
    /\ dir' = [dir EXCEPT ![worker.src] = 0]
    /\ Finished
    /\ UNCHANGED <<create, queue, data, known, agreed, stored, browser, news, faults>>

-----------------------------------------------------------------------------
(* The browser.  Events arrive in order; an answer when it comes.          *)

Deliver ==
    /\ socket # <<>>
    /\ LET e == Head(socket)
       IN /\ view' = [view EXCEPT ![e.task] = e.snap]
          /\ overtaken' = overtaken \ {e.task}
    /\ socket' = Tail(socket)
    /\ UNCHANGED <<memory, files, stored, answers, loaded, faults>>

Older(snap) == {t \in DOMAIN snap : Earlier(snap[t], view[t])}

(* The answer to a request is put over the list's entry; the list's answer *)
(* replaces the list.                                                      *)
DeliverAnswer ==
    /\ \E a \in answers :
          /\ view' = [t \in Mine |-> IF t \in DOMAIN a THEN a[t] ELSE view[t]]
          /\ overtaken' = overtaken \cup Older(a)
          /\ answers' = answers \ {a}
    /\ UNCHANGED <<memory, files, stored, loaded, socket, faults>>

(* getTasks, when the page is mounted: the tasks in memory over the stored. *)
GetTasks ==
    /\ ~loaded
    /\ loaded' = TRUE
    /\ answers' = answers \cup {[t \in Mine |-> IF task[t] = None THEN stored[t] ELSE Snapshot(t)]}
    /\ UNCHANGED <<memory, files, stored, view, news, faults>>

-----------------------------------------------------------------------------
(* Others.                                                                 *)

(* The user deletes a file, perhaps one that is being written.             *)
Delete(p) ==
    /\ dir[p] # 0
    /\ faults < MaxFaults
    /\ faults' = faults + 1
    /\ agreed' = agreed \cup {data[dir[p]]}
                        \cup (IF dir[p] = worker.out THEN {data[worker.in]} ELSE {})
    /\ dir' = [dir EXCEPT ![p] = 0]
    /\ UNCHANGED <<memory, data, known, stored, browser, news>>

(* The user puts a new file at a free name, or where the worker writes.  An *)
(* operation that has settled its paths does not look again: a file put at *)
(* one of them may be lost.                                                *)
Put(c, p) ==
    /\ dir[p] = 0
    /\ c \notin known
    /\ known' = known \cup {c}
    /\ LET i == NewInode
       IN dir' = [dir EXCEPT ![p] = i] /\ data' = [data EXCEPT ![i] = c]
    /\ agreed' = IF p \in {worker.src, worker.dst} THEN agreed \cup {c} ELSE agreed
    /\ faults < MaxFaults
    /\ faults' = faults + 1
    /\ UNCHANGED <<memory, stored, browser, news>>

(* A restart: memory, the websocket and unanswered requests are gone.      *)
Restart ==
    /\ faults < MaxFaults
    /\ faults' = faults + 1
    /\ task' = [t \in Tasks |-> None]
    /\ create' = [t \in Tasks |-> IF create[t] = "none" THEN "none" ELSE "gone"]
    /\ queue' = <<>>
    /\ worker' = Idle
    /\ socket' = <<>> /\ answers' = {}
    /\ overtaken' = Mine
    /\ UNCHANGED <<files, stored, loaded, view>>

Worker == Take \/ Tells \/ Save \/ Totals \/ AllDone \/ Settle \/ Rename \/ Open \/ Copy
          \/ CopyFails \/ RemoveSource
Request(t) == PublishNew(t) \/ Enqueue(t) \/ Answer(t)

Next ==
    \/ \E t \in Tasks : Create(t) \/ Request(t)
    \/ Worker
    \/ Deliver \/ DeliverAnswer \/ GetTasks
    \/ \E p \in Paths : Delete(p)
    \/ \E c \in Fresh, p \in (Names \X {0}) \cup ({worker.src, worker.dst} \cap Paths) : Put(c, p)
    \/ Restart

Spec == Init /\ [][Next]_vars

(* The goroutines of the requests and the worker run on; a worker's step   *)
(* is its own whatever the others do, and so is each request's.            *)
Fairness ==
    /\ WF_vars(Worker)
    /\ \A t \in Tasks : WF_vars(Request(t))

FairSpec == Spec /\ Fairness

-----------------------------------------------------------------------------
(* The values that the variables take; no unique name is beyond MaxCopies. *)
TypeOK ==
    /\ \A t \in Tasks : task[t] # None =>
          /\ Snapshot(t) \in Snaps
          /\ task[t].done <= Len(task[t].ops)
    /\ queue \in Seq(Tasks) /\ Len(queue) <= Cap
    /\ worker.task \in Tasks \cup {None}
    /\ dir \in [Paths -> Inodes \cup {0}]
    /\ data \in [Inodes -> Contents \cup {"part"}]
    /\ stored \in [Tasks -> Snaps \cup {None}] /\ view \in [Mine -> Snaps \cup {None}]
    /\ faults \in 0 .. MaxFaults
    /\ known \subseteq Contents /\ agreed \subseteq Contents \cup {"part"} /\ overtaken \subseteq Mine

(* No copy or move loses a file: each content is whole at some path, in the *)
(* middle of an operation, after a failed one and after a restart.  Only   *)
(* what an operation was told to overwrite, what the user deletes, and     *)
(* what is put at a settled path of a running operation may be gone.       *)
NothingLost ==
    \A c \in known \ agreed : \E p \in Paths : dir[p] # 0 /\ data[dir[p]] = c

(* What is stored of a task that has ended is its end, as soon as the      *)
(* worker has gone on: no older snapshot is written over it.               *)
StoredRight ==
    \A t \in Tasks :
        task[t] # None /\ Ended(task[t]) /\ worker.task # t => stored[t] = Snapshot(t)

(* When all news has arrived and no task runs, the browser shows each task *)
(* as it is, unless a late answer was put over later news of it.           *)
ViewRight ==
    socket = <<>> /\ answers = {} /\ worker = Idle =>
        \A t \in Mine \ overtaken :
            task[t] # None /\ create[t] # "publish" => view[t] = Snapshot(t)

(* The news of a task reaches the database and the browser, whatever it    *)
(* and the requests, answers and restarts around it overtake each other.   *)
NewsArrives == StoredRight /\ ViewRight

(* A task whose request is at work ends, in success or error, unless the   *)
(* process is restarted: the worker is never stuck, the queue drains, and  *)
(* a request that waits for room in it is served.                          *)
TasksEnd ==
    \A t \in Mine :
        create[t] = "publish" ~>
            create[t] = "gone" \/ (create[t] = "answered" /\ Ended(task[t]))

(* files_copy_move_api.go:47 "If src==dst ... copy to a sibling path with a *)
(* unique name": a copy onto its own path is written beside its source.    *)
DuplicateBeside ==
    worker.at = "COPY" /\ Op.src = Op.dst => worker.dst # worker.src
=============================================================================
