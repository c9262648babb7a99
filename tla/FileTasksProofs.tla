-------------------------- MODULE FileTasksProofs ---------------------------
(* No content of a file is lost, and the news of tasks arrives, for any    *)
(* number of tasks, paths, files and failures.                             *)
EXTENDS FileTasks, FiniteSetTheorems, FunctionTheorems, SequenceTheorems,
        WellFoundedInduction, TLAPS

(***************************************************************************)
(* Types.                                                                  *)
(***************************************************************************)
TaskRecs == [type : {"COPY", "MOVE"}, ops : Seq(Ops),
             status : {"QUEUED", "RUNNING", "DONE", "ERROR"}, done : Nat]
Events == [task : Mine, snap : Snaps]
Points == {"idle", "publish", "save", "totals", "operation", "COPY", "MOVE", "copying",
           "remove"}
Settled == {"COPY", "MOVE", "copying", "remove"}
Copying == {"copying", "remove"}
Workers == [at : Points, task : Tasks \cup {None}, src : Paths \cup {None},
            dst : Paths \cup {None}, in : Inodes \cup {0}, out : Inodes \cup {0},
            then : {"idle", "totals", "operation"}]

(* Tasks in memory, and those whose request has not queued them yet.       *)
Live(t) == create[t] \notin {"none", "gone"}
Entering(t) == create[t] \in {"publish", "enqueue"}

(* A task is one of the choices, and has done no more than there is to do. *)
TaskOK(t) ==
    /\ task[t] \in TaskRecs
    /\ task[t].done <= Len(task[t].ops)
    /\ \E c \in Choices : task[t].type = c.type /\ task[t].ops = c.ops

(* A task is queued once, and worked on once.                              *)
TasksOK ==
    /\ create \in [Tasks -> {"none", "publish", "enqueue", "answer", "answered", "gone"}]
    /\ DOMAIN task = Tasks
    /\ \A t \in Tasks : IF Live(t) THEN TaskOK(t) ELSE task[t] = None
    /\ \A t \in Tasks : Entering(t) \/ t \in Range(queue) =>
           /\ Live(t) /\ task[t].status = "QUEUED" /\ task[t].done = 0
           /\ worker.at # "idle" => worker.task # t
    /\ \A t \in Tasks : Entering(t) => t \notin Range(queue)
    /\ \A i, j \in DOMAIN queue : queue[i] = queue[j] => i = j

(* What the worker has set where it is, and the status of its task.        *)
WorkerOK ==
    /\ worker \in Workers
    /\ worker.at = "idle" => worker = Idle
    /\ worker.at # "idle" =>
          /\ worker.task \in Tasks /\ Live(worker.task)
          /\ worker.at \notin {"publish", "save"} => task[worker.task].status = "RUNNING"
          /\ worker.at = "totals" => task[worker.task].done = 0
          /\ worker.at \in Settled => /\ task[worker.task].done < Len(task[worker.task].ops)
                                      /\ worker.src \in Paths /\ worker.dst \in Paths
          /\ worker.at \in {"publish", "save"} =>
                /\ worker.then = "idle" <=> Ended(task[worker.task])
                /\ worker.then # "idle" => task[worker.task].status = "RUNNING"
                /\ worker.then = "totals" => task[worker.task].done = 0
    /\ IF worker.at \in Copying THEN worker.in # 0 /\ worker.out # 0
       ELSE worker.in = 0 /\ worker.out = 0

FilesOK ==
    /\ dir \in [Paths -> Inodes \cup {0}]
    /\ data \in [Inodes -> Contents \cup {"part"}]
    /\ known \subseteq Contents /\ agreed \subseteq Contents \cup {"part"}
    /\ \A p, q \in Paths : dir[p] = dir[q] /\ dir[p] # 0 => p = q

NewsOK ==
    /\ queue \in Seq(Tasks) /\ Len(queue) <= Cap
    /\ stored \in [Tasks -> Snaps \cup {None}] /\ view \in [Mine -> Snaps \cup {None}]
    /\ socket \in Seq(Events)
    /\ \A a \in answers : DOMAIN a \subseteq Mine /\ \A t \in DOMAIN a : a[t] \in Snaps \cup {None}
    /\ faults \in 0 .. MaxFaults
    /\ overtaken \subseteq Mine

Typed == NewsOK /\ TasksOK /\ WorkerOK /\ FilesOK

(***************************************************************************)
(* Files.                                                                  *)
(***************************************************************************)
(* No copy of a file onto its own path is told to overwrite it: the code   *)
(* loses the file then (DuplicateBeside).                                  *)
Beside ==
    \A c \in Choices : \A i \in DOMAIN c.ops :
        c.type = "COPY" /\ c.ops[i].overwrite => c.ops[i].src # c.ops[i].dst

(* What is in the way of an operation was agreed to be lost.  While the    *)
(* worker copies, the file it writes is at the target and holds nothing,   *)
(* and before it removes the source, the target has its content, unless    *)
(* what it reads was agreed to be lost.                                    *)
FilesRight ==
    /\ worker.at \in {"COPY"} \cup Copying => worker.src # worker.dst
    /\ worker.at \in {"COPY", "MOVE"} /\ dir[worker.dst] # 0 /\ worker.src # worker.dst
           => data[dir[worker.dst]] \in agreed
    /\ worker.at \in Copying =>
           /\ worker.in # worker.out
           /\ dir[worker.src] # 0 =>
                  dir[worker.src] = worker.in \/ data[dir[worker.src]] \in agreed
           /\ data[worker.in] \in agreed \/ dir[worker.dst] = worker.out
    /\ worker.at = "copying" => data[worker.out] = "part"
    /\ worker.at = "remove" => data[worker.out] = data[worker.in]

(***************************************************************************)
(* News.                                                                   *)
(***************************************************************************)
AtMost(s, u) == s = u \/ Earlier(s, u)

(* What is known of a task anywhere is not later than what it is.          *)
Latest(t) == IF Live(t) THEN Snapshot(t) ELSE None
Behind(t) ==
    /\ AtMost(stored[t], Latest(t))
    /\ t \in Mine => /\ AtMost(view[t], Latest(t))
                     /\ \A i \in DOMAIN socket :
                           socket[i].task = t => AtMost(socket[i].snap, Latest(t))
                     /\ \A a \in answers : t \in DOMAIN a => AtMost(a[t], Latest(t))

(* The last news of a task is on its way, has arrived, or was overtaken.   *)
Last(t, i) == socket[i].task = t /\ \A j \in DOMAIN socket : j > i => socket[j].task # t
Current(t) ==
    IF \E i \in DOMAIN socket : socket[i].task = t
    THEN \E i \in DOMAIN socket : Last(t, i) /\ socket[i].snap = Snapshot(t)
    ELSE t \in overtaken \/ view[t] = Snapshot(t)

(* All news of a task has been sent.                                       *)
Told(t) == Live(t) /\ create[t] # "publish" /\ ~(worker.at = "publish" /\ worker.task = t)

NewsRight ==
    /\ \A t \in Tasks : create[t] # "gone" => Behind(t)
    /\ \A t \in Mine : Told(t) => Current(t)
    /\ StoredRight

(***************************************************************************)
(* Unique names and inodes.                                                *)
(***************************************************************************)
(* A set of numbers has a least one.                                       *)
LEMMA LeastNumber ==
  ASSUME NEW S, S \subseteq Nat, S # {}
  PROVE  \E k \in S : \A j \in S : k <= j
<1>1. PICK k \in S : \A j \in S : <<j, k>> \notin OpToRel(<, Nat)
  BY NatLessThanWellFounded, WFMin
<1>2. \A j \in S : ~ (j < k)
  BY <1>1 DEF OpToRel
<1> QED BY <1>2

(* A free number is found when there is one, and the path with it is free. *)
LEMMA FirstFreeFacts ==
  ASSUME NEW name \in Names, NEW from \in 0 .. MaxCopies,
         \E k \in from .. MaxCopies : dir[<<name, k>>] = 0
  PROVE  /\ FirstFree(name, from) \in from .. MaxCopies
         /\ dir[<<name, FirstFree(name, from)>>] = 0
<1> DEFINE Free == {k \in from .. MaxCopies : dir[<<name, k>>] = 0}
<1>1. Free \subseteq Nat /\ Free # {}
  BY BoundsAssumption
<1>2. PICK k \in Free : \A j \in Free : k <= j
  BY <1>1, LeastNumber
<1>3. \A j \in from .. (k - 1) : dir[<<name, j>>] # 0
  BY <1>2, BoundsAssumption
<1>4. \E i \in from .. MaxCopies :
          dir[<<name, i>>] = 0 /\ \A j \in from .. (i - 1) : dir[<<name, j>>] # 0
  BY <1>2, <1>3
<1> QED BY <1>4 DEF FirstFree

(* The target of an operation is a path; unless it overwrites, the path is *)
(* free, and so is not its source.                                         *)
LEMMA TargetFacts ==
  ASSUME NEW op \in Ops, HasTarget(op)
  PROVE  /\ Target(op) \in Paths
         /\ op.overwrite => Target(op) = <<op.dst, 0>>
         /\ ~op.overwrite => dir[Target(op)] = 0
<1>1. op.dst \in Names /\ op.overwrite \in BOOLEAN
  BY DEF Ops
<1>2. \A k \in 0 .. MaxCopies : <<op.dst, k>> \in Paths
  BY <1>1 DEF Paths
<1>3. CASE op.overwrite \/ At(op.dst) = 0
  BY <1>1, <1>2, <1>3, BoundsAssumption DEF Target, At
<1>4. CASE ~op.overwrite /\ At(op.dst) # 0
  <2>1. \E k \in 1 .. MaxCopies : dir[<<op.dst, k>>] = 0
    BY <1>4, BoundsAssumption DEF HasTarget, At
  <2>2. 1 \in 0 .. MaxCopies
    BY <2>1, BoundsAssumption
  <2>3. FirstFree(op.dst, 1) \in 1 .. MaxCopies /\ dir[<<op.dst, FirstFree(op.dst, 1)>>] = 0
    BY <1>1, <2>1, <2>2, FirstFreeFacts
  <2> QED BY <1>2, <1>4, <2>3, BoundsAssumption DEF Target
<1> QED BY <1>3, <1>4

(* Paths and inodes are finitely many.                                     *)
LEMMA PathsFinite ==
  /\ IsFiniteSet(Paths) /\ Cardinality(Paths) \in Nat
  /\ IsFiniteSet(Inodes) /\ Cardinality(Inodes) = Cardinality(Paths) + 2
<1>1. IsFiniteSet(0 .. MaxCopies)
  BY FS_Interval, BoundsAssumption
<1>2. IsFiniteSet(Paths)
  BY <1>1, FS_Product, NamesAssumption DEF Paths
<1>3. Cardinality(Paths) \in Nat
  BY <1>2, FS_CardinalityType
<1>4. IsFiniteSet(1 .. (Cardinality(Paths) + 2))
  BY <1>3, FS_Interval
<1>5. Cardinality(1 .. (Cardinality(Paths) + 2)) = Cardinality(Paths) + 2
  BY <1>3, FS_Interval
<1> QED BY <1>2, <1>3, <1>4, <1>5 DEF Inodes

(* Where a path is free, there is an inode in no use.                      *)
LEMMA NewInodeFacts ==
  ASSUME NEW p \in Paths, dir \in [Paths -> Inodes \cup {0}], dir[p] = 0
  PROVE  /\ NewInode \in Inodes /\ NewInode # 0
         /\ \A q \in Paths : dir[q] # NewInode
         /\ NewInode # worker.in /\ NewInode # worker.out
<1> DEFINE Others == Paths \ {p}
           Taken == {dir[q] : q \in Others}
           f == [q \in Others |-> dir[q]]
           All == (Taken \cup {worker.in}) \cup {worker.out}
<1>1. IsFiniteSet(Others) /\ Cardinality(Others) = Cardinality(Paths) - 1
  BY PathsFinite, FS_RemoveElement
<1>2. f \in Surjection(Others, Taken)
  BY DEF Surjection
<1>3. IsFiniteSet(Taken) /\ Cardinality(Taken) <= Cardinality(Others)
  <2> HIDE DEF f, Taken, Others
  <2> QED BY <1>1, <1>2, FS_Surjection
<1>4. Cardinality(Taken) \in Nat
  BY <1>3, FS_CardinalityType
<1>5. /\ IsFiniteSet(Taken \cup {worker.in})
      /\ Cardinality(Taken \cup {worker.in}) <= Cardinality(Taken) + 1
  <2> HIDE DEF Taken
  <2> QED BY <1>3, <1>4, FS_AddElement
<1>6. Cardinality(Taken \cup {worker.in}) \in Nat
  BY <1>5, FS_CardinalityType
<1>7. /\ IsFiniteSet(All)
      /\ Cardinality(All) <= Cardinality(Taken \cup {worker.in}) + 1
  <2> HIDE DEF Taken
  <2> QED BY <1>5, <1>6, FS_AddElement
<1>8. Cardinality(All) \in Nat
  BY <1>7, FS_CardinalityType
<1>9. Cardinality(All) < Cardinality(Inodes)
  <2> HIDE DEF Taken, All, Others
  <2> QED BY <1>1, <1>3, <1>4, <1>5, <1>6, <1>7, <1>8, PathsFinite
<1>10. \E i \in Inodes : i \notin All
  <2>1. SUFFICES ASSUME Inodes \subseteq All PROVE FALSE
    OBVIOUS
  <2>2. Cardinality(Inodes) <= Cardinality(All)
    <3> HIDE DEF All
    <3> QED BY <1>7, <2>1, FS_Subset
  <2>3. Cardinality(Inodes) \in Nat
    BY PathsFinite
  <2> HIDE DEF All
  <2> QED BY <1>8, <1>9, <2>2, <2>3
<1>11. 0 \notin Inodes
  BY PathsFinite DEF Inodes
<1>12. \A i \in Inodes : i \notin All => i \notin Used
  BY <1>11 DEF Used
<1>13. NewInode \in Inodes /\ NewInode \notin Used
  BY <1>10, <1>12 DEF NewInode
<1> QED BY <1>11, <1>13 DEF Used

(***************************************************************************)
(* Types.                                                                  *)
(***************************************************************************)
(* Adding an element to a sequence, and taking the first away.             *)
LEMMA AppendFacts ==
  ASSUME NEW S, NEW s \in Seq(S), NEW e \in S
  PROVE  /\ Append(s, e) \in Seq(S)
         /\ DOMAIN s = 1 .. Len(s) /\ Len(s) \in Nat
         /\ Len(Append(s, e)) = Len(s) + 1
         /\ DOMAIN Append(s, e) = 1 .. (Len(s) + 1)
         /\ \A i \in 1 .. Len(s) : Append(s, e)[i] = s[i]
         /\ Append(s, e)[Len(s) + 1] = e
         /\ Range(Append(s, e)) = Range(s) \cup {e}
<1>1. /\ Append(s, e) \in Seq(S)
      /\ DOMAIN s = 1 .. Len(s) /\ Len(s) \in Nat
      /\ Len(Append(s, e)) = Len(s) + 1
      /\ DOMAIN Append(s, e) = 1 .. (Len(s) + 1)
      /\ \A i \in 1 .. Len(s) : Append(s, e)[i] = s[i]
      /\ Append(s, e)[Len(s) + 1] = e
  OBVIOUS
<1>2. Range(Append(s, e)) \subseteq Range(s) \cup {e}
  BY <1>1 DEF Range
<1>3. Range(s) \cup {e} \subseteq Range(Append(s, e))
  BY <1>1 DEF Range
<1> QED BY <1>1, <1>2, <1>3

LEMMA TailFacts ==
  ASSUME NEW S, NEW s \in Seq(S), s # <<>>
  PROVE  /\ Tail(s) \in Seq(S) /\ Head(s) \in S /\ Head(s) = s[1]
         /\ DOMAIN s = 1 .. Len(s) /\ Len(s) \in Nat \ {0}
         /\ Len(Tail(s)) = Len(s) - 1
         /\ DOMAIN Tail(s) = 1 .. (Len(s) - 1)
         /\ \A i \in 1 .. (Len(s) - 1) : Tail(s)[i] = s[i + 1]
         /\ Range(Tail(s)) \subseteq Range(s)
         /\ Head(s) \in Range(s)
<1>1. /\ Tail(s) \in Seq(S) /\ Head(s) \in S /\ Head(s) = s[1]
      /\ DOMAIN s = 1 .. Len(s) /\ Len(s) \in Nat \ {0}
      /\ Len(Tail(s)) = Len(s) - 1
      /\ DOMAIN Tail(s) = 1 .. (Len(s) - 1)
      /\ \A i \in 1 .. (Len(s) - 1) : Tail(s)[i] = s[i + 1]
  BY EmptySeq, HeadTailProperties, LenProperties
<1>2. \A i \in DOMAIN Tail(s) : i + 1 \in DOMAIN s /\ Tail(s)[i] = s[i + 1]
  BY <1>1
<1>3. Range(Tail(s)) \subseteq Range(s)
  BY <1>2 DEF Range
<1>4. Head(s) \in Range(s)
  BY <1>1 DEF Range
<1> QED BY <1>1, <1>3, <1>4

(* A worker with nothing to do.                                            *)
LEMMA IdleFacts ==
  /\ Idle \in Workers /\ Idle.at = "idle" /\ Idle.task = None /\ Idle.src = None
  /\ Idle.dst = None /\ Idle.in = 0 /\ Idle.out = 0 /\ Idle.then = "idle"
BY DEF Idle, Workers, Points

(* The values of the worker and its task, where it works.                  *)
LEMMA NowFacts ==
  ASSUME Typed, worker.at # "idle"
  PROVE  /\ Now \in Tasks /\ Live(Now) /\ TaskOK(Now)
         /\ task[Now] \in TaskRecs /\ task[Now].done \in Nat
         /\ task[Now].ops \in Seq(Ops) /\ Len(task[Now].ops) \in Nat
         /\ task[Now].status \in {"QUEUED", "RUNNING", "DONE", "ERROR"}
         /\ task[Now].type \in {"COPY", "MOVE"}
         /\ task[Now].done <= Len(task[Now].ops)
         /\ ~Entering(Now) /\ Now \notin Range(queue)
<1>1. Now \in Tasks /\ Live(Now)
  BY DEF Typed, WorkerOK, Now
<1>2. TaskOK(Now) /\ ~Entering(Now) /\ Now \notin Range(queue)
  BY <1>1 DEF Typed, TasksOK, Now
<1>3. task[Now] \in TaskRecs /\ task[Now].done <= Len(task[Now].ops)
  BY <1>2 DEF TaskOK
<1>4. /\ task[Now].done \in Nat /\ task[Now].ops \in Seq(Ops)
      /\ task[Now].status \in {"QUEUED", "RUNNING", "DONE", "ERROR"}
      /\ task[Now].type \in {"COPY", "MOVE"}
  BY <1>3 DEF TaskRecs
<1>5. Len(task[Now].ops) \in Nat
  BY <1>4
<1> QED BY <1>1, <1>2, <1>3, <1>4, <1>5

(* The operation at hand; a copy that overwrites is not onto its own path. *)
LEMMA OpFacts ==
  ASSUME Typed, worker.at # "idle", task[Now].done < Len(task[Now].ops)
  PROVE  /\ Op \in Ops
         /\ Beside /\ task[Now].type = "COPY" /\ Op.overwrite => Op.src # Op.dst
<1>1. task[Now].done + 1 \in 1 .. Len(task[Now].ops)
  BY NowFacts
<1>2. Op \in Ops
  BY <1>1, NowFacts, ElementOfSeq DEF Op
<1>3. PICK c \in Choices : task[Now].type = c.type /\ task[Now].ops = c.ops
  BY NowFacts DEF TaskOK
<1>4. task[Now].done + 1 \in DOMAIN c.ops
  BY <1>1, <1>3, NowFacts, LenProperties
<1>5. Op = c.ops[task[Now].done + 1]
  BY <1>3 DEF Op
<1> QED BY <1>2, <1>3, <1>4, <1>5 DEF Beside

(* What a worker that tells of its task sets.                              *)
LEMMA TellFacts ==
  ASSUME Typed, worker.at # "idle",
         NEW s \in {"RUNNING", "DONE", "ERROR"}, NEW d \in 0 .. Len(task[Now].ops),
         NEW then \in {"idle", "operation"}, Tell(s, d, then)
  PROVE  /\ DOMAIN task' = Tasks
         /\ \A t \in Tasks : t # Now => task'[t] = task[t]
         /\ task'[Now] \in TaskRecs /\ task'[Now].type = task[Now].type
         /\ task'[Now].ops = task[Now].ops
         /\ task'[Now].status = s /\ task'[Now].done = d
         /\ worker' \in Workers /\ worker'.at = "publish" /\ worker'.task = Now
         /\ worker'.then = then /\ worker'.in = 0 /\ worker'.out = 0
         /\ worker'.src = None /\ worker'.dst = None
<1>1. Now \in Tasks /\ task[Now] \in TaskRecs /\ d \in Nat
  BY NowFacts
<1>2. DOMAIN task = Tasks
  BY DEF Typed, TasksOK
<1>3. /\ DOMAIN task' = Tasks
      /\ \A t \in Tasks : t # Now => task'[t] = task[t]
      /\ task'[Now] = [task[Now] EXCEPT !.status = s, !.done = d]
  BY <1>1, <1>2 DEF Tell
<1>4. /\ task'[Now] \in TaskRecs /\ task'[Now].type = task[Now].type
      /\ task'[Now].ops = task[Now].ops
      /\ task'[Now].status = s /\ task'[Now].done = d
  <2> DEFINE new == [task[Now] EXCEPT !.status = s, !.done = d]
  <2>1. /\ new \in TaskRecs /\ new.type = task[Now].type /\ new.ops = task[Now].ops
        /\ new.status = s /\ new.done = d
    BY <1>1 DEF TaskRecs
  <2> HIDE DEF new
  <2> QED BY <1>3, <2>1 DEF new
<1>5. /\ worker' \in Workers /\ worker'.at = "publish" /\ worker'.task = Now
      /\ worker'.then = then /\ worker'.in = 0 /\ worker'.out = 0
      /\ worker'.src = None /\ worker'.dst = None
  <2> DEFINE new == [Idle EXCEPT !.at = "publish", !.task = Now, !.then = then]
  <2>1. /\ new \in Workers /\ new.at = "publish" /\ new.task = Now /\ new.then = then
        /\ new.src = None /\ new.dst = None /\ new.in = 0 /\ new.out = 0
    BY <1>1 DEF Idle, Workers, Points
  <2>2. worker' = new
    BY DEF Tell
  <2> HIDE DEF new
  <2> QED BY <2>1, <2>2
<1> QED BY <1>3, <1>4, <1>5

LEMMA TellKeeps ==
  ASSUME Typed, worker.at # "idle",
         NEW s \in {"RUNNING", "DONE", "ERROR"}, NEW d \in 0 .. Len(task[Now].ops),
         NEW then \in {"idle", "operation"}, Tell(s, d, then),
         then = "idle" <=> s # "RUNNING",
         UNCHANGED <<create, queue>>
  PROVE  TasksOK' /\ WorkerOK'
<1>1. \A t \in Tasks : (Live(t)' <=> Live(t)) /\ (Entering(t)' <=> Entering(t))
  BY DEF Live, Entering
<1>2. TaskOK(Now)'
  BY TellFacts, NowFacts DEF TaskOK, Now
<1>3. \A t \in Tasks : t # Now => (TaskOK(t)' <=> TaskOK(t))
  BY TellFacts DEF TaskOK
<1>4. \A t \in Tasks : IF Live(t)' THEN TaskOK(t)' ELSE task'[t] = None
  <2>1. \A t \in Tasks : t # Now => task'[t] = task[t]
    BY TellFacts
  <2>2. \A t \in Tasks : IF Live(t) THEN TaskOK(t) ELSE task[t] = None
    BY DEF Typed, TasksOK
  <2>3. Live(Now)
    BY NowFacts
  <2>4. worker'.task = worker.task
    BY TellFacts DEF Now
  <2> QED BY <1>1, <1>2, <1>3, <2>1, <2>2, <2>3, <2>4 DEF Now
<1>5. \A t \in Tasks : Entering(t) \/ t \in Range(queue) =>
           t # Now /\ Live(t) /\ task[t].status = "QUEUED" /\ task[t].done = 0
  BY NowFacts DEF Typed, TasksOK
<1>6. \A t \in Tasks : Entering(t) \/ t \in Range(queue) =>
           t # Now /\ Live(t)' /\ task'[t].status = "QUEUED" /\ task'[t].done = 0
                /\ worker'.task # t
  BY <1>1, <1>5, TellFacts
<1>7. TasksOK'
  BY <1>1, <1>4, <1>6, TellFacts DEF Typed, TasksOK
<1>8. Ended(task[Now])' <=> s # "RUNNING"
  BY TellFacts DEF Ended, Now
<1>9. WorkerOK'
  BY <1>1, <1>8, TellFacts, NowFacts DEF WorkerOK, Settled, Copying, Now
<1> QED BY <1>7, <1>9

(* The number of names is no more than that of inodes, so every file has   *)
(* its own at the start.                                                   *)
LEMMA FirstInodes ==
  /\ 1 .. Cardinality(Names) \subseteq Inodes
  /\ \E f \in [Names -> 1 .. Cardinality(Names)] : \A m, n \in Names : f[m] = f[n] => m = n
<1>1. Cardinality(Names) \in Nat /\ ExistsBijection(1 .. Cardinality(Names), Names)
  BY NamesAssumption, FS_CardinalityType
<1>2. PICK f \in Bijection(Names, 1 .. Cardinality(Names)) : TRUE
  BY <1>1, Fun_ExistsBijSymmetric DEF ExistsBijection
<1>3. f \in [Names -> 1 .. Cardinality(Names)] /\ \A m, n \in Names : f[m] = f[n] => m = n
  BY <1>2, Fun_BijectionProperties
<1>4. [n \in Names |-> <<n, 0>>] \in Injection(Names, Paths)
  <2> DEFINE g == [n \in Names |-> <<n, 0>>]
  <2>1. \A n \in Names : <<n, 0>> \in Paths
    BY BoundsAssumption DEF Paths
  <2>2. g \in [Names -> Paths]
    BY <2>1
  <2>3. \A m, n \in Names : g[m] = g[n] => m = n
    OBVIOUS
  <2> HIDE DEF g
  <2>4. g \in Injection(Names, Paths)
    BY <2>2, <2>3, Fun_IsInj
  <2> QED BY <2>4 DEF g
<1>5. Cardinality(Names) <= Cardinality(Paths)
  BY <1>4, PathsFinite, FS_Injection
<1>6. 1 .. Cardinality(Names) \subseteq Inodes
  BY <1>1, <1>5, PathsFinite DEF Inodes
<1> QED BY <1>3, <1>6

LEMMA FilesInit ==
  ASSUME Init
  PROVE  /\ FilesOK
         /\ \A n \in Names : dir[<<n, 0>>] # 0 /\ data[dir[<<n, 0>>]] = n
<1> DEFINE first == CHOOSE f \in [Names -> 1 .. Cardinality(Names)] :
                        \A m, n \in Names : f[m] = f[n] => m = n
<1>1. first \in [Names -> 1 .. Cardinality(Names)] /\ \A m, n \in Names : first[m] = first[n] => m = n
  BY FirstInodes
<1>2. /\ dir = [p \in Paths |-> IF p[2] = 0 THEN first[p[1]] ELSE 0]
      /\ data = [i \in Inodes |-> IF \E n \in Names : first[n] = i
                                  THEN CHOOSE n \in Names : first[n] = i ELSE "part"]
      /\ known = Names /\ agreed = {}
  BY DEF Init
<1> HIDE DEF first
<1>3. \A n \in Names : first[n] \in Inodes /\ first[n] # 0
  BY <1>1, FirstInodes DEF Inodes
<1>4. \A p \in Paths : p[1] \in Names /\ p[2] \in 0 .. MaxCopies /\ p = <<p[1], p[2]>>
  BY DEF Paths
<1>5. dir \in [Paths -> Inodes \cup {0}]
  BY <1>2, <1>3, <1>4
<1>6. data \in [Inodes -> Contents \cup {"part"}]
  <2> SUFFICES ASSUME NEW i \in Inodes
               PROVE  (IF \E n \in Names : first[n] = i
                       THEN CHOOSE n \in Names : first[n] = i ELSE "part") \in Contents \cup {"part"}
    BY <1>2
  <2> QED BY DEF Contents
<1>7. \A p, q \in Paths : dir[p] = dir[q] /\ dir[p] # 0 => p = q
  BY <1>1, <1>2, <1>4
<1>8. \A n \in Names : <<n, 0>> \in Paths
  BY BoundsAssumption DEF Paths
<1>9. ASSUME NEW n \in Names PROVE dir[<<n, 0>>] # 0 /\ data[dir[<<n, 0>>]] = n
  <2>1. dir[<<n, 0>>] = first[n] /\ first[n] \in Inodes /\ first[n] # 0
    BY <1>2, <1>3, <1>8
  <2>2. \E m \in Names : first[m] = first[n]
    OBVIOUS
  <2>3. (CHOOSE m \in Names : first[m] = first[n]) = n
    BY <1>1, <2>2
  <2> QED BY <1>2, <2>1, <2>2, <2>3
<1> QED BY <1>2, <1>5, <1>6, <1>7, <1>9 DEF FilesOK, Contents

LEMMA TypedInit == Init => Typed
<1> SUFFICES ASSUME Init PROVE Typed
  OBVIOUS
<1>1. FilesOK
  BY FilesInit
<1>2. /\ task = [t \in Tasks |-> None] /\ create = [t \in Tasks |-> "none"]
      /\ queue = <<>> /\ worker = Idle /\ stored = [t \in Tasks |-> None]
      /\ socket = <<>> /\ answers = {} /\ view = [t \in Mine |-> None]
      /\ faults = 0 /\ overtaken = {}
  BY DEF Init
<1>3. WorkerOK
  BY <1>2, IdleFacts DEF WorkerOK, Copying
<1>4. Range(queue) = {} /\ DOMAIN queue = {}
  BY <1>2 DEF Range
<1>5. TasksOK
  BY <1>2, <1>4 DEF TasksOK, Live, Entering
<1>6. NewsOK
  BY <1>2, CapAssumption, BoundsAssumption DEF NewsOK
<1> QED BY <1>1, <1>3, <1>5, <1>6 DEF Typed

(* A snapshot of a task has the values of one.                             *)
LEMMA SnapshotFacts ==
  ASSUME Typed, NEW t \in Tasks, Live(t)
  PROVE  /\ Snapshot(t) \in Snaps /\ Snapshot(t) # None
         /\ Snapshot(t).status = task[t].status /\ Snapshot(t).done = task[t].done
         /\ task[t].status \in {"QUEUED", "RUNNING", "DONE", "ERROR"} /\ task[t].done \in Nat
<1>1. task[t] \in TaskRecs
  BY DEF Typed, TasksOK, TaskOK
<1>2. task[t].status \in {"QUEUED", "RUNNING", "DONE", "ERROR"} /\ task[t].done \in Nat
  BY <1>1 DEF TaskRecs
<1> QED BY <1>2, NoneAssumption DEF Snapshot, Snaps

(* Steps that leave the tasks, the worker or the files alone.              *)
LEMMA TasksSame ==
  ASSUME Typed, UNCHANGED <<task, create, queue>>,
         worker'.at # "idle" => worker.at # "idle" /\ worker'.task = worker.task
  PROVE  TasksOK'
BY DEF Typed, TasksOK, Live, Entering, TaskOK

LEMMA WorkerSame == ASSUME Typed, UNCHANGED <<task, create, worker>> PROVE WorkerOK'
BY DEF Typed, WorkerOK, Live, Ended

LEMMA FilesSame == ASSUME Typed, UNCHANGED files PROVE FilesOK'
BY DEF Typed, FilesOK, files

LEMMA NewsSame == ASSUME Typed, UNCHANGED <<queue, stored, browser, news, faults>> PROVE NewsOK'
BY DEF Typed, NewsOK, browser, news

LEMMA CreateTyped == ASSUME Typed, NEW t \in Tasks, Create(t) PROVE Typed'
<1>1. /\ create[t] = "none" /\ create' = [create EXCEPT ![t] = "publish"]
      /\ UNCHANGED <<queue, worker, files, stored, browser, news, faults>>
  BY DEF Create
<1>2. PICK c \in Choices : task' = [task EXCEPT ![t] = [type |-> c.type, ops |-> c.ops,
                                       status |-> "QUEUED", done |-> 0]]
  BY DEF Create
<1>3. create \in [Tasks -> {"none", "publish", "enqueue", "answer", "answered", "gone"}]
      /\ DOMAIN task = Tasks
  BY DEF Typed, TasksOK
<1>4. \A u \in Tasks : u # t => task'[u] = task[u] /\ create'[u] = create[u]
  BY <1>1, <1>2, <1>3
<1>5. create'[t] = "publish" /\ task'[t] = [type |-> c.type, ops |-> c.ops,
                                            status |-> "QUEUED", done |-> 0]
  BY <1>1, <1>2, <1>3
<1>6. c.type \in {"COPY", "MOVE"} /\ c.ops \in Seq(Ops) /\ Len(c.ops) \in Nat
  BY ChoicesAssumption
<1>7. TaskOK(t)' /\ task'[t].status = "QUEUED" /\ task'[t].done = 0
  BY <1>5, <1>6 DEF TaskOK, TaskRecs
<1>8. ~Live(t) /\ t \notin Range(queue)
  BY <1>1 DEF Typed, TasksOK, Live
<1>9. worker.at # "idle" => worker.task # t
  BY <1>8 DEF Typed, WorkerOK
<1>10. /\ Live(t)' /\ Entering(t)'
       /\ \A u \in Tasks : u # t => /\ Live(u)' <=> Live(u)
                                    /\ Entering(u)' <=> Entering(u)
                                    /\ TaskOK(u)' <=> TaskOK(u)
  BY <1>4, <1>5 DEF Live, Entering, TaskOK
<1>11. /\ create' \in [Tasks -> {"none", "publish", "enqueue", "answer", "answered", "gone"}]
       /\ DOMAIN task' = Tasks
  BY <1>1, <1>2, <1>3
<1>12. TasksOK'
  BY <1>1, <1>4, <1>7, <1>8, <1>9, <1>10, <1>11 DEF Typed, TasksOK
<1>13. WorkerOK'
  BY <1>1, <1>4, <1>9, <1>10 DEF Typed, WorkerOK, Ended
<1> QED BY <1>1, <1>12, <1>13, FilesSame, NewsSame DEF Typed

LEMMA PublishNewTyped == ASSUME Typed, NEW t \in Tasks, PublishNew(t) PROVE Typed'
<1>1. /\ create[t] = "publish" /\ create' = [create EXCEPT ![t] = "enqueue"]
      /\ stored' = [stored EXCEPT ![t] = Snapshot(t)] /\ Publish(t)
      /\ UNCHANGED <<task, queue, worker, files, browser, overtaken, faults>>
  BY DEF PublishNew
<1>2. Live(t) /\ Entering(t)
  BY <1>1 DEF Live, Entering
<1>3. create \in [Tasks -> {"none", "publish", "enqueue", "answer", "answered", "gone"}]
  BY DEF Typed, TasksOK
<1>4. \A u \in Tasks : (Live(u)' <=> Live(u)) /\ (Entering(u)' <=> Entering(u))
                       /\ (TaskOK(u)' <=> TaskOK(u))
  BY <1>1, <1>2, <1>3 DEF Live, Entering, TaskOK
<1>5. TasksOK'
  BY <1>1, <1>3, <1>4 DEF Typed, TasksOK
<1>6. WorkerOK'
  BY <1>1, <1>4 DEF Typed, WorkerOK, Ended
<1>7. Snapshot(t) \in Snaps
  BY <1>2, SnapshotFacts
<1>8. t \in Mine => Append(socket, [task |-> t, snap |-> Snapshot(t)]) \in Seq(Events)
  BY <1>7, AppendFacts DEF Events, Typed, NewsOK
<1>9. NewsOK'
  BY <1>1, <1>7, <1>8 DEF Typed, NewsOK, browser, Publish
<1> QED BY <1>1, <1>5, <1>6, <1>9, FilesSame DEF Typed

LEMMA EnqueueTyped == ASSUME Typed, NEW t \in Tasks, Enqueue(t) PROVE Typed'
<1>1. /\ create[t] = "enqueue" /\ create' = [create EXCEPT ![t] = "answer"]
      /\ queue' = Append(queue, t) /\ Len(queue) < Cap
      /\ UNCHANGED <<task, worker, files, stored, browser, news, faults>>
  BY DEF Enqueue
<1>2. Live(t) /\ Entering(t) /\ t \notin Range(queue)
  BY <1>1 DEF Live, Entering, Typed, TasksOK
<1>3. create \in [Tasks -> {"none", "publish", "enqueue", "answer", "answered", "gone"}]
  BY DEF Typed, TasksOK
<1>4. \A u \in Tasks : (Live(u)' <=> Live(u)) /\ (TaskOK(u)' <=> TaskOK(u))
                       /\ (Entering(u)' <=> Entering(u) /\ u # t)
  BY <1>1, <1>2, <1>3 DEF Live, Entering, TaskOK
<1>5. queue \in Seq(Tasks)
  BY DEF Typed, NewsOK
<1>6. /\ queue' \in Seq(Tasks) /\ Range(queue') = Range(queue) \cup {t}
      /\ Len(queue') <= Cap
  BY <1>1, <1>5, AppendFacts, CapAssumption
<1>7. \A i, j \in DOMAIN queue' : queue'[i] = queue'[j] => i = j
  <2>1. /\ DOMAIN queue = 1 .. Len(queue) /\ DOMAIN queue' = 1 .. (Len(queue) + 1)
        /\ Len(queue) \in Nat
        /\ \A i \in 1 .. Len(queue) : queue'[i] = queue[i]
        /\ queue'[Len(queue) + 1] = t
    BY <1>1, <1>5, AppendFacts
  <2>2. \A i \in 1 .. Len(queue) : queue[i] # t
    BY <1>2, <2>1 DEF Range
  <2>3. \A i, j \in 1 .. Len(queue) : queue[i] = queue[j] => i = j
    BY <2>1 DEF Typed, TasksOK
  <2> QED BY <2>1, <2>2, <2>3
<1>8. TasksOK'
  <2>1. create' \in [Tasks -> {"none", "publish", "enqueue", "answer", "answered", "gone"}]
    BY <1>1, <1>3
  <2> QED BY <1>1, <1>2, <1>4, <1>6, <1>7, <2>1 DEF Typed, TasksOK
<1>9. WorkerOK'
  BY <1>1, <1>4 DEF Typed, WorkerOK, Ended
<1>10. NewsOK'
  BY <1>1, <1>6 DEF Typed, NewsOK, browser, news
<1> QED BY <1>1, <1>8, <1>9, <1>10, FilesSame DEF Typed

LEMMA AnswerTyped == ASSUME Typed, NEW t \in Tasks, Answer(t) PROVE Typed'
<1>1. /\ create[t] = "answer" /\ create' = [create EXCEPT ![t] = "answered"]
      /\ answers' = answers \cup {[v \in {u} |-> Snapshot(v)] : u \in Mine \cap {t}}
      /\ UNCHANGED <<task, queue, worker, files, stored, loaded, view, news, faults>>
  BY DEF Answer
<1>2. Live(t)
  BY <1>1 DEF Live
<1>3. create \in [Tasks -> {"none", "publish", "enqueue", "answer", "answered", "gone"}]
  BY DEF Typed, TasksOK
<1>4. \A u \in Tasks : (Live(u)' <=> Live(u)) /\ (Entering(u)' <=> Entering(u))
                       /\ (TaskOK(u)' <=> TaskOK(u))
  BY <1>1, <1>3 DEF Live, Entering, TaskOK
<1>5. TasksOK'
  BY <1>1, <1>3, <1>4 DEF Typed, TasksOK
<1>6. WorkerOK'
  BY <1>1, <1>4 DEF Typed, WorkerOK, Ended
<1>7. Snapshot(t) \in Snaps
  BY <1>2, SnapshotFacts
<1>8. \A a \in answers' : DOMAIN a \subseteq Mine /\ \A u \in DOMAIN a : a[u] \in Snaps \cup {None}
  <2> SUFFICES ASSUME NEW a \in answers'
               PROVE  DOMAIN a \subseteq Mine /\ \A u \in DOMAIN a : a[u] \in Snaps \cup {None}
    OBVIOUS
  <2>1. CASE a \in answers
    BY <2>1 DEF Typed, NewsOK
  <2>2. CASE t \in Mine /\ a = [v \in {t} |-> Snapshot(v)]
    BY <1>7, <2>2
  <2> QED BY <1>1, <2>1, <2>2
<1>9. NewsOK'
  BY <1>1, <1>8 DEF Typed, NewsOK, news
<1> QED BY <1>1, <1>5, <1>6, <1>9, FilesSame DEF Typed

LEMMA TakeTyped == ASSUME Typed, Take PROVE Typed'
<1>0. queue # <<>> => Head(queue) \in Tasks
  BY TailFacts DEF Typed, NewsOK
<1>t. PICK t \in Tasks : t = Head(queue)
  BY <1>0 DEF Take
<1>1. /\ worker.at = "idle" /\ queue # <<>> /\ queue' = Tail(queue)
      /\ task' = [task EXCEPT ![t] = [@ EXCEPT !.status = "RUNNING"]]
      /\ worker' = [Idle EXCEPT !.at = "publish", !.task = t, !.then = "totals"]
      /\ UNCHANGED <<create, files, stored, browser, news, faults>>
  BY <1>t DEF Take
<1>2. queue \in Seq(Tasks) /\ DOMAIN task = Tasks
  BY DEF Typed, NewsOK, TasksOK
<1>3. /\ t \in Tasks /\ t \in Range(queue) /\ t = queue[1]
      /\ queue' \in Seq(Tasks) /\ Range(queue') \subseteq Range(queue)
      /\ DOMAIN queue = 1 .. Len(queue) /\ Len(queue) \in Nat \ {0}
      /\ Len(queue') = Len(queue) - 1
      /\ DOMAIN queue' = 1 .. (Len(queue) - 1)
      /\ \A i \in 1 .. (Len(queue) - 1) : queue'[i] = queue[i + 1]
  BY <1>1, <1>2, <1>t, TailFacts
<1>4. \A i, j \in DOMAIN queue : queue[i] = queue[j] => i = j
  BY DEF Typed, TasksOK
<1>5. \A i, j \in DOMAIN queue' : queue'[i] = queue'[j] => i = j
  BY <1>3, <1>4
<1>6. t \notin Range(queue')
  <2> SUFFICES ASSUME NEW i \in DOMAIN queue', queue'[i] = t PROVE FALSE
    BY DEF Range
  <2>1. i + 1 \in DOMAIN queue /\ 1 \in DOMAIN queue /\ queue[i + 1] = t /\ i + 1 # 1
    BY <1>3
  <2> QED BY <1>3, <1>4, <2>1
<1>7. Live(t) /\ ~Entering(t) /\ TaskOK(t) /\ task[t].status = "QUEUED" /\ task[t].done = 0
  BY <1>3 DEF Typed, TasksOK
<1>8. task'[t] = [task[t] EXCEPT !.status = "RUNNING"] /\ DOMAIN task' = Tasks
      /\ \A u \in Tasks : u # t => task'[u] = task[u]
  BY <1>1, <1>2, <1>3
<1>9. task[t] \in TaskRecs
  BY <1>7 DEF TaskOK
<1>10. /\ task'[t] \in TaskRecs /\ task'[t].type = task[t].type /\ task'[t].ops = task[t].ops
       /\ task'[t].status = "RUNNING" /\ task'[t].done = 0
  BY <1>7, <1>8, <1>9 DEF TaskRecs
<1>11. /\ worker' \in Workers /\ worker'.at = "publish" /\ worker'.task = t
       /\ worker'.then = "totals" /\ worker'.in = 0 /\ worker'.out = 0
  BY <1>1, <1>3 DEF Idle, Workers, Points
<1>12. /\ TaskOK(t)'
       /\ \A u \in Tasks : /\ Live(u)' <=> Live(u)
                           /\ Entering(u)' <=> Entering(u)
                           /\ u # t => (TaskOK(u)' <=> TaskOK(u))
  BY <1>1, <1>7, <1>8, <1>10 DEF Live, Entering, TaskOK
<1>13. TasksOK'
  <2>1. \A u \in Tasks : IF Live(u)' THEN TaskOK(u)' ELSE task'[u] = None
    BY <1>7, <1>8, <1>12 DEF Typed, TasksOK
  <2>2. \A u \in Tasks : Entering(u) \/ u \in Range(queue) =>
            /\ Live(u) /\ task[u].status = "QUEUED" /\ task[u].done = 0
    BY DEF Typed, TasksOK
  <2>3. \A u \in Tasks : Entering(u) \/ u \in Range(queue') =>
            /\ u # t /\ Live(u)' /\ task'[u].status = "QUEUED" /\ task'[u].done = 0
            /\ worker'.task # u
    BY <1>3, <1>6, <1>7, <1>8, <1>11, <1>12, <2>2
  <2>4. \A u \in Tasks : Entering(u) => u \notin Range(queue')
    BY <1>3 DEF Typed, TasksOK
  <2> QED BY <1>1, <1>5, <1>8, <1>12, <2>1, <2>3, <2>4 DEF Typed, TasksOK
<1>14. WorkerOK'
  BY <1>3, <1>7, <1>10, <1>11, <1>12 DEF WorkerOK, Copying, Settled, Ended
<1>15. NewsOK'
  BY <1>1, <1>3, CapAssumption DEF Typed, NewsOK, browser, news
<1> QED BY <1>1, <1>13, <1>14, <1>15, FilesSame DEF Typed

LEMMA TellsTyped == ASSUME Typed, Tells PROVE Typed'
<1>1. /\ worker.at = "publish" /\ Publish(Now) /\ worker' = [worker EXCEPT !.at = "save"]
      /\ UNCHANGED <<task, create, queue, files, stored, browser, overtaken, faults>>
  BY DEF Tells
<1>2. worker \in Workers
  BY DEF Typed, WorkerOK
<1>3. /\ worker' \in Workers /\ worker'.at = "save" /\ worker'.task = worker.task
      /\ worker'.then = worker.then /\ worker'.in = worker.in /\ worker'.out = worker.out
  BY <1>1, <1>2 DEF Workers, Points
<1>4. TasksOK'
  BY <1>1, <1>3, TasksSame
<1>5. WorkerOK'
  BY <1>1, <1>3 DEF Typed, WorkerOK, Live, Ended, Settled, Copying
<1>6. Snapshot(Now) \in Snaps /\ Now \in Tasks
  BY <1>1, NowFacts, SnapshotFacts
<1>7. Now \in Mine => Append(socket, [task |-> Now, snap |-> Snapshot(Now)]) \in Seq(Events)
  BY <1>6, AppendFacts DEF Events, Typed, NewsOK
<1>8. NewsOK'
  BY <1>1, <1>6, <1>7 DEF Typed, NewsOK, browser, Publish
<1> QED BY <1>1, <1>4, <1>5, <1>8, FilesSame DEF Typed

LEMMA SaveTyped == ASSUME Typed, Save PROVE Typed'
<1>1. /\ worker.at = "save"
      /\ worker' = IF worker.then = "idle" THEN Idle ELSE [worker EXCEPT !.at = worker.then]
      /\ UNCHANGED <<task, create, queue, files, browser, news, faults>>
  BY DEF Save
<1>2. stored' = stored \/ stored' = [stored EXCEPT ![Now] = Snapshot(Now)]
  BY DEF Save
<1>3. worker \in Workers /\ worker.then \in {"idle", "totals", "operation"}
  BY DEF Typed, WorkerOK, Workers
<1>4. Snapshot(Now) \in Snaps /\ Now \in Tasks
  BY <1>1, NowFacts, SnapshotFacts
<1>5. stored' \in [Tasks -> Snaps \cup {None}]
  BY <1>2, <1>4 DEF Typed, NewsOK
<1>6. CASE worker.then = "idle"
  <2>1. worker' = Idle
    BY <1>1, <1>6
  <2>2. TasksOK'
    BY <1>1, <2>1, IdleFacts, TasksSame
  <2>3. WorkerOK'
    BY <2>1, IdleFacts DEF WorkerOK, Copying
  <2> QED BY <1>1, <1>5, <2>2, <2>3, FilesSame DEF Typed, NewsOK, browser, news
<1>7. CASE worker.then # "idle"
  <2>1. /\ worker' \in Workers /\ worker'.at = worker.then /\ worker'.task = worker.task
        /\ worker'.then = worker.then /\ worker'.in = worker.in /\ worker'.out = worker.out
    BY <1>1, <1>3, <1>7 DEF Workers, Points
  <2>2. TasksOK'
    BY <1>1, <2>1, TasksSame
  <2>3. WorkerOK'
    BY <1>1, <1>3, <1>7, <2>1 DEF Typed, WorkerOK, Live, Ended, Settled, Copying
  <2> QED BY <1>1, <1>5, <2>2, <2>3, FilesSame DEF Typed, NewsOK, browser, news
<1> QED BY <1>6, <1>7

LEMMA TotalsTyped == ASSUME Typed, Totals PROVE Typed'
<1>1. /\ worker.at = "totals"
      /\ UNCHANGED <<create, queue, files, stored, browser, news, faults>>
      /\ Tell("ERROR", task[Now].done, "idle") \/ Tell("RUNNING", 0, "operation")
  BY DEF Totals, Failed
<1>2. task[Now].done \in 0 .. Len(task[Now].ops) /\ 0 \in 0 .. Len(task[Now].ops)
  BY <1>1, NowFacts
<1>3. TasksOK' /\ WorkerOK'
  BY <1>1, <1>2, TellKeeps
<1> QED BY <1>1, <1>3, FilesSame, NewsSame DEF Typed

LEMMA AllDoneTyped == ASSUME Typed, AllDone PROVE Typed'
<1>1. /\ worker.at = "operation"
      /\ UNCHANGED <<create, queue, files, stored, browser, news, faults>>
      /\ Tell("DONE", task[Now].done, "idle")
  BY DEF AllDone
<1>2. task[Now].done \in 0 .. Len(task[Now].ops)
  BY <1>1, NowFacts
<1>3. TasksOK' /\ WorkerOK'
  BY <1>1, <1>2, TellKeeps
<1> QED BY <1>1, <1>3, FilesSame, NewsSame DEF Typed

LEMMA SettleTyped == ASSUME Typed, Settle PROVE Typed'
<1>1. /\ worker.at = "operation" /\ task[Now].done < Len(task[Now].ops)
      /\ At(Op.src) = 0 \/ HasTarget(Op)
      /\ UNCHANGED <<create, queue, dir, data, known, stored, browser, news, faults>>
  BY DEF Settle
<1>2. CASE At(Op.src) = 0
  <2>1. Tell("ERROR", task[Now].done, "idle") /\ UNCHANGED agreed
    BY <1>2 DEF Settle, Failed
  <2>2. task[Now].done \in 0 .. Len(task[Now].ops)
    BY <1>1, NowFacts
  <2>3. TasksOK' /\ WorkerOK'
    BY <1>1, <2>1, <2>2, TellKeeps
  <2> QED BY <1>1, <2>1, <2>3, FilesSame, NewsSame DEF Typed, files
<1>3. CASE At(Op.src) # 0
  <2>1. Op \in Ops /\ Op.src \in Names /\ <<Op.src, 0>> \in Paths /\ Target(Op) \in Paths
    BY <1>1, <1>3, OpFacts, TargetFacts, BoundsAssumption DEF Ops, Paths
  <2>2. /\ worker' = [worker EXCEPT !.at = task[Now].type,
                                    !.src = <<Op.src, 0>>, !.dst = Target(Op)]
        /\ agreed' \in {agreed, agreed \cup {data[dir[Target(Op)]]}}
        /\ dir[Target(Op)] = 0 => agreed' = agreed
        /\ UNCHANGED task
    BY <1>3 DEF Settle
  <2>3. worker \in Workers /\ task[Now].type \in {"COPY", "MOVE"}
    BY <1>1, NowFacts DEF Typed, WorkerOK
  <2>4. /\ worker' \in Workers /\ worker'.at = task[Now].type /\ worker'.task = worker.task
        /\ worker'.src = <<Op.src, 0>> /\ worker'.dst = Target(Op)
        /\ worker'.in = worker.in /\ worker'.out = worker.out
    BY <2>1, <2>2, <2>3 DEF Workers, Points
  <2>5. TasksOK'
    BY <1>1, <2>2, <2>4, TasksSame
  <2>6. WorkerOK'
    BY <1>1, <2>1, <2>2, <2>3, <2>4 DEF Typed, WorkerOK, Live, Settled, Copying, Now
  <2>7. FilesOK'
    BY <1>1, <2>1, <2>2 DEF Typed, FilesOK
  <2> QED BY <1>1, <2>5, <2>6, <2>7, NewsSame DEF Typed
<1> QED BY <1>2, <1>3

(* One more operation is done.                                             *)
LEMMA FinishedKeeps ==
  ASSUME Typed, worker.at \in Settled, Finished, UNCHANGED <<create, queue>>
  PROVE  TasksOK' /\ WorkerOK'
<1>1. worker.at # "idle" /\ task[Now].done < Len(task[Now].ops)
  BY DEF Typed, WorkerOK, Settled, Now
<1>2. task[Now].done + 1 \in 0 .. Len(task[Now].ops)
  BY <1>1, NowFacts
<1> QED BY <1>1, <1>2, TellKeeps DEF Finished

LEMMA FailedKeeps ==
  ASSUME Typed, worker.at # "idle", Failed, UNCHANGED <<create, queue>>
  PROVE  TasksOK' /\ WorkerOK'
<1>1. task[Now].done \in 0 .. Len(task[Now].ops)
  BY NowFacts
<1> QED BY <1>1, TellKeeps DEF Failed

LEMMA RenameTyped == ASSUME Typed, Rename PROVE Typed'
<1>1. /\ worker.at = "MOVE" /\ dir[worker.src] # 0 /\ Finished
      /\ dir' = IF worker.src = worker.dst THEN dir
                ELSE [dir EXCEPT ![worker.dst] = dir[worker.src], ![worker.src] = 0]
      /\ UNCHANGED <<create, queue, data, known, agreed, stored, browser, news, faults>>
  BY DEF Rename
<1>2. TasksOK' /\ WorkerOK'
  BY <1>1, FinishedKeeps DEF Settled
<1>3. worker.src \in Paths /\ worker.dst \in Paths
  BY <1>1 DEF Typed, WorkerOK, Settled
<1>4. FilesOK'
  BY <1>1, <1>3 DEF Typed, FilesOK
<1> QED BY <1>1, <1>2, <1>4, NewsSame DEF Typed

(* What Open does when there is a file to read: it opens or creates the    *)
(* target.                                                                 *)
LEMMA OpenFacts ==
  ASSUME Typed, Open, dir[worker.src] # 0
  PROVE  /\ worker.src \in Paths /\ worker.dst \in Paths
         /\ worker' \in Workers /\ worker'.at = "copying" /\ worker'.task = worker.task
         /\ worker'.src = worker.src /\ worker'.dst = worker.dst
         /\ worker'.in = dir[worker.src] /\ worker'.out \in Inodes /\ worker'.out # 0
         /\ IF dir[worker.dst] # 0 THEN worker'.out = dir[worker.dst] ELSE worker'.out = NewInode
         /\ dir' = [dir EXCEPT ![worker.dst] = worker'.out]
         /\ data' = [data EXCEPT ![worker'.out] = "part"]
         /\ UNCHANGED <<task, known, agreed>>
<1> DEFINE o == IF dir[worker.dst] # 0 THEN dir[worker.dst] ELSE NewInode
<1>1. worker.src \in Paths /\ worker.dst \in Paths /\ worker \in Workers
  BY DEF Open, Typed, WorkerOK, Settled
<1>2. dir \in [Paths -> Inodes \cup {0}]
  BY DEF Typed, FilesOK
<1>3. o \in Inodes /\ o # 0
  BY <1>1, <1>2, NewInodeFacts
<1>4. /\ dir' = [dir EXCEPT ![worker.dst] = o]
      /\ data' = [data EXCEPT ![o] = "part"]
      /\ worker' = [worker EXCEPT !.at = "copying", !.in = dir[worker.src], !.out = o]
      /\ UNCHANGED <<task, known, agreed>>
  BY DEF Open
<1>5. o = dir[worker.dst] \/ (dir[worker.dst] = 0 /\ o = NewInode)
  OBVIOUS
<1>6. dir[worker.src] \in Inodes
  BY <1>1, <1>2
<1> HIDE DEF o
<1>7. /\ worker' \in Workers /\ worker'.at = "copying" /\ worker'.task = worker.task
      /\ worker'.src = worker.src /\ worker'.dst = worker.dst
      /\ worker'.in = dir[worker.src] /\ worker'.out = o
  BY <1>1, <1>3, <1>4, <1>6 DEF Workers, Points
<1> QED BY <1>1, <1>3, <1>4, <1>5, <1>7 DEF o

LEMMA OpenTyped == ASSUME Typed, Open PROVE Typed'
<1>1. /\ worker.at \in {"COPY", "MOVE"}
      /\ UNCHANGED <<create, queue, known, agreed, stored, browser, news, faults>>
  BY DEF Open
<1>2. CASE dir[worker.src] = 0
  <2>1. Failed /\ UNCHANGED <<dir, data>>
    BY <1>2 DEF Open
  <2> QED BY <1>1, <2>1, FailedKeeps, FilesSame, NewsSame DEF Typed, files
<1>3. CASE dir[worker.src] # 0
  <2>1. TasksOK'
    BY <1>1, <1>3, OpenFacts, TasksSame
  <2>2. WorkerOK'
    BY <1>1, <1>3, OpenFacts DEF Typed, WorkerOK, Live, Settled, Copying
  <2>3. dir[worker.dst] = 0 => \A q \in Paths : dir[q] # NewInode
    BY <1>3, OpenFacts, NewInodeFacts DEF Typed, FilesOK
  <2>4. FilesOK'
    <3>1. dir' \in [Paths -> Inodes \cup {0}] /\ data' \in [Inodes -> Contents \cup {"part"}]
      BY <1>3, OpenFacts DEF Typed, FilesOK
    <3>2. \A q \in Paths : q # worker.dst => dir'[q] = dir[q] /\ dir[q] # worker'.out
      BY <1>3, <2>3, OpenFacts DEF Typed, FilesOK
    <3>3. dir'[worker.dst] = worker'.out
      BY <1>3, OpenFacts DEF Typed, FilesOK
    <3> QED BY <1>1, <1>3, <3>1, <3>2, <3>3 DEF Typed, FilesOK
  <2> QED BY <1>1, <2>1, <2>2, <2>4, NewsSame DEF Typed
<1> QED BY <1>2, <1>3

LEMMA CopyTyped == ASSUME Typed, Copy PROVE Typed'
<1>1. /\ worker.at = "copying"
      /\ data' = [data EXCEPT ![worker.out] = data[worker.in]]
      /\ UNCHANGED <<create, queue, dir, known, agreed, stored, browser, news, faults>>
      /\ Finished \/ (worker' = [worker EXCEPT !.at = "remove"] /\ UNCHANGED task)
  BY DEF Copy
<1>2. worker \in Workers /\ worker.in \in Inodes /\ worker.out \in Inodes
  BY <1>1 DEF Typed, WorkerOK, Copying, Workers
<1>3. FilesOK'
  BY <1>1, <1>2 DEF Typed, FilesOK
<1>4. CASE Finished
  BY <1>1, <1>3, <1>4, FinishedKeeps, NewsSame DEF Typed, Settled
<1>5. CASE worker' = [worker EXCEPT !.at = "remove"] /\ UNCHANGED task
  <2>1. /\ worker' \in Workers /\ worker'.at = "remove" /\ worker'.task = worker.task
        /\ worker'.src = worker.src /\ worker'.dst = worker.dst
        /\ worker'.in = worker.in /\ worker'.out = worker.out
    BY <1>2, <1>5 DEF Workers, Points
  <2>2. TasksOK'
    BY <1>1, <1>5, <2>1, TasksSame
  <2>3. WorkerOK'
    BY <1>1, <1>5, <2>1 DEF Typed, WorkerOK, Live, Settled, Copying
  <2> QED BY <1>1, <1>3, <2>2, <2>3, NewsSame DEF Typed
<1> QED BY <1>1, <1>4, <1>5

LEMMA CopyFailsTyped == ASSUME Typed, CopyFails PROVE Typed'
<1>1. /\ worker.at = "copying" /\ faults < MaxFaults /\ faults' = faults + 1 /\ Failed
      /\ UNCHANGED <<create, queue, files, stored, browser, news>>
  BY DEF CopyFails
<1>2. TasksOK' /\ WorkerOK'
  BY <1>1, FailedKeeps
<1>3. NewsOK'
  BY <1>1, BoundsAssumption DEF Typed, NewsOK, browser, news
<1> QED BY <1>1, <1>2, <1>3, FilesSame DEF Typed

LEMMA RemoveSourceTyped == ASSUME Typed, RemoveSource PROVE Typed'
<1>1. /\ worker.at = "remove" /\ dir' = [dir EXCEPT ![worker.src] = 0] /\ Finished
      /\ UNCHANGED <<create, queue, data, known, agreed, stored, browser, news, faults>>
  BY DEF RemoveSource
<1>2. TasksOK' /\ WorkerOK'
  BY <1>1, FinishedKeeps DEF Settled
<1>3. FilesOK'
  BY <1>1 DEF Typed, FilesOK
<1> QED BY <1>1, <1>2, <1>3, NewsSame DEF Typed

LEMMA DeliverTyped == ASSUME Typed, Deliver PROVE Typed'
<1>1. /\ socket # <<>> /\ socket' = Tail(socket)
      /\ view' = [view EXCEPT ![Head(socket).task] = Head(socket).snap]
      /\ overtaken' = overtaken \ {Head(socket).task}
      /\ UNCHANGED <<task, create, queue, worker, files, stored, answers, loaded, faults>>
  BY DEF Deliver, memory
<1>2. socket' \in Seq(Events) /\ Head(socket) \in Events
  BY <1>1, TailFacts DEF Typed, NewsOK
<1>3. Head(socket).task \in Mine /\ Head(socket).snap \in Snaps
  BY <1>2 DEF Events
<1>4. NewsOK'
  BY <1>1, <1>2, <1>3 DEF Typed, NewsOK
<1> QED BY <1>1, <1>4, TasksSame, WorkerSame, FilesSame DEF Typed

LEMMA DeliverAnswerTyped == ASSUME Typed, DeliverAnswer PROVE Typed'
<1>1. UNCHANGED <<task, create, queue, worker, files, stored, loaded, socket, faults>>
  BY DEF DeliverAnswer, memory
<1>2. PICK a \in answers :
          /\ view' = [t \in Mine |-> IF t \in DOMAIN a THEN a[t] ELSE view[t]]
          /\ overtaken' = overtaken \cup Older(a)
          /\ answers' = answers \ {a}
  BY DEF DeliverAnswer
<1>3. DOMAIN a \subseteq Mine /\ \A t \in DOMAIN a : a[t] \in Snaps \cup {None}
  BY DEF Typed, NewsOK
<1>4. Older(a) \subseteq Mine
  BY <1>3 DEF Older
<1>5. view' \in [Mine -> Snaps \cup {None}]
  BY <1>2, <1>3 DEF Typed, NewsOK
<1>6. NewsOK'
  BY <1>1, <1>2, <1>4, <1>5 DEF Typed, NewsOK
<1> QED BY <1>1, <1>6, TasksSame, WorkerSame, FilesSame DEF Typed

(* The list tells each task as it is, or as it is stored.                  *)
LEMMA ListFacts ==
  ASSUME Typed, NEW t \in Mine
  PROVE  /\ Live(t) \/ task[t] = None
         /\ stored[t] \in Snaps \cup {None}
         /\ Live(t) => Snapshot(t) \in Snaps
         /\ (IF task[t] = None THEN stored[t] ELSE Snapshot(t)) \in Snaps \cup {None}
<1>1. t \in Tasks
  BY MineAssumption
<1>2. (Live(t) \/ task[t] = None) /\ stored[t] \in Snaps \cup {None}
  BY <1>1 DEF Typed, TasksOK, NewsOK
<1> QED BY <1>1, <1>2, SnapshotFacts

LEMMA GetTasksTyped == ASSUME Typed, GetTasks PROVE Typed'
<1> DEFINE a == [t \in Mine |-> IF task[t] = None THEN stored[t] ELSE Snapshot(t)]
<1>1. answers' = answers \cup {a}
      /\ UNCHANGED <<task, create, queue, worker, files, stored, view, socket, overtaken, faults>>
  BY DEF GetTasks, memory, news
<1>2. DOMAIN a = Mine /\ \A t \in Mine : a[t] \in Snaps \cup {None}
  BY ListFacts
<1> HIDE DEF a
<1>3. NewsOK'
  BY <1>1, <1>2 DEF Typed, NewsOK
<1> QED BY <1>1, <1>3, TasksSame, WorkerSame, FilesSame DEF Typed

LEMMA DeleteTyped == ASSUME Typed, NEW p \in Paths, Delete(p) PROVE Typed'
<1>1. /\ faults < MaxFaults /\ faults' = faults + 1 /\ dir[p] # 0
      /\ dir' = [dir EXCEPT ![p] = 0]
      /\ agreed' = agreed \cup {data[dir[p]]}
                          \cup (IF dir[p] = worker.out THEN {data[worker.in]} ELSE {})
      /\ UNCHANGED <<task, create, queue, worker, data, known, stored, browser, news>>
  BY DEF Delete, memory
<1>2. NewsOK'
  BY <1>1, BoundsAssumption DEF Typed, NewsOK, browser, news
<1>3. dir[p] = worker.out => worker.in \in Inodes
  BY <1>1 DEF Typed, WorkerOK, Workers
<1>4. FilesOK'
  BY <1>1, <1>3 DEF Typed, FilesOK
<1> QED BY <1>1, <1>2, <1>4, TasksSame, WorkerSame DEF Typed

(* What Put does: the new file is in no use elsewhere.                     *)
LEMMA PutFacts ==
  ASSUME Typed, NEW c \in Fresh, NEW p \in Paths, Put(c, p)
  PROVE  \E i \in Inodes :
           /\ dir[p] = 0 /\ i # 0 /\ i # worker.in /\ i # worker.out
           /\ \A q \in Paths : dir[q] # i
           /\ dir' = [dir EXCEPT ![p] = i] /\ data' = [data EXCEPT ![i] = c]
           /\ known' = known \cup {c} /\ c \notin known
           /\ agreed' = IF p \in {worker.src, worker.dst} THEN agreed \cup {c} ELSE agreed
<1>1. /\ dir[p] = 0 /\ c \notin known /\ known' = known \cup {c}
      /\ dir' = [dir EXCEPT ![p] = NewInode] /\ data' = [data EXCEPT ![NewInode] = c]
      /\ agreed' = IF p \in {worker.src, worker.dst} THEN agreed \cup {c} ELSE agreed
  BY DEF Put
<1>2. /\ NewInode \in Inodes /\ NewInode # 0
      /\ \A q \in Paths : dir[q] # NewInode
      /\ NewInode # worker.in /\ NewInode # worker.out
  BY <1>1, NewInodeFacts DEF Typed, FilesOK
<1> QED BY <1>1, <1>2

LEMMA PutTyped == ASSUME Typed, NEW c \in Fresh, NEW p \in Paths, Put(c, p) PROVE Typed'
<1>1. /\ faults < MaxFaults /\ faults' = faults + 1
      /\ UNCHANGED <<task, create, queue, worker, stored, browser, news>>
  BY DEF Put, memory
<1>2. NewsOK'
  BY <1>1, BoundsAssumption DEF Typed, NewsOK, browser, news
<1>3. FilesOK'
  <2>1. PICK i \in Inodes :
           /\ dir[p] = 0 /\ \A q \in Paths : dir[q] # i
           /\ dir' = [dir EXCEPT ![p] = i] /\ data' = [data EXCEPT ![i] = c]
           /\ known' = known \cup {c} /\ agreed' \in {agreed, agreed \cup {c}}
    BY PutFacts
  <2> QED BY <2>1 DEF Typed, FilesOK, Contents
<1> QED BY <1>1, <1>2, <1>3, TasksSame, WorkerSame DEF Typed

LEMMA RestartTyped == ASSUME Typed, Restart PROVE Typed'
<1>1. /\ faults < MaxFaults /\ faults' = faults + 1
      /\ task' = [t \in Tasks |-> None]
      /\ create' = [t \in Tasks |-> IF create[t] = "none" THEN "none" ELSE "gone"]
      /\ queue' = <<>> /\ worker' = Idle /\ socket' = <<>> /\ answers' = {}
      /\ overtaken' = Mine
      /\ UNCHANGED <<files, stored, loaded, view>>
  BY DEF Restart
<1>2. WorkerOK'
  BY <1>1, IdleFacts DEF WorkerOK, Copying
<1>3. Range(queue') = {} /\ DOMAIN queue' = {}
  BY <1>1 DEF Range
<1>4. TasksOK'
  BY <1>1, <1>3 DEF TasksOK, Live, Entering
<1>5. NewsOK'
  BY <1>1, BoundsAssumption, CapAssumption DEF Typed, NewsOK
<1> QED BY <1>1, <1>2, <1>4, <1>5, FilesSame DEF Typed

(* Every step keeps the types.                                             *)
LEMMA TypedStep == Typed /\ [Next]_vars => Typed'
<1> SUFFICES ASSUME Typed, [Next]_vars PROVE Typed'
  OBVIOUS
<1>1. CASE \E t \in Tasks : Create(t) \/ Request(t)
  BY <1>1, CreateTyped, PublishNewTyped, EnqueueTyped, AnswerTyped DEF Request
<1>2. CASE Worker
  BY <1>2, TakeTyped, TellsTyped, SaveTyped, TotalsTyped, AllDoneTyped, SettleTyped,
     RenameTyped, OpenTyped, CopyTyped, CopyFailsTyped, RemoveSourceTyped DEF Worker
<1>3. CASE Deliver \/ DeliverAnswer \/ GetTasks
  BY <1>3, DeliverTyped, DeliverAnswerTyped, GetTasksTyped
<1>4. CASE \E p \in Paths : Delete(p)
  BY <1>4, DeleteTyped
<1>5. CASE \E c \in Fresh, p \in (Names \X {0}) \cup ({worker.src, worker.dst} \cap Paths) :
               Put(c, p)
  <2>1. Names \X {0} \subseteq Paths
    BY BoundsAssumption DEF Paths
  <2> QED BY <1>5, <2>1, PutTyped
<1>6. CASE Restart
  BY <1>6, RestartTyped
<1>7. CASE UNCHANGED vars
  <2>1. /\ UNCHANGED <<task, create, queue, worker>> /\ UNCHANGED files
        /\ UNCHANGED <<stored, browser, news, faults>>
    BY <1>7 DEF vars, memory
  <2> QED BY <2>1, TasksSame, WorkerSame, FilesSame, NewsSame DEF Typed
<1> QED BY <1>1, <1>2, <1>3, <1>4, <1>5, <1>6, <1>7 DEF Next

(* Types, and that a task is queued once and an inode has one path.        *)
THEOREM TypedAlways == Spec => []Typed
BY TypedInit, TypedStep, PTL DEF Spec

(* The variables of tasks, worker, files and news have their types, for    *)
(* every number of tasks, names, files and failures.                       *)
THEOREM TypeCorrect == Spec => []TypeOK
<1>1. Typed => TypeOK
  <2> SUFFICES ASSUME Typed PROVE TypeOK
    OBVIOUS
  <2>1. ASSUME NEW t \in Tasks, task[t] # None
        PROVE  Snapshot(t) \in Snaps /\ task[t].done <= Len(task[t].ops)
    <3>1. Live(t) /\ TaskOK(t)
      BY <2>1 DEF Typed, TasksOK
    <3> QED BY <3>1, SnapshotFacts DEF TaskOK
  <2>2. worker.task \in Tasks \cup {None}
    BY DEF Typed, WorkerOK, Workers
  <2> QED BY <2>1, <2>2 DEF TypeOK, Typed, NewsOK, FilesOK
<1> QED BY <1>1, TypedAlways, PTL

(***************************************************************************)
(* No file is lost.                                                        *)
(***************************************************************************)
FilesInv == FilesRight /\ NothingLost

LEMMA FilesInvInit == Init => FilesInv
<1> SUFFICES ASSUME Init PROVE FilesInv
  OBVIOUS
<1>1. worker.at = "idle" /\ known = Names
  BY IdleFacts DEF Init
<1>2. \A n \in Names : <<n, 0>> \in Paths
  BY BoundsAssumption DEF Paths
<1> QED BY <1>1, <1>2, FilesInit DEF FilesInv, FilesRight, NothingLost, Copying

(* Steps that touch no file, and settle no path.                           *)
LEMMA FilesInvSame ==
  ASSUME Typed, FilesInv, UNCHANGED files, worker' = worker \/ worker'.at \notin Settled
  PROVE  FilesInv'
<1>1. UNCHANGED <<dir, data, known, agreed>>
  BY DEF files
<1> QED BY <1>1 DEF FilesInv, FilesRight, NothingLost, Copying, Settled

LEMMA SettleFiles == ASSUME Beside, Typed, FilesInv, Settle PROVE FilesInv'
<1>1. /\ worker.at = "operation" /\ task[Now].done < Len(task[Now].ops)
      /\ At(Op.src) = 0 \/ HasTarget(Op)
      /\ UNCHANGED <<dir, data, known>>
  BY DEF Settle
<1>2. CASE At(Op.src) = 0
  <2>1. worker'.at = "publish" /\ UNCHANGED agreed
    BY <1>2, IdleFacts DEF Settle, Failed, Tell, Idle
  <2> QED BY <1>1, <2>1, FilesInvSame DEF Settled, files
<1>3. CASE At(Op.src) # 0
  <2>1. /\ Op \in Ops /\ Op.overwrite \in BOOLEAN
        /\ task[Now].type = "COPY" /\ Op.overwrite => Op.src # Op.dst
        /\ Op.overwrite => Target(Op) = <<Op.dst, 0>>
        /\ ~Op.overwrite => dir[Target(Op)] = 0
    BY <1>1, <1>3, OpFacts, TargetFacts DEF Ops
  <2>2. /\ worker' = [worker EXCEPT !.at = task[Now].type,
                                    !.src = <<Op.src, 0>>, !.dst = Target(Op)]
        /\ agreed' = IF dir[Target(Op)] # 0 /\ Op.overwrite /\ Op.src # Op.dst
                     THEN agreed \cup {data[dir[Target(Op)]]} ELSE agreed
    BY <1>3 DEF Settle
  <2>3. worker \in Workers /\ task[Now].type \in {"COPY", "MOVE"}
    BY <1>1, NowFacts DEF Typed, WorkerOK
  <2>4. /\ worker'.at = task[Now].type
        /\ worker'.src = <<Op.src, 0>> /\ worker'.dst = Target(Op)
    BY <2>2, <2>3 DEF Workers
  <2>5. worker'.at = "COPY" => worker'.src # worker'.dst
    BY <1>3, <2>1, <2>4 DEF At
  <2>6. dir[worker'.dst] # 0 /\ worker'.src # worker'.dst => data[dir[worker'.dst]] \in agreed'
    BY <2>1, <2>2, <2>4
  <2>7. agreed \subseteq agreed'
    BY <2>2
  <2> QED BY <1>1, <2>3, <2>4, <2>5, <2>6, <2>7 DEF FilesInv, FilesRight, NothingLost, Copying
<1> QED BY <1>2, <1>3

LEMMA RenameFiles == ASSUME Typed, FilesInv, Rename PROVE FilesInv'
<1>1. /\ worker.at = "MOVE" /\ dir[worker.src] # 0
      /\ dir' = IF worker.src = worker.dst THEN dir
                ELSE [dir EXCEPT ![worker.dst] = dir[worker.src], ![worker.src] = 0]
      /\ UNCHANGED <<data, known, agreed>>
  BY DEF Rename
<1>2. worker'.at = "publish"
  BY DEF Rename, Finished, Tell, Idle
<1>3. worker.src \in Paths /\ worker.dst \in Paths
  BY <1>1 DEF Typed, WorkerOK, Settled
<1>4. FilesRight'
  BY <1>2 DEF FilesRight, Copying
<1>5. ASSUME NEW c \in known \ agreed PROVE \E p \in Paths : dir'[p] # 0 /\ data[dir'[p]] = c
  <2>1. PICK p \in Paths : dir[p] # 0 /\ data[dir[p]] = c
    BY DEF FilesInv, NothingLost
  <2>2. CASE worker.src = worker.dst
    BY <1>1, <2>1, <2>2
  <2>3. CASE worker.src # worker.dst
    <3>1. p # worker.dst
      BY <1>1, <2>1, <2>3 DEF FilesInv, FilesRight
    <3>2. CASE p = worker.src
      BY <1>1, <1>3, <2>1, <2>3, <3>2 DEF Typed, FilesOK
    <3>3. CASE p # worker.src
      BY <1>1, <1>3, <2>1, <2>3, <3>1, <3>3 DEF Typed, FilesOK
    <3> QED BY <3>2, <3>3
  <2> QED BY <2>2, <2>3
<1> QED BY <1>1, <1>4, <1>5 DEF FilesInv, NothingLost

LEMMA OpenFiles == ASSUME Typed, FilesInv, Open PROVE FilesInv'
<1>1. /\ worker.at \in {"COPY", "MOVE"}
      /\ worker.at = "MOVE" /\ dir[worker.src] # 0 => Disk[worker.src[1]] # Disk[worker.dst[1]]
  BY DEF Open
<1>2. CASE dir[worker.src] = 0
  <2>1. worker'.at = "publish" /\ UNCHANGED files
    BY <1>2 DEF Open, Failed, Tell, Idle, files
  <2> QED BY <2>1, FilesInvSame DEF Settled
<1>3. CASE dir[worker.src] # 0
  <2>1. worker.src # worker.dst
    BY <1>1, <1>3 DEF FilesInv, FilesRight
  <2>2. \A q \in Paths : q # worker.dst => dir'[q] = dir[q] /\ dir[q] # worker'.out
    BY <1>3, OpenFacts, NewInodeFacts DEF Typed, FilesOK
  <2>3. dir'[worker.dst] = worker'.out
    BY <1>3, OpenFacts DEF Typed, FilesOK
  <2>4. worker'.in # worker'.out /\ dir'[worker.src] = worker'.in
    BY <1>3, <2>1, <2>2, OpenFacts
  <2>5. data'[worker'.out] = "part" /\ \A i \in Inodes : i # worker'.out => data'[i] = data[i]
    BY <1>3, OpenFacts DEF Typed, FilesOK
  <2>6. FilesRight'
    BY <1>3, <2>1, <2>3, <2>4, <2>5, OpenFacts DEF FilesRight, Copying
  <2>7. ASSUME NEW c \in known \ agreed PROVE \E p \in Paths : dir'[p] # 0 /\ data'[dir'[p]] = c
    <3>1. PICK p \in Paths : dir[p] # 0 /\ data[dir[p]] = c
      BY DEF FilesInv, NothingLost
    <3>2. p # worker.dst
      BY <1>1, <2>1, <3>1 DEF FilesInv, FilesRight
    <3> QED BY <2>2, <2>5, <3>1, <3>2 DEF Typed, FilesOK
  <2> QED BY <1>3, <2>6, <2>7, OpenFacts DEF FilesInv, NothingLost
<1> QED BY <1>2, <1>3

LEMMA CopyFiles == ASSUME Typed, FilesInv, Copy PROVE FilesInv'
<1>1. /\ worker.at = "copying"
      /\ data' = [data EXCEPT ![worker.out] = data[worker.in]]
      /\ UNCHANGED <<dir, known, agreed>>
      /\ worker'.at = "publish" \/ worker' = [worker EXCEPT !.at = "remove"]
  BY DEF Copy, Finished, Tell, Idle
<1>2. /\ worker \in Workers /\ worker.in \in Inodes /\ worker.out \in Inodes
      /\ worker.src \in Paths /\ worker.dst \in Paths
  BY <1>1 DEF Typed, WorkerOK, Copying, Settled, Workers
<1>3. /\ worker.in # worker.out /\ worker.src # worker.dst /\ data[worker.out] = "part"
      /\ data[worker.in] \in agreed \/ dir[worker.dst] = worker.out
      /\ dir[worker.src] # 0 => dir[worker.src] = worker.in \/ data[dir[worker.src]] \in agreed
  BY <1>1 DEF FilesInv, FilesRight, Copying
<1>4. /\ data'[worker.out] = data[worker.in]
      /\ \A i \in Inodes : i # worker.out => data'[i] = data[i]
  BY <1>1, <1>2 DEF Typed, FilesOK
<1>5. ASSUME NEW c \in known \ agreed PROVE \E p \in Paths : dir'[p] # 0 /\ data'[dir'[p]] = c
  <2>1. PICK p \in Paths : dir[p] # 0 /\ data[dir[p]] = c
    BY DEF FilesInv, NothingLost
  <2>2. c # "part"
    BY NamesAssumption DEF Typed, FilesOK, Contents
  <2> QED BY <1>1, <1>3, <1>4, <2>1, <2>2 DEF Typed, FilesOK
<1>6. CASE worker'.at = "publish"
  BY <1>1, <1>5, <1>6 DEF FilesInv, FilesRight, NothingLost, Copying
<1>7. CASE worker' = [worker EXCEPT !.at = "remove"]
  <2>1. /\ worker'.at = "remove" /\ worker'.src = worker.src /\ worker'.dst = worker.dst
        /\ worker'.in = worker.in /\ worker'.out = worker.out
    BY <1>2, <1>7 DEF Workers
  <2>2. data'[worker.in] = data[worker.in]
    BY <1>2, <1>3, <1>4
  <2>3. dir[worker.src] # 0 => dir[worker.src] = worker.in \/ data'[dir[worker.src]] \in agreed
    <3>1. CASE dir[worker.src] = worker.out
      BY <1>2, <1>3, <1>4, <3>1 DEF Typed, FilesOK
    <3>2. CASE dir[worker.src] # worker.out
      BY <1>2, <1>3, <1>4, <3>2 DEF Typed, FilesOK
    <3> QED BY <3>1, <3>2
  <2>4. FilesRight'
    BY <1>1, <1>3, <1>4, <2>1, <2>2, <2>3 DEF FilesRight, Copying
  <2> QED BY <1>1, <1>5, <2>4 DEF FilesInv, NothingLost
<1> QED BY <1>1, <1>6, <1>7

LEMMA RemoveSourceFiles == ASSUME Typed, FilesInv, RemoveSource PROVE FilesInv'
<1>1. /\ worker.at = "remove" /\ dir' = [dir EXCEPT ![worker.src] = 0]
      /\ UNCHANGED <<data, known, agreed>> /\ worker'.at = "publish"
  BY DEF RemoveSource, Finished, Tell, Idle
<1>2. /\ worker.out # 0 /\ worker.src \in Paths /\ worker.dst \in Paths
  BY <1>1 DEF Typed, WorkerOK, Copying, Settled
<1>3. /\ worker.src # worker.dst /\ data[worker.out] = data[worker.in]
      /\ data[worker.in] \in agreed \/ dir[worker.dst] = worker.out
      /\ dir[worker.src] # 0 => dir[worker.src] = worker.in \/ data[dir[worker.src]] \in agreed
  BY <1>1 DEF FilesInv, FilesRight, Copying
<1>4. ASSUME NEW c \in known \ agreed PROVE \E p \in Paths : dir'[p] # 0 /\ data[dir'[p]] = c
  <2>1. PICK p \in Paths : dir[p] # 0 /\ data[dir[p]] = c
    BY DEF FilesInv, NothingLost
  <2>2. CASE p = worker.src
    BY <1>1, <1>2, <1>3, <2>1, <2>2 DEF Typed, FilesOK
  <2>3. CASE p # worker.src
    BY <1>1, <2>1, <2>3 DEF Typed, FilesOK
  <2> QED BY <2>2, <2>3
<1> QED BY <1>1, <1>4 DEF FilesInv, FilesRight, NothingLost, Copying

LEMMA DeleteFiles == ASSUME Typed, FilesInv, NEW p \in Paths, Delete(p) PROVE FilesInv'
<1>1. /\ dir[p] # 0 /\ dir' = [dir EXCEPT ![p] = 0]
      /\ agreed' = agreed \cup {data[dir[p]]}
                          \cup (IF dir[p] = worker.out THEN {data[worker.in]} ELSE {})
      /\ UNCHANGED <<worker, data, known>>
  BY DEF Delete, memory
<1>2. \A q \in Paths : q # p => dir'[q] = dir[q]
  BY <1>1 DEF Typed, FilesOK
<1>3. dir'[p] = 0
  BY <1>1 DEF Typed, FilesOK
<1>4. worker.at \in Settled => worker.src \in Paths /\ worker.dst \in Paths
  BY DEF Typed, WorkerOK, Settled
<1>5. FilesRight'
  BY <1>1, <1>2, <1>3, <1>4 DEF FilesInv, FilesRight, Copying, Settled
<1>6. NothingLost'
  BY <1>1, <1>2 DEF FilesInv, NothingLost
<1> QED BY <1>5, <1>6 DEF FilesInv

LEMMA PutFiles == ASSUME Typed, FilesInv, NEW c \in Fresh, NEW p \in Paths, Put(c, p) PROVE FilesInv'
<1>1. UNCHANGED worker
  BY DEF Put, memory
<1>2. PICK i \in Inodes :
           /\ dir[p] = 0 /\ i # 0 /\ i # worker.in /\ i # worker.out
           /\ \A q \in Paths : dir[q] # i
           /\ dir' = [dir EXCEPT ![p] = i] /\ data' = [data EXCEPT ![i] = c]
           /\ known' = known \cup {c} /\ c \notin known
           /\ agreed' = IF p \in {worker.src, worker.dst} THEN agreed \cup {c} ELSE agreed
  BY PutFacts
<1>3. /\ dir'[p] = i /\ data'[i] = c
      /\ \A q \in Paths : q # p => dir'[q] = dir[q]
      /\ \A j \in Inodes : j # i => data'[j] = data[j]
  BY <1>2 DEF Typed, FilesOK
<1>4. agreed \subseteq agreed' /\ (p \in {worker.src, worker.dst} => c \in agreed')
  BY <1>2
<1>5. \A q \in Paths : dir[q] # 0 => /\ dir'[q] = dir[q] /\ data'[dir'[q]] = data[dir[q]]
                                     /\ q # p
  BY <1>2, <1>3 DEF Typed, FilesOK
<1>6. \A a \in known' \ agreed' : \E q \in Paths : dir'[q] # 0 /\ data'[dir'[q]] = a
  BY <1>2, <1>3, <1>4, <1>5 DEF FilesInv, NothingLost
<1>7. /\ worker.at \in Settled => worker.src \in Paths /\ worker.dst \in Paths
      /\ worker.at \in Copying => /\ worker.in \in Inodes /\ worker.out \in Inodes
                                  /\ worker.out # 0
  BY DEF Typed, WorkerOK, Settled, Workers, Copying
<1>8. worker.at \in Copying => data'[worker.in] = data[worker.in] /\ data'[worker.out] = data[worker.out]
  BY <1>2, <1>3, <1>7
<1>9. worker.at \in Settled =>
        /\ dir'[worker.src] # 0 => \/ p = worker.src /\ data'[dir'[worker.src]] = c
                                   \/ /\ dir[worker.src] # 0 /\ dir'[worker.src] = dir[worker.src]
                                      /\ data'[dir'[worker.src]] = data[dir[worker.src]]
        /\ dir'[worker.dst] # 0 => \/ p = worker.dst /\ data'[dir'[worker.dst]] = c
                                   \/ /\ dir[worker.dst] # 0 /\ dir'[worker.dst] = dir[worker.dst]
                                      /\ data'[dir'[worker.dst]] = data[dir[worker.dst]]
  BY <1>3, <1>5, <1>7
<1>10. FilesRight'
  <2>1. CASE worker.at \in {"COPY", "MOVE"}
    BY <1>1, <1>4, <1>9, <2>1 DEF FilesInv, FilesRight, Copying, Settled
  <2>2. CASE worker.at \in Copying
    <3>1. data'[worker.in] \in agreed' \/ dir'[worker.dst] = worker.out
      BY <1>4, <1>5, <1>7, <1>8, <2>2 DEF FilesInv, FilesRight, Copying, Settled
    <3> QED BY <1>1, <1>4, <1>8, <1>9, <2>2, <3>1 DEF FilesInv, FilesRight, Copying, Settled
  <2>3. CASE worker.at \notin {"COPY", "MOVE"} \cup Copying
    BY <1>1, <2>3 DEF FilesRight, Copying
  <2> QED BY <2>1, <2>2, <2>3
<1> QED BY <1>6, <1>10 DEF FilesInv, NothingLost

LEMMA FilesInvStep == ASSUME Beside PROVE Typed /\ FilesInv /\ [Next]_vars => FilesInv'
<1> SUFFICES ASSUME Typed, FilesInv, [Next]_vars PROVE FilesInv'
  OBVIOUS
<1>1. CASE \E t \in Tasks : Create(t) \/ Request(t)
  <2>1. UNCHANGED <<worker, files>>
    BY <1>1 DEF Create, Request, PublishNew, Enqueue, Answer
  <2> QED BY <2>1, FilesInvSame
<1>2. CASE Take \/ Tells \/ Save \/ Totals \/ AllDone \/ CopyFails
  <2>1. UNCHANGED files
    BY <1>2 DEF Take, Tells, Save, Totals, AllDone, CopyFails
  <2>2. worker \in Workers /\ worker.then \in {"idle", "totals", "operation"}
    BY DEF Typed, WorkerOK, Workers
  <2>3. worker'.at \in {"publish", "save", "idle", "totals", "operation"}
    BY <1>2, <2>2, IdleFacts
       DEF Take, Tells, Save, Totals, AllDone, CopyFails, Failed, Tell, Idle, Workers
  <2> QED BY <2>1, <2>3, FilesInvSame DEF Settled
<1>3. CASE Settle \/ Rename \/ Open \/ Copy \/ RemoveSource
  BY <1>3, SettleFiles, RenameFiles, OpenFiles, CopyFiles, RemoveSourceFiles
<1>4. CASE Deliver \/ DeliverAnswer \/ GetTasks
  <2>1. UNCHANGED <<worker, files>>
    BY <1>4 DEF Deliver, DeliverAnswer, GetTasks, memory
  <2> QED BY <2>1, FilesInvSame
<1>5. CASE \E p \in Paths : Delete(p)
  BY <1>5, DeleteFiles
<1>6. CASE \E c \in Fresh, p \in (Names \X {0}) \cup ({worker.src, worker.dst} \cap Paths) :
               Put(c, p)
  <2>1. Names \X {0} \subseteq Paths
    BY BoundsAssumption DEF Paths
  <2> QED BY <1>6, <2>1, PutFiles
<1>7. CASE Restart
  <2>1. UNCHANGED files /\ worker'.at = "idle"
    BY <1>7, IdleFacts DEF Restart
  <2> QED BY <2>1, FilesInvSame DEF Settled
<1>8. CASE UNCHANGED vars
  BY <1>8, FilesInvSame DEF vars, memory
<1> QED BY <1>1, <1>2, <1>3, <1>4, <1>5, <1>6, <1>7, <1>8 DEF Next, Worker

(* Whatever the tasks, the failures and the files that come and go, no copy *)
(* or move loses a file, if none is told to copy one over itself.          *)
THEOREM NothingLostAlways == ASSUME Beside PROVE Spec => []NothingLost
<1>1. Typed /\ FilesInv /\ [Next]_vars => FilesInv'
  BY FilesInvStep
<1>2. FilesInv => NothingLost
  BY DEF FilesInv
<1> QED BY <1>1, <1>2, FilesInvInit, TypedAlways, PTL DEF Spec

(***************************************************************************)
(* The news arrives.                                                       *)
(***************************************************************************)
(* The order of snapshots.                                                 *)
LEMMA OrderFacts ==
  /\ \A s, u, v \in Snaps \cup {None} : AtMost(s, u) /\ AtMost(u, v) => AtMost(s, v)
  /\ \A s \in Snaps \cup {None} : AtMost(None, s) /\ (AtMost(s, None) => s = None)
<1>1. \A s \in Snaps : s # None /\ s.done \in Nat
  BY NoneAssumption DEF Snaps
<1>2. \A s \in Snaps \cup {None} : Stage(s) \in 0 .. 3 /\ (Stage(s) = 0 <=> s = None)
  BY <1>1 DEF Stage
<1>3. \A s, u, v \in Snaps \cup {None} : Earlier(s, u) /\ Earlier(u, v) => Earlier(s, v)
  <2> SUFFICES ASSUME NEW s \in Snaps \cup {None}, NEW u \in Snaps \cup {None},
                      NEW v \in Snaps \cup {None}, Earlier(s, u), Earlier(u, v)
               PROVE  Earlier(s, v)
    OBVIOUS
  <2>1. Stage(s) \in Nat /\ Stage(u) \in Nat /\ Stage(v) \in Nat
    BY <1>2
  <2>2. Stage(s) <= Stage(u) /\ Stage(u) <= Stage(v)
    BY <2>1 DEF Earlier
  <2>3. CASE Stage(s) < Stage(v)
    BY <2>3 DEF Earlier
  <2>4. CASE Stage(s) = Stage(v)
    <3>1. Stage(s) = 2 /\ Stage(u) = 2 /\ Stage(v) = 2 /\ s.done < u.done /\ u.done < v.done
      BY <2>1, <2>2, <2>4 DEF Earlier
    <3>2. s \in Snaps /\ u \in Snaps /\ v \in Snaps
      BY <1>2, <3>1
    <3>3. s.done < v.done
      BY <1>1, <3>1, <3>2
    <3> QED BY <3>1, <3>3 DEF Earlier
  <2> QED BY <2>1, <2>2, <2>3, <2>4
<1>4. \A s \in Snaps \cup {None} : AtMost(None, s) /\ (AtMost(s, None) => s = None)
  BY <1>2 DEF AtMost, Earlier
<1> QED BY <1>3, <1>4 DEF AtMost

(* The values that news has.                                               *)
LEMMA NewsTypes ==
  ASSUME Typed, NEW t \in Tasks
  PROVE  /\ stored[t] \in Snaps \cup {None} /\ Latest(t) \in Snaps \cup {None}
         /\ t \in Mine => /\ view[t] \in Snaps \cup {None}
                          /\ \A i \in DOMAIN socket : socket[i].snap \in Snaps
                          /\ \A a \in answers : t \in DOMAIN a => a[t] \in Snaps \cup {None}
<1>1. stored[t] \in Snaps \cup {None} /\ (t \in Mine => view[t] \in Snaps \cup {None})
  BY DEF Typed, NewsOK
<1>2. \A i \in DOMAIN socket : socket[i] \in Events
  BY ElementOfSeq, LenProperties DEF Typed, NewsOK
<1>3. \A i \in DOMAIN socket : socket[i].snap \in Snaps
  BY <1>2 DEF Events
<1>4. \A a \in answers : t \in DOMAIN a => a[t] \in Snaps \cup {None}
  BY DEF Typed, NewsOK
<1>5. Latest(t) \in Snaps \cup {None}
  BY SnapshotFacts DEF Latest
<1> QED BY <1>1, <1>3, <1>4, <1>5

LEMMA LatestType == ASSUME Typed' PROVE \A t \in Tasks : Latest(t)' \in Snaps \cup {None}
<1> SUFFICES ASSUME NEW t \in Tasks, Live(t)' PROVE Snapshot(t)' \in Snaps
  BY DEF Latest
<1>1. task'[t] \in TaskRecs
  BY DEF Typed, TasksOK, TaskOK
<1> QED BY <1>1 DEF TaskRecs, Snapshot, Snaps

(* What is known of a task stays behind it when it goes on.                *)
LEMMA BehindKept ==
  ASSUME Typed, Typed', NEW t \in Tasks, Behind(t), AtMost(Latest(t), Latest(t)'),
         stored'[t] = stored[t], t \in Mine => view'[t] = view[t], UNCHANGED <<socket, answers>>
  PROVE  Behind(t)'
<1>1. Latest(t)' \in Snaps \cup {None}
  BY LatestType
<1>2. \A s \in Snaps \cup {None} : AtMost(s, Latest(t)) => AtMost(s, Latest(t)')
  BY <1>1, NewsTypes, OrderFacts
<1> QED BY <1>2, NewsTypes DEF Behind, AtMost, Earlier, Stage

(* What is on its way of a task does not change when events of others are  *)
(* sent.                                                                   *)
LEMMA CurrentKept ==
  ASSUME Typed, NEW t \in Mine, Current(t), task'[t] = task[t], view'[t] = view[t],
         t \in overtaken => t \in overtaken',
         socket' = socket \/ \E e \in Events : e.task # t /\ socket' = Append(socket, e)
  PROVE  Current(t)'
<1>1. socket \in Seq(Events)
  BY DEF Typed, NewsOK
<1>2. Snapshot(t)' = Snapshot(t)
  BY DEF Snapshot
<1>3. CASE socket' = socket
  BY <1>2, <1>3 DEF Current, Last
<1>4. CASE \E e \in Events : e.task # t /\ socket' = Append(socket, e)
  <2>1. PICK e \in Events : e.task # t /\ socket' = Append(socket, e)
    BY <1>4
  <2>2. /\ DOMAIN socket = 1 .. Len(socket) /\ DOMAIN socket' = 1 .. (Len(socket) + 1)
        /\ Len(socket) \in Nat
        /\ \A i \in 1 .. Len(socket) : socket'[i] = socket[i]
        /\ socket'[Len(socket) + 1] = e
    BY <1>1, <2>1, AppendFacts
  <2>3. \A i \in DOMAIN socket' : socket'[i].task = t => i \in DOMAIN socket /\ socket[i].task = t
    <3> SUFFICES ASSUME NEW i \in DOMAIN socket', socket'[i].task = t
                 PROVE  i \in DOMAIN socket /\ socket[i].task = t
      OBVIOUS
    <3>1. i # Len(socket) + 1
      BY <2>1, <2>2
    <3> QED BY <2>2, <3>1
  <2>4. \A i \in DOMAIN socket : i \in DOMAIN socket' /\ socket'[i] = socket[i]
    BY <2>2
  <2>5. \A i \in DOMAIN socket : Last(t, i) => Last(t, i)'
    BY <2>3, <2>4 DEF Last
  <2> QED BY <1>2, <2>3, <2>4, <2>5 DEF Current
<1> QED BY <1>3, <1>4

(* Once a snapshot of a task as it is has been sent, its last news is      *)
(* current.                                                                *)
LEMMA CurrentSent ==
  ASSUME Typed, NEW t \in Mine, Snapshot(t) \in Snaps, Publish(t), task'[t] = task[t]
  PROVE  Current(t)'
<1> DEFINE e == [task |-> t, snap |-> Snapshot(t)]
<1>1. socket \in Seq(Events) /\ e \in Events /\ socket' = Append(socket, e)
  BY DEF Typed, NewsOK, Events, Publish
<1>2. e.task = t /\ e.snap = Snapshot(t)
  OBVIOUS
<1> HIDE DEF e
<1>3. PICK n \in Nat : DOMAIN socket' = 1 .. n /\ n \in 1 .. n /\ socket'[n] = e
  <2>1. /\ DOMAIN socket' = 1 .. (Len(socket) + 1) /\ Len(socket) \in Nat
        /\ socket'[Len(socket) + 1] = e
    BY <1>1, AppendFacts
  <2> QED BY <2>1
<1>4. Last(t, n)'
  BY <1>2, <1>3 DEF Last
<1>5. Snapshot(t)' = Snapshot(t)
  BY DEF Snapshot
<1>6. \E i \in DOMAIN socket' : Last(t, i)' /\ socket'[i].snap = Snapshot(t)'
  BY <1>2, <1>3, <1>4, <1>5
<1>7. \E i \in DOMAIN socket' : socket'[i].task = t
  BY <1>2, <1>3
<1> QED BY <1>6, <1>7 DEF Current

(* Steps that send, store and show nothing: tasks go on, and those of which *)
(* all has been told are as they were.                                     *)
LEMMA NewsQuiet ==
  ASSUME Typed, Typed', NewsRight, UNCHANGED <<stored, browser, news>>,
         \A t \in Tasks : create'[t] # "gone" =>
             create[t] # "gone" /\ AtMost(Latest(t), Latest(t)'),
         \A t \in Tasks : Told(t)' => Told(t) /\ task'[t] = task[t],
         \A t \in Tasks : task'[t] # None /\ Ended(task'[t]) /\ worker'.task # t =>
             task'[t] = task[t] /\ worker.task # t
  PROVE  NewsRight'
<1>1. UNCHANGED <<socket, answers, view, overtaken>>
  BY DEF browser, news
<1>2. ASSUME NEW t \in Tasks, create'[t] # "gone" PROVE Behind(t)'
  BY <1>1, <1>2, BehindKept DEF NewsRight
<1>3. ASSUME NEW t \in Mine, Told(t)' PROVE Current(t)'
  <2>1. Told(t) /\ task'[t] = task[t] /\ Current(t)
    BY <1>3, MineAssumption DEF NewsRight
  <2> QED BY <1>1, <2>1, CurrentKept
<1>4. StoredRight'
  BY DEF NewsRight, StoredRight, Snapshot
<1> QED BY <1>2, <1>3, <1>4 DEF NewsRight

(* A step that changes no task, and leaves the worker at work on its task. *)
LEMMA NewsStill ==
  ASSUME Typed, Typed', NewsRight, UNCHANGED <<task, create, stored, browser, news>>,
         worker' = worker \/ (worker'.at # "publish" /\ worker.at # "publish" /\ worker'.task = worker.task)
  PROVE  NewsRight'
<1>1. \A t \in Tasks : Latest(t)' = Latest(t)
  BY DEF Latest, Live, Snapshot
<1>2. \A t \in Tasks : Told(t)' => Told(t)
  BY DEF Told, Live
<1> QED BY <1>1, <1>2, NewsQuiet DEF AtMost

(* A worker that tells of its task has made it go on.                      *)
LEMMA TellNews ==
  ASSUME Typed, Typed', NewsRight, worker.at \notin {"idle", "publish", "save"},
         NEW s \in {"RUNNING", "DONE", "ERROR"}, NEW d \in 0 .. Len(task[Now].ops),
         NEW then \in {"idle", "operation"}, Tell(s, d, then),
         s = "RUNNING" => d >= task[Now].done,
         UNCHANGED <<create, stored, browser, news>>
  PROVE  NewsRight'
<1>1. /\ Now \in Tasks /\ Live(Now) /\ task[Now].done \in Nat /\ d \in Nat
      /\ task[Now].status = "RUNNING"
  BY NowFacts DEF Typed, WorkerOK, Now
<1>2. /\ \A t \in Tasks : t # Now => task'[t] = task[t]
      /\ task'[Now].status = s /\ task'[Now].done = d
      /\ worker'.at = "publish" /\ worker'.task = Now
  BY TellFacts
<1>3. \A t \in Tasks : Live(t)' <=> Live(t)
  BY DEF Live
<1>4. \A t \in Tasks : AtMost(Latest(t), Latest(t)')
  <2>1. ASSUME NEW t \in Tasks, t = Now PROVE AtMost(Snapshot(t), Snapshot(t)')
    <3>1. /\ Snapshot(t) \in Snaps /\ Snapshot(t) # None
          /\ Snapshot(t).status = "RUNNING" /\ Snapshot(t).done = task[Now].done
      BY <1>1, <2>1, SnapshotFacts
    <3>2. /\ Snapshot(t)' = [status |-> s, done |-> d]
          /\ Snapshot(t) = [status |-> "RUNNING", done |-> task[Now].done]
      BY <1>1, <1>2, <2>1 DEF Snapshot
    <3>3. Snapshot(t)' \in Snaps
      BY <1>1, <3>2 DEF Snaps
    <3>4. Snapshot(t)' # None
      BY <3>3, NoneAssumption
    <3>5. Snapshot(t)'.status = s /\ Snapshot(t)'.done = d
      BY <3>2
    <3>6. CASE s = "RUNNING"
      <4>1. CASE d = task[Now].done
        BY <3>2, <3>6, <4>1 DEF AtMost
      <4>2. CASE d > task[Now].done
        <5>1. Stage(Snapshot(t)) = 2 /\ Stage(Snapshot(t)') = 2
          BY <3>1, <3>4, <3>5, <3>6 DEF Stage
        <5> QED BY <3>1, <3>5, <4>2, <5>1 DEF AtMost, Earlier
      <4> QED BY <1>1, <3>6, <4>1, <4>2
    <3>7. CASE s # "RUNNING"
      <4>1. Stage(Snapshot(t)) = 2 /\ Stage(Snapshot(t)') = 3
        BY <3>1, <3>4, <3>5, <3>7 DEF Stage
      <4> QED BY <4>1 DEF AtMost, Earlier
    <3> QED BY <3>6, <3>7
  <2>2. \A t \in Tasks : t # Now => Snapshot(t)' = Snapshot(t)
    BY <1>2 DEF Snapshot
  <2> QED BY <1>3, <2>1, <2>2 DEF Latest, AtMost
<1>5. \A t \in Tasks : Told(t)' => Told(t) /\ task'[t] = task[t]
  BY <1>2, <1>3 DEF Told
<1> QED BY <1>2, <1>4, <1>5, NewsQuiet DEF Now

LEMMA CreateNews == ASSUME Typed, Typed', NewsRight, NEW t \in Tasks, Create(t) PROVE NewsRight'
<1>1. /\ create[t] = "none" /\ create' = [create EXCEPT ![t] = "publish"]
      /\ UNCHANGED <<worker, stored, browser, news>>
  BY DEF Create
<1>2. PICK c \in Choices : task' = [task EXCEPT ![t] = [type |-> c.type, ops |-> c.ops,
                                       status |-> "QUEUED", done |-> 0]]
  BY DEF Create
<1>3. create \in [Tasks -> {"none", "publish", "enqueue", "answer", "answered", "gone"}]
      /\ DOMAIN task = Tasks
  BY DEF Typed, TasksOK
<1>4. \A u \in Tasks : u # t => task'[u] = task[u] /\ create'[u] = create[u]
  BY <1>1, <1>2, <1>3
<1>5. create'[t] = "publish" /\ task'[t].status = "QUEUED"
  BY <1>1, <1>2, <1>3
<1>6. Latest(t) = None
  BY <1>1 DEF Latest, Live
<1>7. \A u \in Tasks : AtMost(Latest(u), Latest(u)')
  <2>1. \A u \in Tasks : u # t => Latest(u)' = Latest(u)
    BY <1>4 DEF Latest, Live, Snapshot
  <2>2. AtMost(None, Latest(t)')
    BY LatestType, OrderFacts
  <2> QED BY <1>6, <2>1, <2>2 DEF AtMost
<1>8. \A u \in Tasks : Told(u)' => Told(u) /\ task'[u] = task[u]
  BY <1>1, <1>4, <1>5 DEF Told, Live
<1>9. \A u \in Tasks : create'[u] # "gone" => create[u] # "gone"
  BY <1>1, <1>4
<1>10. \A u \in Tasks : task'[u] # None /\ Ended(task'[u]) /\ worker'.task # u =>
             task'[u] = task[u] /\ worker.task # u
  BY <1>1, <1>4, <1>5 DEF Ended
<1> QED BY <1>1, <1>7, <1>8, <1>9, <1>10, NewsQuiet

LEMMA EnqueueNews == ASSUME Typed, Typed', NewsRight, NEW t \in Tasks, Enqueue(t) PROVE NewsRight'
<1>1. /\ create[t] = "enqueue" /\ create' = [create EXCEPT ![t] = "answer"]
      /\ UNCHANGED <<task, worker, stored, browser, news>>
  BY DEF Enqueue
<1>2. create \in [Tasks -> {"none", "publish", "enqueue", "answer", "answered", "gone"}]
  BY DEF Typed, TasksOK
<1>3. \A u \in Tasks : /\ Live(u)' <=> Live(u)
                       /\ create'[u] = "publish" <=> create[u] = "publish"
                       /\ create'[u] = "gone" <=> create[u] = "gone"
  BY <1>1, <1>2 DEF Live
<1>4. \A u \in Tasks : Latest(u)' = Latest(u)
  BY <1>1, <1>3 DEF Latest, Snapshot
<1>5. \A u \in Tasks : Told(u)' => Told(u)
  BY <1>1, <1>3 DEF Told
<1> QED BY <1>1, <1>3, <1>4, <1>5, NewsQuiet DEF AtMost

LEMMA TakeNews == ASSUME Typed, Typed', NewsRight, Take PROVE NewsRight'
<1>0. queue # <<>> => Head(queue) \in Tasks /\ Head(queue) \in Range(queue)
  BY TailFacts DEF Typed, NewsOK
<1>t. PICK t \in Tasks : t = Head(queue) /\ t \in Range(queue)
  BY <1>0 DEF Take
<1>1. /\ worker.at = "idle"
      /\ task' = [task EXCEPT ![t] = [@ EXCEPT !.status = "RUNNING"]]
      /\ worker' = [Idle EXCEPT !.at = "publish", !.task = t, !.then = "totals"]
      /\ UNCHANGED <<create, stored, browser, news>>
  BY <1>t DEF Take
<1>2. Live(t) /\ task[t] \in TaskRecs /\ task[t].status = "QUEUED" /\ task[t].done = 0
  BY <1>t DEF Typed, TasksOK, TaskOK
<1>3. DOMAIN task = Tasks
  BY DEF Typed, TasksOK
<1>4. /\ \A u \in Tasks : u # t => task'[u] = task[u]
      /\ task'[t].status = "RUNNING" /\ task'[t].done = 0
  BY <1>1, <1>2, <1>3 DEF TaskRecs
<1>5. worker'.at = "publish" /\ worker'.task = t
  BY <1>1 DEF Idle
<1>6. \A u \in Tasks : Live(u)' <=> Live(u)
  BY <1>1 DEF Live
<1>7. \A u \in Tasks : AtMost(Latest(u), Latest(u)')
  <2>1. AtMost(Snapshot(t), Snapshot(t)')
    <3>1. /\ Snapshot(t) = [status |-> "QUEUED", done |-> 0]
          /\ Snapshot(t)' = [status |-> "RUNNING", done |-> 0]
      BY <1>2, <1>4 DEF Snapshot
    <3>2. Snapshot(t) \in Snaps /\ Snapshot(t)' \in Snaps
      BY <3>1 DEF Snaps
    <3>3. Stage(Snapshot(t)) = 1 /\ Stage(Snapshot(t)') = 2
      BY <3>1, <3>2, NoneAssumption DEF Stage
    <3> QED BY <3>3 DEF AtMost, Earlier
  <2>2. \A u \in Tasks : u # t => Snapshot(u)' = Snapshot(u)
    BY <1>4 DEF Snapshot
  <2> QED BY <1>2, <1>6, <2>1, <2>2 DEF Latest, AtMost
<1>8. \A u \in Tasks : Told(u)' => Told(u) /\ task'[u] = task[u]
  BY <1>1, <1>4, <1>5, <1>6 DEF Told
<1>9. worker = Idle
  BY <1>1 DEF Typed, WorkerOK
<1>10. \A u \in Tasks : worker.task # u
  BY <1>9, IdleFacts, NoneAssumption
<1> QED BY <1>1, <1>4, <1>5, <1>7, <1>8, <1>10, NewsQuiet

(* The steps of the worker between two news.                               *)
LEMMA WorkNews ==
  ASSUME Typed, Typed', NewsRight,
         Totals \/ AllDone \/ Settle \/ Rename \/ Open \/ Copy \/ CopyFails \/ RemoveSource
  PROVE  NewsRight'
<1>1. worker.at \in {"totals", "operation"} \cup Settled
  BY DEF Totals, AllDone, Settle, Rename, Open, Copy, CopyFails, RemoveSource, Settled
<1>2. UNCHANGED <<create, stored, browser, news>>
  BY DEF Totals, AllDone, Settle, Rename, Open, Copy, CopyFails, RemoveSource
<1>3. /\ worker.at \notin {"idle", "publish", "save"}
      /\ task[Now].done \in Nat /\ Len(task[Now].ops) \in Nat
      /\ task[Now].done <= Len(task[Now].ops)
      /\ worker \in Workers /\ task[Now].type \in {"COPY", "MOVE"}
      /\ worker.at = "totals" => task[Now].done = 0
      /\ worker.at \in Settled => task[Now].done < Len(task[Now].ops)
  BY <1>1, NowFacts DEF Typed, WorkerOK, Settled, Now
<1>4. CASE Failed \/ Tell("DONE", task[Now].done, "idle")
  BY <1>2, <1>3, <1>4, TellNews DEF Failed
<1>5. CASE Finished /\ worker.at \in Settled
  BY <1>2, <1>3, <1>5, TellNews DEF Finished
<1>6. CASE Tell("RUNNING", 0, "operation") /\ worker.at = "totals"
  BY <1>2, <1>3, <1>6, TellNews
<1>7. CASE UNCHANGED task /\ worker'.at # "publish" /\ worker'.task = worker.task
  BY <1>2, <1>3, <1>7, NewsStill
<1>8. CASE Totals \/ AllDone \/ CopyFails
  BY <1>4, <1>6, <1>8 DEF Totals, AllDone, CopyFails
<1>9. CASE Rename \/ RemoveSource
  BY <1>5, <1>9 DEF Rename, RemoveSource, Settled
<1>10. CASE Settle
  <2>1. \/ Failed
        \/ UNCHANGED task /\ worker' = [worker EXCEPT !.at = task[Now].type,
                                             !.src = <<Op.src, 0>>, !.dst = Target(Op)]
    BY <1>10 DEF Settle
  <2> QED BY <1>3, <1>4, <1>7, <2>1 DEF Workers
<1>11. CASE Open
  <2>1. CASE dir[worker.src] = 0
    BY <1>4, <1>11, <2>1 DEF Open
  <2>2. CASE dir[worker.src] # 0
    BY <1>7, <1>11, <2>2, OpenFacts
  <2> QED BY <2>1, <2>2
<1>12. CASE Copy
  <2>1. \/ Finished /\ worker.at \in Settled
        \/ UNCHANGED task /\ worker' = [worker EXCEPT !.at = "remove"]
    BY <1>12 DEF Copy, Settled
  <2> QED BY <1>3, <1>5, <1>7, <2>1 DEF Workers
<1> QED BY <1>8, <1>9, <1>10, <1>11, <1>12

(* An event about a task as it is, or nothing, is sent.                    *)
LEMMA BehindSent ==
  ASSUME Typed, NEW t \in Tasks, Live(t), Publish(t), NEW u \in Tasks, Behind(u),
         Latest(u)' = Latest(u), view' = view, answers' = answers,
         stored'[u] = stored[u] \/ (u = t /\ stored'[u] = Snapshot(t))
  PROVE  Behind(u)'
<1>1. Snapshot(t) \in Snaps /\ Latest(t) = Snapshot(t)
  BY SnapshotFacts DEF Latest
<1>2. AtMost(stored'[u], Latest(u)')
  BY <1>1 DEF Behind, AtMost
<1>3. ASSUME u \in Mine, NEW i \in DOMAIN socket', socket'[i].task = u
      PROVE  AtMost(socket'[i].snap, Latest(u)')
  <2>1. CASE t \in Mine
    <3> DEFINE e == [task |-> t, snap |-> Snapshot(t)]
    <3>1. e \in Events /\ e.task = t /\ e.snap = Snapshot(t)
      BY <1>1, <2>1 DEF Events
    <3>2. socket \in Seq(Events) /\ socket' = Append(socket, e)
      BY <2>1 DEF Typed, NewsOK, Publish
    <3> HIDE DEF e
    <3>3. /\ DOMAIN socket = 1 .. Len(socket) /\ DOMAIN socket' = 1 .. (Len(socket) + 1)
          /\ Len(socket) \in Nat
          /\ \A j \in 1 .. Len(socket) : socket'[j] = socket[j]
          /\ socket'[Len(socket) + 1] = e
      BY <3>1, <3>2, AppendFacts
    <3>4. CASE i = Len(socket) + 1
      BY <1>1, <1>3, <3>1, <3>3, <3>4 DEF AtMost
    <3>5. CASE i # Len(socket) + 1
      BY <1>3, <3>3, <3>5 DEF Behind
    <3> QED BY <3>4, <3>5
  <2>2. CASE t \notin Mine
    BY <1>3, <2>2 DEF Publish, Behind
  <2> QED BY <2>1, <2>2
<1> QED BY <1>2, <1>3 DEF Behind

LEMMA CurrentOther ==
  ASSUME Typed, NEW t \in Tasks, Snapshot(t) \in Snaps, Publish(t), NEW u \in Mine, u # t, Current(u),
         UNCHANGED <<task, view, overtaken>>
  PROVE  Current(u)'
<1>1. t \in Mine => [task |-> t, snap |-> Snapshot(t)] \in Events
  BY DEF Events
<1>2. socket' = socket \/ \E e \in Events : e.task # u /\ socket' = Append(socket, e)
  BY <1>1 DEF Publish
<1> QED BY <1>2, CurrentKept

LEMMA PublishNewNews ==
  ASSUME Typed, NewsRight, NEW t \in Tasks, PublishNew(t) PROVE NewsRight'
<1>1. /\ create[t] = "publish" /\ create' = [create EXCEPT ![t] = "enqueue"] /\ Publish(t)
      /\ stored' = [stored EXCEPT ![t] = Snapshot(t)]
      /\ UNCHANGED <<task, worker, answers, loaded, view, overtaken>>
  BY DEF PublishNew, browser
<1>2. create \in [Tasks -> {"none", "publish", "enqueue", "answer", "answered", "gone"}]
      /\ stored \in [Tasks -> Snaps \cup {None}]
  BY DEF Typed, TasksOK, NewsOK
<1>3. /\ \A u \in Tasks : u # t => create'[u] = create[u] /\ stored'[u] = stored[u]
      /\ create'[t] = "enqueue" /\ stored'[t] = Snapshot(t)
  BY <1>1, <1>2
<1>4. \A u \in Tasks : Live(u)' <=> Live(u)
  BY <1>1, <1>3 DEF Live
<1>5. \A u \in Tasks : Latest(u)' = Latest(u)
  BY <1>1, <1>4 DEF Latest, Snapshot
<1>6. Live(t) /\ Snapshot(t) \in Snaps /\ task[t].status = "QUEUED"
  BY <1>1, SnapshotFacts DEF Live, Entering, Typed, TasksOK
<1>7. ASSUME NEW u \in Tasks, create'[u] # "gone" PROVE Behind(u)'
  <2>1. Behind(u)
    BY <1>1, <1>3, <1>7 DEF NewsRight
  <2> QED BY <1>1, <1>3, <1>5, <1>6, <2>1, BehindSent
<1>8. ASSUME NEW u \in Mine, Told(u)' PROVE Current(u)'
  <2>1. CASE u = t
    BY <1>1, <1>6, <2>1, CurrentSent
  <2>2. CASE u # t
    <3>1. Told(u) /\ Current(u)
      BY <1>1, <1>3, <1>4, <1>8, <2>2, MineAssumption DEF Told, NewsRight
    <3> QED BY <1>1, <1>6, <2>2, <3>1, CurrentOther
  <2> QED BY <2>1, <2>2
<1>9. StoredRight'
  <2> SUFFICES ASSUME NEW u \in Tasks, task[u] # None, Ended(task[u]), worker.task # u
               PROVE  stored'[u] = Snapshot(u)'
    BY <1>1 DEF StoredRight
  <2>1. u # t
    BY <1>6 DEF Ended
  <2> QED BY <1>1, <1>3, <2>1 DEF NewsRight, StoredRight, Snapshot
<1> QED BY <1>7, <1>8, <1>9 DEF NewsRight

LEMMA TellsNews == ASSUME Typed, NewsRight, Tells PROVE NewsRight'
<1>1. /\ worker.at = "publish" /\ Publish(Now) /\ worker' = [worker EXCEPT !.at = "save"]
      /\ UNCHANGED <<task, create, stored, answers, loaded, view, overtaken>>
  BY DEF Tells, browser
<1>2. Now \in Tasks /\ Live(Now) /\ Snapshot(Now) \in Snaps
  BY <1>1, NowFacts, SnapshotFacts
<1>3. worker'.at = "save" /\ worker'.task = worker.task
  BY <1>1 DEF Typed, WorkerOK, Workers
<1>4. \A u \in Tasks : Latest(u)' = Latest(u)
  BY <1>1 DEF Latest, Snapshot, Live
<1>5. ASSUME NEW u \in Tasks, create'[u] # "gone" PROVE Behind(u)'
  <2>1. Behind(u)
    BY <1>1, <1>5 DEF NewsRight
  <2> QED BY <1>1, <1>2, <1>4, <2>1, BehindSent
<1>6. ASSUME NEW u \in Mine, Told(u)' PROVE Current(u)'
  <2>1. CASE u = Now
    <3>1. Publish(u) /\ Snapshot(u) \in Snaps
      BY <1>1, <1>2, <2>1
    <3> QED BY <1>1, <3>1, CurrentSent
  <2>2. CASE u # Now
    <3>1. Told(u) /\ Current(u)
      BY <1>1, <1>6, <2>2, MineAssumption DEF Told, NewsRight, Live, Now
    <3> QED BY <1>1, <1>2, <2>2, <3>1, CurrentOther
  <2> QED BY <2>1, <2>2
<1>7. StoredRight'
  BY <1>1, <1>3 DEF NewsRight, StoredRight, Snapshot
<1> QED BY <1>5, <1>6, <1>7 DEF NewsRight

LEMMA SaveNews == ASSUME Typed, NewsRight, Save PROVE NewsRight'
<1>1. /\ worker.at = "save"
      /\ worker' = IF worker.then = "idle" THEN Idle ELSE [worker EXCEPT !.at = worker.then]
      /\ UNCHANGED <<task, create, socket, answers, loaded, view, overtaken>>
  BY DEF Save, browser, news
<1>2. PICK keep \in BOOLEAN :
          /\ MayStore(keep)
          /\ stored' = IF keep THEN [stored EXCEPT ![Now] = Snapshot(Now)] ELSE stored
  BY DEF Save
<1>3. /\ Now \in Tasks /\ Live(Now) /\ Snapshot(Now) \in Snaps
      /\ worker \in Workers /\ worker.then \in {"idle", "totals", "operation"}
      /\ worker.then = "idle" <=> Ended(task[Now])
      /\ stored \in [Tasks -> Snaps \cup {None}]
  BY <1>1, NowFacts, SnapshotFacts DEF Typed, WorkerOK, Workers, NewsOK, Now
<1>4. \A u \in Tasks : stored'[u] = stored[u] \/ (u = Now /\ stored'[u] = Snapshot(Now))
  BY <1>2, <1>3
<1>5. Ended(task[Now]) => stored'[Now] = Snapshot(Now)
  BY <1>2, <1>3 DEF MayStore
<1>6. \A u \in Tasks : Latest(u)' = Latest(u) /\ Snapshot(u)' = Snapshot(u)
  BY <1>1 DEF Latest, Snapshot, Live
<1>7. worker'.at # "publish"
  BY <1>1, <1>3, IdleFacts DEF Workers
<1>8. Latest(Now) = Snapshot(Now)
  BY <1>3 DEF Latest
<1>9. ASSUME NEW u \in Tasks, create'[u] # "gone" PROVE Behind(u)'
  <2>1. Behind(u)
    BY <1>1, <1>9 DEF NewsRight
  <2>2. AtMost(stored'[u], Latest(u)')
    BY <1>4, <1>6, <1>8, <2>1 DEF Behind, AtMost
  <2> QED BY <1>1, <1>6, <2>1, <2>2 DEF Behind
<1>10. ASSUME NEW u \in Mine, Told(u)' PROVE Current(u)'
  <2>1. Told(u) /\ Current(u)
    BY <1>1, <1>10, MineAssumption DEF Told, NewsRight, Live
  <2> QED BY <1>1, <2>1, CurrentKept
<1>11. StoredRight'
  <2> SUFFICES ASSUME NEW u \in Tasks, task[u] # None, Ended(task[u]), worker'.task # u
               PROVE  stored'[u] = Snapshot(u)
    BY <1>1, <1>6 DEF StoredRight
  <2>1. CASE u = Now
    BY <1>5, <2>1
  <2>2. CASE u # Now
    BY <1>4, <2>2 DEF NewsRight, StoredRight, Now
  <2> QED BY <2>1, <2>2
<1> QED BY <1>9, <1>10, <1>11 DEF NewsRight

(* Answers on their way change nothing but what is behind.                 *)
LEMMA AnswerNews == ASSUME Typed, NewsRight, NEW t \in Tasks, Answer(t) PROVE NewsRight'
<1>1. /\ create[t] = "answer" /\ create' = [create EXCEPT ![t] = "answered"]
      /\ answers' = answers \cup {[v \in {u} |-> Snapshot(v)] : u \in Mine \cap {t}}
      /\ UNCHANGED <<task, worker, stored, view, socket, overtaken>>
  BY DEF Answer, news
<1>2. create \in [Tasks -> {"none", "publish", "enqueue", "answer", "answered", "gone"}]
  BY DEF Typed, TasksOK
<1>3. \A u \in Tasks : /\ Live(u)' <=> Live(u)
                       /\ create'[u] = "publish" <=> create[u] = "publish"
                       /\ create'[u] = "gone" <=> create[u] = "gone"
  BY <1>1, <1>2 DEF Live
<1>4. \A u \in Tasks : Latest(u)' = Latest(u)
  BY <1>1, <1>3 DEF Latest, Snapshot
<1>5. Latest(t) = Snapshot(t)
  BY <1>1 DEF Latest, Live
<1>6. ASSUME NEW u \in Tasks, create'[u] # "gone" PROVE Behind(u)'
  <2>1. Behind(u)
    BY <1>3, <1>6 DEF NewsRight
  <2>2. ASSUME u \in Mine, NEW a \in answers', u \in DOMAIN a PROVE AtMost(a[u], Latest(u)')
    <3>1. CASE a \in answers
      BY <1>4, <2>1, <2>2, <3>1 DEF Behind
    <3>2. CASE a = [v \in {t} |-> Snapshot(v)]
      BY <1>4, <1>5, <2>2, <3>2 DEF AtMost
    <3> QED BY <1>1, <3>1, <3>2
  <2> QED BY <1>1, <1>4, <2>1, <2>2 DEF Behind
<1>7. ASSUME NEW u \in Mine, Told(u)' PROVE Current(u)'
  <2>1. Told(u) /\ Current(u)
    BY <1>1, <1>3, <1>7, MineAssumption DEF Told, NewsRight
  <2> QED BY <1>1, <2>1, CurrentKept
<1>8. StoredRight'
  BY <1>1 DEF NewsRight, StoredRight, Snapshot
<1> QED BY <1>6, <1>7, <1>8 DEF NewsRight

LEMMA GetTasksNews == ASSUME Typed, NewsRight, GetTasks PROVE NewsRight'
<1> DEFINE l == [t \in Mine |-> IF task[t] = None THEN stored[t] ELSE Snapshot(t)]
<1>1. /\ answers' = answers \cup {l}
      /\ UNCHANGED <<task, create, worker, stored, view, socket, overtaken>>
  BY DEF GetTasks, memory, news
<1>2. \A u \in Tasks : Latest(u)' = Latest(u)
  BY <1>1 DEF Latest, Snapshot, Live
<1>3. ASSUME NEW u \in Mine PROVE l[u] = stored[u] \/ l[u] = Latest(u)
  <2>1. u \in Tasks /\ (Live(u) \/ task[u] = None)
    BY ListFacts, MineAssumption
  <2> QED BY <2>1 DEF Latest
<1> HIDE DEF l
<1>4. ASSUME NEW u \in Tasks, create'[u] # "gone" PROVE Behind(u)'
  <2>1. Behind(u)
    BY <1>1, <1>4 DEF NewsRight
  <2>2. ASSUME u \in Mine, NEW a \in answers', u \in DOMAIN a PROVE AtMost(a[u], Latest(u)')
    <3>1. CASE a \in answers
      BY <1>2, <2>1, <2>2, <3>1 DEF Behind
    <3>2. CASE a = l
      BY <1>2, <1>3, <2>1, <2>2, <3>2 DEF Behind, AtMost
    <3> QED BY <1>1, <3>1, <3>2
  <2> QED BY <1>1, <1>2, <2>1, <2>2 DEF Behind
<1>5. ASSUME NEW u \in Mine, Told(u)' PROVE Current(u)'
  <2>1. Told(u) /\ Current(u)
    BY <1>1, <1>5, MineAssumption DEF Told, NewsRight, Live
  <2> QED BY <1>1, <2>1, CurrentKept
<1>6. StoredRight'
  BY <1>1 DEF NewsRight, StoredRight, Snapshot
<1> QED BY <1>4, <1>5, <1>6 DEF NewsRight

LEMMA DeliverNews == ASSUME Typed, NewsRight, Deliver PROVE NewsRight'
<1> DEFINE e == socket[1]
<1>1. /\ socket # <<>> /\ socket' = Tail(socket)
      /\ view' = [view EXCEPT ![Head(socket).task] = Head(socket).snap]
      /\ overtaken' = overtaken \ {Head(socket).task}
      /\ UNCHANGED <<task, create, worker, stored, answers>>
  BY DEF Deliver, memory
<1>2. /\ Head(socket) = e /\ e \in Events
      /\ DOMAIN socket = 1 .. Len(socket) /\ Len(socket) \in Nat \ {0}
      /\ DOMAIN socket' = 1 .. (Len(socket) - 1)
      /\ \A i \in 1 .. (Len(socket) - 1) : socket'[i] = socket[i + 1]
  BY <1>1, TailFacts DEF Typed, NewsOK
<1>3. e.task \in Mine /\ e.snap \in Snaps /\ 1 \in DOMAIN socket
  BY <1>2 DEF Events
<1>4. /\ view'[e.task] = e.snap /\ e.task \notin overtaken'
      /\ \A t \in Mine : t # e.task => /\ view'[t] = view[t]
                                       /\ t \in overtaken' <=> t \in overtaken
  BY <1>1, <1>2, <1>3 DEF Typed, NewsOK
<1>5. \A u \in Tasks : Latest(u)' = Latest(u) /\ Snapshot(u)' = Snapshot(u)
  BY <1>1 DEF Latest, Snapshot, Live
<1>6. \A i \in DOMAIN socket' : i + 1 \in DOMAIN socket /\ socket'[i] = socket[i + 1]
  BY <1>2
<1>7. \A i \in DOMAIN socket : i # 1 => i - 1 \in DOMAIN socket' /\ socket'[i - 1] = socket[i]
  BY <1>2
<1>8. ASSUME NEW u \in Tasks, create'[u] # "gone" PROVE Behind(u)'
  <2>1. Behind(u)
    BY <1>1, <1>8 DEF NewsRight
  <2>2. u \in Mine => AtMost(view'[u], Latest(u)')
    BY <1>3, <1>4, <1>5, <2>1 DEF Behind
  <2>3. u \in Mine => \A i \in DOMAIN socket' :
            socket'[i].task = u => AtMost(socket'[i].snap, Latest(u)')
    BY <1>5, <1>6, <2>1 DEF Behind
  <2> QED BY <1>1, <1>5, <2>1, <2>2, <2>3 DEF Behind
<1>9. ASSUME NEW u \in Mine, Told(u)' PROVE Current(u)'
  <2>1. u \in Tasks /\ Current(u)
    BY <1>1, <1>9, MineAssumption DEF Told, NewsRight, Live
  <2>2. CASE \E i \in DOMAIN socket' : socket'[i].task = u
    <3>1. PICK k \in DOMAIN socket' : socket'[k].task = u
      BY <2>2
    <3>2. k + 1 \in DOMAIN socket /\ socket[k + 1].task = u /\ k + 1 > 1
      BY <1>2, <1>6, <3>1
    <3>3. PICK i \in DOMAIN socket : Last(u, i) /\ socket[i].snap = Snapshot(u)
      BY <2>1, <3>2 DEF Current
    <3>4. i # 1
      BY <3>2, <3>3 DEF Last
    <3>5. i - 1 \in DOMAIN socket' /\ socket'[i - 1] = socket[i]
      BY <1>7, <3>4
    <3>6. PICK n \in DOMAIN socket' : n = i - 1
      BY <3>5
    <3>7. socket'[n].task = u /\ socket'[n].snap = Snapshot(u)'
      BY <1>5, <2>1, <3>3, <3>5, <3>6 DEF Last
    <3>8. \A j \in DOMAIN socket' : j > n => socket'[j].task # u
      <4> SUFFICES ASSUME NEW j \in DOMAIN socket', j > n PROVE socket[j + 1].task # u
        BY <1>6
      <4>1. j + 1 \in DOMAIN socket /\ j + 1 > i
        BY <1>2, <3>6
      <4> QED BY <3>3, <4>1 DEF Last
    <3>9. Last(u, n)'
      BY <3>7, <3>8 DEF Last
    <3> QED BY <2>2, <3>7, <3>9 DEF Current
  <2>3. CASE ~\E i \in DOMAIN socket' : socket'[i].task = u
    <3>1. CASE u = e.task
      <4>1. PICK i \in DOMAIN socket : Last(u, i) /\ socket[i].snap = Snapshot(u)
        BY <1>3, <2>1, <3>1 DEF Current
      <4>2. i = 1
        BY <1>7, <2>3, <4>1 DEF Last
      <4> QED BY <1>4, <1>5, <2>1, <2>3, <3>1, <4>1, <4>2 DEF Current
    <3>2. CASE u # e.task
      <4>1. ~\E i \in DOMAIN socket : socket[i].task = u
        <5> SUFFICES ASSUME NEW i \in DOMAIN socket, socket[i].task = u PROVE FALSE
          OBVIOUS
        <5>1. i # 1
          BY <3>2
        <5> QED BY <1>7, <2>3, <5>1
      <4>2. u \in overtaken \/ view[u] = Snapshot(u)
        BY <2>1, <4>1 DEF Current
      <4> QED BY <1>4, <1>5, <2>1, <2>3, <3>2, <4>2 DEF Current
    <3> QED BY <3>1, <3>2
  <2> QED BY <2>2, <2>3
<1>10. StoredRight'
  BY <1>1 DEF NewsRight, StoredRight, Snapshot
<1> QED BY <1>8, <1>9, <1>10 DEF NewsRight

LEMMA DeliverAnswerNews == ASSUME Typed, NewsRight, DeliverAnswer PROVE NewsRight'
<1>1. UNCHANGED <<task, create, worker, stored, socket>>
  BY DEF DeliverAnswer, memory
<1>2. PICK a \in answers :
          /\ view' = [t \in Mine |-> IF t \in DOMAIN a THEN a[t] ELSE view[t]]
          /\ overtaken' = overtaken \cup Older(a)
          /\ answers' = answers \ {a}
  BY DEF DeliverAnswer
<1>3. \A u \in Tasks : Latest(u)' = Latest(u) /\ Snapshot(u)' = Snapshot(u)
  BY <1>1 DEF Latest, Snapshot, Live
<1>4. ASSUME NEW u \in Tasks, create'[u] # "gone" PROVE Behind(u)'
  <2>1. Behind(u)
    BY <1>1, <1>4 DEF NewsRight
  <2>2. u \in Mine => AtMost(view'[u], Latest(u)')
    BY <1>2, <1>3, <2>1 DEF Behind
  <2> QED BY <1>1, <1>2, <1>3, <2>1, <2>2 DEF Behind
<1>5. ASSUME NEW u \in Mine, Told(u)' PROVE Current(u)'
  <2>1. u \in Tasks /\ Told(u) /\ Current(u)
    BY <1>1, <1>5, MineAssumption DEF Told, NewsRight, Live
  <2>2. CASE \E i \in DOMAIN socket : socket[i].task = u
    BY <1>1, <1>3, <2>1, <2>2 DEF Current, Last
  <2>3. CASE ~\E i \in DOMAIN socket : socket[i].task = u
    <3>1. u \in overtaken \/ view[u] = Snapshot(u)
      BY <2>1, <2>3 DEF Current
    <3>2. CASE u \in overtaken
      BY <1>1, <1>2, <2>3, <3>2 DEF Current
    <3>3. CASE u \notin DOMAIN a /\ view[u] = Snapshot(u)
      BY <1>1, <1>2, <1>3, <2>1, <2>3, <3>3 DEF Current
    <3>4. CASE u \in DOMAIN a /\ view[u] = Snapshot(u)
      <4>1. Behind(u) /\ Latest(u) = Snapshot(u)
        BY <2>1 DEF Told, Live, NewsRight, Latest
      <4>2. a[u] = Snapshot(u) \/ Earlier(a[u], view[u])
        BY <3>4, <4>1 DEF Behind, AtMost
      <4>3. u \in overtaken' \/ view'[u] = Snapshot(u)
        BY <1>2, <3>4, <4>2 DEF Older
      <4> QED BY <1>1, <1>3, <2>1, <2>3, <4>3 DEF Current
    <3> QED BY <3>1, <3>2, <3>3, <3>4
  <2> QED BY <2>2, <2>3
<1>6. StoredRight'
  BY <1>1 DEF NewsRight, StoredRight, Snapshot
<1> QED BY <1>4, <1>5, <1>6 DEF NewsRight

LEMMA RestartNews == ASSUME Typed, NewsRight, Restart PROVE NewsRight'
<1>1. /\ task' = [t \in Tasks |-> None]
      /\ create' = [t \in Tasks |-> IF create[t] = "none" THEN "none" ELSE "gone"]
      /\ socket' = <<>> /\ answers' = {} /\ UNCHANGED <<stored, view>>
  BY DEF Restart
<1>2. \A u \in Tasks : ~Live(u)'
  BY <1>1 DEF Live
<1>3. ASSUME NEW u \in Tasks, create'[u] # "gone" PROVE Behind(u)'
  <2>1. create[u] = "none" /\ Behind(u)
    BY <1>1, <1>3 DEF NewsRight
  <2>2. Latest(u) = None /\ Latest(u)' = None
    BY <1>2, <2>1 DEF Latest, Live
  <2> QED BY <1>1, <2>1, <2>2 DEF Behind
<1>4. StoredRight'
  BY <1>1 DEF StoredRight
<1> QED BY <1>2, <1>3, <1>4, MineAssumption DEF NewsRight, Told

LEMMA NewsRightInit == Init => NewsRight
<1> SUFFICES ASSUME Init PROVE NewsRight
  OBVIOUS
<1>1. /\ task = [t \in Tasks |-> None] /\ create = [t \in Tasks |-> "none"]
      /\ stored = [t \in Tasks |-> None] /\ view = [t \in Mine |-> None]
      /\ socket = <<>> /\ answers = {}
  BY DEF Init
<1>2. \A t \in Tasks : ~Live(t) /\ Latest(t) = None
  BY <1>1 DEF Live, Latest
<1>3. \A t \in Tasks : Behind(t)
  BY <1>1, <1>2 DEF Behind, AtMost
<1> QED BY <1>1, <1>2, <1>3, MineAssumption DEF NewsRight, Told, StoredRight

LEMMA NewsRightStep == Typed /\ Typed' /\ NewsRight /\ [Next]_vars => NewsRight'
<1> SUFFICES ASSUME Typed, Typed', NewsRight, [Next]_vars PROVE NewsRight'
  OBVIOUS
<1>1. CASE \E t \in Tasks : Create(t) \/ Request(t)
  BY <1>1, CreateNews, PublishNewNews, EnqueueNews, AnswerNews DEF Request
<1>2. CASE Worker
  BY <1>2, TakeNews, TellsNews, SaveNews, WorkNews DEF Worker
<1>3. CASE Deliver \/ DeliverAnswer \/ GetTasks
  BY <1>3, DeliverNews, DeliverAnswerNews, GetTasksNews
<1>4. CASE (\E p \in Paths : Delete(p)) \/ (\E c \in Fresh, p \in Paths : Put(c, p))
  <2>1. UNCHANGED <<task, create, worker, stored, browser, news>>
    BY <1>4 DEF Delete, Put, memory
  <2> QED BY <2>1, NewsStill
<1>5. CASE \E c \in Fresh, p \in (Names \X {0}) \cup ({worker.src, worker.dst} \cap Paths) :
               Put(c, p)
  <2>1. Names \X {0} \subseteq Paths
    BY BoundsAssumption DEF Paths
  <2> QED BY <1>4, <1>5, <2>1
<1>6. CASE Restart
  BY <1>6, RestartNews
<1>7. CASE UNCHANGED vars
  BY <1>7, NewsStill DEF vars, memory
<1> QED BY <1>1, <1>2, <1>3, <1>4, <1>5, <1>6, <1>7 DEF Next

(* The end of a task is what is stored of it, and the browser shows what   *)
(* it is, unless a late answer was put over it, whatever the requests, the *)
(* worker, the answers and the restarts do in between.                     *)
THEOREM NewsArrivesAlways == Spec => []NewsArrives
<1>1. Typed /\ NewsRight => NewsArrives
  <2> SUFFICES ASSUME Typed, NewsRight PROVE ViewRight
    BY DEF NewsArrives, NewsRight
  <2> SUFFICES ASSUME socket = <<>>, worker = Idle, NEW t \in Mine, t \notin overtaken,
                      task[t] # None, create[t] # "publish"
               PROVE  view[t] = Snapshot(t)
    BY DEF ViewRight
  <2>1. t \in Tasks /\ Live(t)
    BY MineAssumption DEF Typed, TasksOK
  <2>2. Current(t)
    BY <2>1, IdleFacts DEF NewsRight, Told
  <2>3. DOMAIN socket = {}
    OBVIOUS
  <2> QED BY <2>2, <2>3 DEF Current
<1>2. Typed /\ Typed' /\ NewsRight /\ [Next]_vars => NewsRight'
  BY NewsRightStep
<1> QED BY <1>1, <1>2, NewsRightInit, TypedAlways, PTL DEF Spec
=============================================================================
