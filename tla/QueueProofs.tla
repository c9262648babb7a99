----------------------------- MODULE QueueProofs -----------------------------
(***************************************************************************)
(* Two queues, for every value of their constants.                         *)
(*                                                                         *)
(* CliQueue: its type, the way of each job, and that it implements Calls.  *)
(* Uploads: its type, that old files are kept, and that an upload that is  *)
(* done is whole; the invariants are in UploadsInv.                        *)
(***************************************************************************)
EXTENDS CliQueueInv, UploadsInv, FiniteSetTheorems, SequenceTheorems, TLAPS

(***************************************************************************)
(* The queue for command line tools.                                       *)
(***************************************************************************)

(* Taking the first of distinct jobs leaves the others.                    *)
LEMMA TailElems ==
  ASSUME NEW s \in Seq(Jobs), s # << >>
  PROVE  /\ Head(s) \in Jobs /\ Tail(s) \in Seq(Jobs)
         /\ Len(s) \in Nat \ {0} /\ Len(Tail(s)) = Len(s) - 1
         /\ \A i \in 1..Len(Tail(s)) : Tail(s)[i] = s[i + 1]
         /\ Head(s) = s[1] /\ Head(s) \in Elems(s)
         /\ Elems(Tail(s)) \subseteq Elems(s)
         /\ Distinct(s) => Distinct(Tail(s)) /\ Head(s) \notin Elems(Tail(s))
         /\ Elems(s) \subseteq Elems(Tail(s)) \cup {Head(s)}
<1>1. /\ Head(s) \in Jobs /\ Tail(s) \in Seq(Jobs)
      /\ Len(s) \in Nat \ {0} /\ Len(Tail(s)) = Len(s) - 1
      /\ \A i \in 1..Len(Tail(s)) : Tail(s)[i] = s[i + 1]
  BY HeadTailProperties, EmptySeq, LenProperties
<1>2. Head(s) = s[1] /\ Head(s) \in Elems(s)
  BY <1>1 DEF Elems
<1>3. Elems(Tail(s)) \subseteq Elems(s)
  BY <1>1 DEF Elems
<1>4. ASSUME Distinct(s) PROVE Distinct(Tail(s)) /\ Head(s) \notin Elems(Tail(s))
  BY <1>1, <1>2, <1>4 DEF Elems, Distinct
<1>5. ASSUME NEW i \in 1..Len(s) PROVE s[i] \in Elems(Tail(s)) \cup {Head(s)}
  <2>1. CASE i = 1
    BY <1>2, <2>1
  <2>2. CASE i # 1
    <3>1. i - 1 \in 1..Len(Tail(s)) /\ Tail(s)[i - 1] = s[i]
      BY <1>1, <1>5, <2>2
    <3> QED  BY <3>1 DEF Elems
  <2> QED  BY <2>1, <2>2
<1> QED  BY <1>1, <1>2, <1>3, <1>4, <1>5 DEF Elems

(* Appending adds one job.                                                 *)
LEMMA AppendElems ==
  ASSUME NEW s \in Seq(Jobs), NEW e \in Jobs
  PROVE  /\ Append(s, e) \in Seq(Jobs)
         /\ Len(s) \in Nat /\ Len(Append(s, e)) = Len(s) + 1
         /\ Elems(Append(s, e)) = Elems(s) \cup {e}
         /\ Distinct(s) /\ e \notin Elems(s) => Distinct(Append(s, e))
<1> DEFINE t == Append(s, e)
<1>1. /\ t \in Seq(Jobs) /\ Len(s) \in Nat /\ Len(t) = Len(s) + 1
      /\ \A i \in 1..Len(s) : t[i] = s[i]
      /\ t[Len(s) + 1] = e
  BY AppendProperties, LenProperties
<1> HIDE DEF t
<1>2. 1..Len(t) = (1..Len(s)) \cup {Len(s) + 1}
  BY <1>1
<1>3. Elems(t) = Elems(s) \cup {e}
  BY <1>1, <1>2 DEF Elems
<1>4. ASSUME Distinct(s), e \notin Elems(s) PROVE Distinct(t)
  BY <1>1, <1>2, <1>4 DEF Elems, Distinct
<1> QED  BY <1>1, <1>3, <1>4 DEF t

(* No job and one job.                                                     *)
LEMMA ShortElems ==
  /\ << >> \in Seq(Jobs) /\ Elems(<< >>) = {} /\ Distinct(<< >>)
  /\ \A e \in Jobs : /\ <<e>> \in Seq(Jobs) /\ Len(<<e>>) = 1
                     /\ Elems(<<e>>) = {e} /\ Distinct(<<e>>)
BY DEF Elems, Distinct

(* The queue's capacity is a number, whatever New was given.               *)
LEMMA QueueSizeIsNat == QueueSize \in Nat
<1>1. Cardinality(Workers) \in Nat
  BY WorkersAssumption, FS_CardinalityType
<1>2. Round \in Nat
  BY <1>1, SizesAssumption DEF Round
<1> QED  BY <1>2, SizesAssumption DEF QueueSize

(* The answers to a job are outcomes.                                      *)
LEMMA AnswersAreOutcomes == \A j \in Jobs : C!Answers(j) \subseteq Outcomes
BY DEF C!Answers, Outcomes

(* Sequences with the same indices are equally long.                       *)
LEMMA SameBounds ==
  ASSUME NEW m \in Nat, NEW n \in Nat, 1..m = 1..n
  PROVE  m = n
<1>1. m <= n
  <2>1. CASE m = 0
    BY <2>1
  <2>2. CASE m # 0
    <3>1. m \in 1..m
      BY <2>2
    <3> QED  BY <3>1
  <2> QED  BY <2>1, <2>2
<1>2. n <= m
  <2>1. CASE n = 0
    BY <2>1
  <2>2. CASE n # 0
    <3>1. n \in 1..n
      BY <2>2
    <3> QED  BY <3>1
  <2> QED  BY <2>1, <2>2
<1> QED  BY <1>1, <1>2

(* Whatever the batch function does, there is a result for each job.       *)
LEMMA RunResults ==
  ASSUME NEW s \in Seq(Jobs),
         NEW r \in {Succeeded(s), Failed(s, "panicked"), Failed(s, "wrong length")}
  PROVE  /\ r \in Seq(Outcomes)
         /\ Len(r) = Len(s)
         /\ \A i \in 1..Len(s) : r[i] \in C!Answers(s[i])
<1>1. Len(s) \in Nat /\ \A i \in 1..Len(s) : s[i] \in Jobs
  BY LenProperties, ElementOfSeq
<1>2. /\ DOMAIN r = 1..Len(s)
      /\ \A i \in 1..Len(s) : r[i] \in C!Answers(s[i])
      /\ r = [i \in 1..Len(s) |-> r[i]]
  BY DEF Succeeded, Failed, C!Answers, C!BatchErrors
<1>3. \A i \in 1..Len(s) : r[i] \in Outcomes
  BY <1>1, <1>2, AnswersAreOutcomes
<1>4. r \in Seq(Outcomes)
  <2>1. r \in [1..Len(s) -> Outcomes]
    BY <1>2, <1>3, Zenon
  <2>2. [1..Len(s) -> Outcomes] \in {[1..n -> Outcomes] : n \in Nat}
    BY <1>1, Zenon
  <2>3. r \in UNION {[1..n -> Outcomes] : n \in Nat}
    BY <2>1, <2>2, Zenon
  <2> QED  BY <2>3, SeqDef, Zenon
<1>5. Len(r) = Len(s)
  <2>1. Len(r) \in Nat /\ DOMAIN r = 1..Len(r)
    BY <1>4, LenProperties
  <2>2. 1..Len(r) = 1..Len(s)
    BY <1>2, <2>1
  <2> HIDE <1>2, <1>3
  <2> QED  BY <1>1, <2>1, <2>2, SameBounds
<1> QED  BY <1>2, <1>4, <1>5

(* Nothing is queued, collected or answered at the start.                  *)
LEMMA TypeInit == Init => TypeOK
<1>1. 0 <= QueueSize /\ 0 <= BatchSize
  BY QueueSizeIsNat, SizesAssumption
<1>2. << >> \in Seq(Outcomes) /\ << >> \in Seq(Jobs) /\ Len(<< >>) = 0
  OBVIOUS
<1> QED  BY <1>1, <1>2 DEF Init, TypeOK

(* Each step of a caller keeps the type.                                   *)
LEMMA CallerTyped ==
  ASSUME TypeOK, NEW j \in Jobs,
         Submit(j) \/ Caller(j) \/ Expire(j)
  PROVE  TypeOK'
<1> USE DEF TypeOK, calls, workers
<1>1. CASE Submit(j)
  BY <1>1 DEF Submit
<1>2. CASE Enqueue(j)
  <2>1. Append(jobs, j) \in Seq(Jobs) /\ Len(Append(jobs, j)) <= QueueSize
    BY <1>2, AppendElems, QueueSizeIsNat DEF Enqueue
  <2> QED  BY <1>2, <2>1 DEF Enqueue
<1>3. CASE Receive(j)
  BY <1>3 DEF Receive
<1>4. CASE GiveUp(j)
  BY <1>4 DEF GiveUp
<1>5. CASE Expire(j)
  BY <1>5 DEF Expire
<1> QED  BY <1>1, <1>2, <1>3, <1>4, <1>5 DEF Caller

(* Each step of a worker does.                                             *)
LEMMA WorkerTyped ==
  ASSUME TypeOK, JobsInOrder, NEW w \in Workers, workerLoop(w)
  PROVE  TypeOK'
<1> USE DEF TypeOK, calls, workers
<1>1. CASE Take(w)
  <2>1. /\ Head(jobs) \in Jobs /\ Tail(jobs) \in Seq(Jobs)
        /\ Len(Tail(jobs)) <= QueueSize
    BY <1>1, TailElems, QueueSizeIsNat DEF Take
  <2>2. <<Head(jobs)>> \in Seq(Jobs) /\ Len(<<Head(jobs)>>) <= BatchSize
    BY <2>1, ShortElems, SizesAssumption
  <2> QED  BY <1>1, <2>1, <2>2 DEF Take, Received
<1>2. CASE Gather(w)
  <2>1. /\ Head(jobs) \in Jobs /\ Tail(jobs) \in Seq(Jobs)
        /\ Len(Tail(jobs)) <= QueueSize
    BY <1>2, TailElems, QueueSizeIsNat DEF Gather
  <2>2. /\ Append(batch[w], Head(jobs)) \in Seq(Jobs)
        /\ Len(Append(batch[w], Head(jobs))) <= BatchSize
    BY <1>2, <2>1, AppendElems, SizesAssumption DEF Gather, RoomInBatch
  <2> QED  BY <1>2, <2>1, <2>2 DEF Gather, Received
<1>3. CASE Gathered(w)
  BY <1>3 DEF Gathered
<1>4. CASE Run(w)
  <2>1. PICK r \in {Succeeded(batch[w]), Failed(batch[w], "panicked"),
                    Failed(batch[w], "wrong length")} :
          results' = [results EXCEPT ![w] = r]
    BY <1>4 DEF Run
  <2>2. batch[w] \in Seq(Jobs)
    OBVIOUS
  <2>3. r \in Seq(Outcomes)
    BY <2>1, <2>2, RunResults
  <2> QED  BY <1>4, <2>1, <2>3 DEF Run
<1>5. CASE Answer(w)
  <2>1. /\ Head(batch[w]) \in Jobs /\ Tail(batch[w]) \in Seq(Jobs)
        /\ Len(Tail(batch[w])) <= BatchSize
    BY <1>5, TailElems, SizesAssumption DEF Answer
  <2>2. Head(results[w]) \in Outcomes /\ Tail(results[w]) \in Seq(Outcomes)
    <3>1. Len(results[w]) = Len(batch[w]) /\ Len(batch[w]) \in Nat \ {0}
      BY <1>5, TailElems DEF Answer, JobsInOrder, Addressed
    <3>2. results[w] # << >>
      BY <3>1, LenProperties
    <3> QED  BY <3>2, HeadTailProperties
  <2> QED  BY <1>5, <2>1, <2>2 DEF Answer
<1>6. CASE Answered(w)
  BY <1>6 DEF Answered
<1> QED  BY <1>1, <1>2, <1>3, <1>4, <1>5, <1>6 DEF workerLoop
-----------------------------------------------------------------------------
(* The way of each job.                                                    *)

(* Nothing has been sent at the start.                                     *)
LEMMA OrderInit == Init => JobsInOrder
<1> SUFFICES ASSUME Init PROVE JobsInOrder
  OBVIOUS
<1>1. \A j \in Jobs : ~InFlight(j) /\ resp[j] = None
  BY ShortElems DEF Init, InFlight
<1>2. OnlyOnce
  BY ShortElems DEF Init, OnlyOnce
<1>3. Unanswered
  BY <1>1 DEF Unanswered
<1>4. Addressed
  BY <1>1 DEF Addressed, Init
<1> QED  BY <1>2, <1>3, <1>4 DEF JobsInOrder

(* A step that leaves the queue and the batches alone keeps them as they   *)
(* are.                                                                    *)
LEMMA SameJobs ==
  ASSUME OnlyOnce, UNCHANGED <<jobs, batch>>
  PROVE  OnlyOnce' /\ \A j \in Jobs : InFlight(j)' <=> InFlight(j)
<1>1. OnlyOnce'
  BY DEF OnlyOnce
<1>2. \A j \in Jobs : InFlight(j)' <=> InFlight(j)
  BY DEF InFlight
<1> QED  BY <1>1, <1>2

(* A caller sends its job once, and only it takes its answer.              *)
LEMMA CallerOrder ==
  ASSUME TypeOK, JobsInOrder, NEW j \in Jobs,
         Submit(j) \/ Caller(j) \/ Expire(j)
  PROVE  JobsInOrder'
<1> USE DEF JobsInOrder, calls, workers
<1>1. CASE Submit(j)
  <2>1. UNCHANGED <<jobs, batch, resp, pc, results>>
        /\ call' = [call EXCEPT ![j] = "send"] /\ call[j] = "new"
    BY <1>1 DEF Submit
  <2>2. Unanswered'
    BY <2>1, SameJobs DEF Unanswered, TypeOK
  <2>3. Addressed'
    BY <2>1 DEF Addressed
  <2> QED  BY <2>1, <2>2, <2>3, SameJobs
<1>2. CASE Enqueue(j)
  <2>1. /\ jobs' = Append(jobs, j) /\ UNCHANGED <<batch, resp, pc, results>>
        /\ call' = [call EXCEPT ![j] = "wait"] /\ call[j] = "send"
    BY <1>2 DEF Enqueue
  <2>2. ~InFlight(j) /\ resp[j] = None
    BY <2>1 DEF Unanswered
  <2>3. Elems(jobs') = Elems(jobs) \cup {j} /\ Distinct(jobs')
    BY <2>1, <2>2, AppendElems DEF TypeOK, OnlyOnce, InFlight
  <2>4. \A k \in Jobs : InFlight(k)' => InFlight(k) \/ k = j
    BY <2>1, <2>3 DEF InFlight
  <2>5. OnlyOnce'
    BY <2>1, <2>2, <2>3 DEF OnlyOnce, InFlight
  <2>6. Unanswered'
    BY <2>1, <2>2, <2>4 DEF Unanswered, TypeOK
  <2>7. Addressed'
    BY <2>1 DEF Addressed
  <2> QED  BY <2>5, <2>6, <2>7
<1>3. CASE Receive(j)
  <2>1. /\ UNCHANGED <<jobs, batch, pc, results>>
        /\ resp' = [resp EXCEPT ![j] = None]
        /\ call' = [call EXCEPT ![j] = "done"] /\ call[j] = "wait"
    BY <1>3 DEF Receive
  <2>2. Unanswered'
    BY <2>1, SameJobs DEF Unanswered, TypeOK
  <2>3. Addressed'
    BY <2>1 DEF Addressed, TypeOK
  <2> QED  BY <2>1, <2>2, <2>3, SameJobs
<1>4. CASE GiveUp(j)
  <2>1. /\ UNCHANGED <<jobs, batch, resp, pc, results>>
        /\ call' = [call EXCEPT ![j] = "done"]
    BY <1>4 DEF GiveUp
  <2>2. Unanswered'
    BY <2>1, SameJobs DEF Unanswered, TypeOK
  <2>3. Addressed'
    BY <2>1 DEF Addressed
  <2> QED  BY <2>1, <2>2, <2>3, SameJobs
<1>5. CASE Expire(j)
  <2>1. UNCHANGED <<call, jobs, batch, resp, pc, results>>
    BY <1>5 DEF Expire
  <2>2. Unanswered'
    BY <2>1, SameJobs DEF Unanswered
  <2>3. Addressed'
    BY <2>1 DEF Addressed
  <2> QED  BY <2>1, <2>2, <2>3, SameJobs
<1> QED  BY <1>1, <1>2, <1>3, <1>4, <1>5 DEF Caller

(* The first job of the queue moves to the batch of the worker that takes  *)
(* it, whether it starts the batch or joins it.                            *)
LEMMA TakenOnce ==
  ASSUME TypeOK, JobsInOrder, NEW w \in Workers, jobs # << >>,
         UNCHANGED <<call, resp, results>>, jobs' = Received,
         batch' \in [Workers -> Seq(Jobs)],
         pc' \in [Workers -> {"idle", "gather", "run", "answer"}],
         \A v \in Workers \ {w} : batch'[v] = batch[v] /\ pc'[v] = pc[v],
         Elems(batch'[w]) \subseteq Elems(batch[w]) \cup {Head(jobs)},
         Distinct(batch'[w]), pc'[w] = "gather"
  PROVE  JobsInOrder'
<1>1. /\ Head(jobs) \in Elems(jobs) /\ Elems(jobs') \subseteq Elems(jobs)
      /\ Distinct(jobs') /\ Head(jobs) \notin Elems(jobs')
  BY TailElems DEF JobsInOrder, OnlyOnce, TypeOK, Received
<1>2. \A j \in Jobs : InFlight(j)' => InFlight(j)
  <2> SUFFICES ASSUME NEW j \in Jobs, InFlight(j)' PROVE InFlight(j)
    OBVIOUS
  <2>1. CASE j \in Elems(jobs')
    BY <1>1, <2>1 DEF InFlight
  <2>2. CASE \E v \in Workers : j \in Elems(batch'[v])
    BY <1>1, <2>2 DEF InFlight
  <2> QED  BY <2>1, <2>2 DEF InFlight
<1>3. OnlyOnce'
  <2>1. \A v \in Workers : Distinct(batch'[v])
    BY DEF JobsInOrder, OnlyOnce
  <2>2. \A v \in Workers : Elems(jobs') \cap Elems(batch'[v]) = {}
    BY <1>1 DEF JobsInOrder, OnlyOnce
  <2>3. \A u, v \in Workers : u # v =>
          Elems(batch'[u]) \cap Elems(batch'[v]) = {}
    <3>1. ASSUME NEW v \in Workers, v # w
          PROVE  Elems(batch'[w]) \cap Elems(batch'[v]) = {}
      <4>1. /\ Elems(batch[w]) \cap Elems(batch[v]) = {}
            /\ Head(jobs) \notin Elems(batch[v]) /\ batch'[v] = batch[v]
        BY <1>1, <3>1 DEF JobsInOrder, OnlyOnce
      <4> QED  BY <4>1
    <3>2. ASSUME NEW u \in Workers, NEW v \in Workers, u # v, u # w, v # w
          PROVE  Elems(batch'[u]) \cap Elems(batch'[v]) = {}
      BY <3>2 DEF JobsInOrder, OnlyOnce
    <3> QED  BY <3>1, <3>2
  <2> QED  BY <1>1, <2>1, <2>2, <2>3 DEF OnlyOnce
<1>4. Unanswered'
  BY <1>2 DEF JobsInOrder, Unanswered
<1>5. Addressed'
  BY DEF JobsInOrder, Addressed
<1> QED  BY <1>3, <1>4, <1>5 DEF JobsInOrder
(* A worker collects each job once, and its answers are for them.          *)
LEMMA WorkerOrder ==
  ASSUME TypeOK, TypeOK', JobsInOrder, NEW w \in Workers, workerLoop(w)
  PROVE  JobsInOrder'
<1> USE DEF JobsInOrder, calls, workers
<1>0. batch[w] \in Seq(Jobs) /\ jobs \in Seq(Jobs)
  BY DEF TypeOK
<1>1. CASE Take(w)
  <2>1. /\ jobs # << >> /\ jobs' = Received
        /\ batch' = [batch EXCEPT ![w] = <<Head(jobs)>>]
        /\ pc' = [pc EXCEPT ![w] = "gather"]
        /\ UNCHANGED <<call, resp, results>>
    BY <1>1 DEF Take
  <2>2. batch'[w] = <<Head(jobs)>> /\ Head(jobs) \in Jobs
    BY <1>0, <2>1, TailElems DEF TypeOK
  <2>3. Elems(batch'[w]) = {Head(jobs)} /\ Distinct(batch'[w])
    BY <2>2, ShortElems
  <2>4. /\ batch' \in [Workers -> Seq(Jobs)]
        /\ pc' \in [Workers -> {"idle", "gather", "run", "answer"}]
    BY DEF TypeOK
  <2>5. \A v \in Workers \ {w} : batch'[v] = batch[v] /\ pc'[v] = pc[v]
    BY <2>1 DEF TypeOK
  <2>6. pc'[w] = "gather"
    BY <2>1 DEF TypeOK
  <2>7. Elems(batch'[w]) \subseteq Elems(batch[w]) \cup {Head(jobs)}
    BY <2>3
  <2> QED  BY <2>1, <2>3, <2>4, <2>5, <2>6, <2>7, TakenOnce, Zenon
<1>2. CASE Gather(w)
  <2>1. /\ jobs # << >> /\ jobs' = Received
        /\ batch' = [batch EXCEPT ![w] = Append(@, Head(jobs))]
        /\ pc[w] = "gather" /\ UNCHANGED <<call, resp, pc, results>>
    BY <1>2 DEF Gather
  <2>2. /\ batch'[w] = Append(batch[w], Head(jobs)) /\ Head(jobs) \in Jobs
        /\ Head(jobs) \notin Elems(batch[w]) /\ Distinct(batch[w])
    BY <1>0, <2>1, TailElems DEF TypeOK, OnlyOnce
  <2>3. /\ Elems(batch'[w]) = Elems(batch[w]) \cup {Head(jobs)}
        /\ Distinct(batch'[w])
    BY <1>0, <2>2, AppendElems
  <2>4. /\ batch' \in [Workers -> Seq(Jobs)]
        /\ pc' \in [Workers -> {"idle", "gather", "run", "answer"}]
    BY DEF TypeOK
  <2>5. \A v \in Workers \ {w} : batch'[v] = batch[v] /\ pc'[v] = pc[v]
    BY <2>1 DEF TypeOK
  <2>6. pc'[w] = "gather"
    BY <2>1 DEF TypeOK
  <2>7. Elems(batch'[w]) \subseteq Elems(batch[w]) \cup {Head(jobs)}
    BY <2>3
  <2> QED  BY <2>1, <2>3, <2>4, <2>5, <2>6, <2>7, TakenOnce, Zenon
<1>3. CASE Gathered(w)
  <2>1. /\ UNCHANGED <<call, jobs, resp, batch, results>>
        /\ pc' = [pc EXCEPT ![w] = "run"]
    BY <1>3 DEF Gathered
  <2>2. Unanswered'
    BY <2>1, SameJobs DEF Unanswered
  <2>3. Addressed'
    BY <2>1 DEF Addressed, TypeOK
  <2> QED  BY <2>1, <2>2, <2>3, SameJobs
<1>4. CASE Run(w)
  <2>1. /\ UNCHANGED <<call, jobs, resp, batch>>
        /\ pc' = [pc EXCEPT ![w] = "answer"]
    BY <1>4 DEF Run
  <2>2. PICK r \in {Succeeded(batch[w]), Failed(batch[w], "panicked"),
                    Failed(batch[w], "wrong length")} :
          results' = [results EXCEPT ![w] = r]
    BY <1>4 DEF Run
  <2>3. /\ Len(r) = Len(batch[w])
        /\ \A i \in 1..Len(batch[w]) : r[i] \in C!Answers(batch[w][i])
    BY <1>0, <2>2, RunResults
  <2>4. Unanswered'
    BY <2>1, SameJobs DEF Unanswered
  <2>5. Addressed'
    BY <2>1, <2>2, <2>3 DEF Addressed, TypeOK
  <2> QED  BY <2>1, <2>4, <2>5, SameJobs
<1>5. CASE Answer(w)
  <2> DEFINE h == Head(batch[w])
  <2>1. /\ pc[w] = "answer" /\ batch[w] # << >>
        /\ resp' = [resp EXCEPT ![h] = Head(results[w])]
        /\ batch' = [batch EXCEPT ![w] = Tail(@)]
        /\ results' = [results EXCEPT ![w] = Tail(@)]
        /\ UNCHANGED <<call, jobs, pc>>
    BY <1>5 DEF Answer
  <2>2. /\ h \in Jobs /\ h = batch[w][1] /\ h \in Elems(batch[w])
        /\ Len(batch[w]) \in Nat \ {0}
        /\ batch'[w] = Tail(batch[w]) /\ Distinct(batch'[w])
        /\ h \notin Elems(batch'[w]) /\ Elems(batch'[w]) \subseteq Elems(batch[w])
        /\ Len(batch'[w]) = Len(batch[w]) - 1
        /\ \A i \in 1..Len(batch'[w]) : batch'[w][i] = batch[w][i + 1]
    BY <1>0, <2>1, TailElems DEF TypeOK, OnlyOnce
  <2>3. /\ results[w] \in Seq(Outcomes) /\ Len(results[w]) = Len(batch[w])
        /\ \A i \in 1..Len(batch[w]) : results[w][i] \in C!Answers(batch[w][i])
    BY <2>1 DEF Addressed, TypeOK
  <2>4. /\ Head(results[w]) = results[w][1]
        /\ Len(Tail(results[w])) = Len(results[w]) - 1
        /\ \A i \in 1..Len(Tail(results[w])) :
             Tail(results[w])[i] = results[w][i + 1]
    <3>1. results[w] # << >>
      BY <2>2, <2>3, LenProperties
    <3> QED  BY <2>3, <3>1, HeadTailProperties
  <2>5. Head(results[w]) \in C!Answers(h)
    BY <2>2, <2>3, <2>4
  <2> HIDE DEF h
  <2>6. OnlyOnce'
    <3>1. \A v \in Workers : v # w => batch'[v] = batch[v]
      BY <2>1
    <3>2. \A v \in Workers : Elems(batch'[v]) \subseteq Elems(batch[v])
                               /\ Distinct(batch'[v])
      BY <2>2, <3>1 DEF OnlyOnce
    <3> QED  BY <2>1, <3>2 DEF OnlyOnce
  <2>7. \A j \in Jobs : InFlight(j)' => InFlight(j) /\ j # h
    BY <2>1, <2>2 DEF InFlight, OnlyOnce, TypeOK
  <2>8. InFlight(h)
    BY <2>2 DEF InFlight
  <2>9. Unanswered'
    BY <2>1, <2>2, <2>7, <2>8 DEF Unanswered, TypeOK
  <2>10. \A i \in 1..Len(batch'[w]) :
           Tail(results[w])[i] \in C!Answers(batch'[w][i])
    BY <2>2, <2>3, <2>4
  <2>11. Addressed'
    BY <2>1, <2>2, <2>3, <2>4, <2>5, <2>10, ZenonT(30) DEF Addressed, TypeOK
  <2> QED  BY <2>6, <2>9, <2>11
<1>6. CASE Answered(w)
  <2>1. /\ UNCHANGED <<call, jobs, resp, batch, results>>
        /\ pc' = [pc EXCEPT ![w] = "idle"]
    BY <1>6 DEF Answered
  <2>2. Unanswered'
    BY <2>1, SameJobs DEF Unanswered
  <2>3. Addressed'
    BY <2>1 DEF Addressed, TypeOK
  <2> QED  BY <2>1, <2>2, <2>3, SameJobs
<1> QED  BY <1>1, <1>2, <1>3, <1>4, <1>5, <1>6 DEF workerLoop
-----------------------------------------------------------------------------
(* The type and the way of each job are kept together: that a worker has a *)
(* result for each job of its batch is part of the latter.                 *)
THEOREM TypeCorrect == Spec => [](TypeOK /\ JobsInOrder)
<1>1. Init => TypeOK /\ JobsInOrder
  BY TypeInit, OrderInit
<1>2. TypeOK /\ JobsInOrder /\ [Next]_vars => (TypeOK /\ JobsInOrder)'
  <2> SUFFICES ASSUME TypeOK, JobsInOrder, [Next]_vars
               PROVE  TypeOK' /\ JobsInOrder'
    OBVIOUS
  <2>1. ASSUME NEW j \in Jobs, Submit(j) \/ Caller(j) \/ Expire(j)
        PROVE  TypeOK' /\ JobsInOrder'
    BY <2>1, CallerTyped, CallerOrder
  <2>2. ASSUME NEW w \in Workers, workerLoop(w)
        PROVE  TypeOK' /\ JobsInOrder'
    BY <2>2, WorkerTyped, WorkerOrder
  <2>3. CASE UNCHANGED vars
    <3>1. TypeOK'
      BY <2>3 DEF TypeOK, vars
    <3>2. Unanswered' /\ Addressed'
      BY <2>3, SameJobs DEF JobsInOrder, Unanswered, Addressed, vars
    <3> QED  BY <2>3, <3>1, <3>2, SameJobs DEF JobsInOrder, vars
  <2> QED  BY <2>1, <2>2, <2>3, ImpatientAssumption DEF Next
<1> QED  BY <1>1, <1>2, PTL DEF Spec

(* However callers give up, no job is with two workers or twice in one's   *)
(* hands, and every answer is on its way to the call it belongs to.        *)
THEOREM JobsAlwaysInOrder == Spec => []JobsInOrder
BY TypeCorrect, PTL

(* runBatch never waits to hand over an answer: each worker always gets    *)
(* back to the queue.                                                      *)
THEOREM NeverBlocks == Spec => []NeverBlocked
<1>1. TypeOK /\ JobsInOrder => NeverBlocked
  <2> SUFFICES ASSUME TypeOK, JobsInOrder, NEW w \in Workers, batch[w] # << >>
               PROVE  resp[Head(batch[w])] = None
    BY DEF NeverBlocked
  <2>1. Head(batch[w]) \in Jobs /\ Head(batch[w]) \in Elems(batch[w])
    BY TailElems DEF TypeOK
  <2> QED  BY <2>1 DEF JobsInOrder, Unanswered, InFlight
<1> QED  BY <1>1, TypeCorrect, PTL

(* A step of the queue is a step of Calls or none of its steps.            *)
LEMMA StepImplements ==
  ASSUME TypeOK, JobsInOrder, [Next]_vars
  PROVE  [C!Next]_<<[j \in Jobs |-> State(call[j])], expired, answer>>
<1> DEFINE state == [j \in Jobs |-> State(call[j])]
<1> USE DEF calls, workers
<1>1. ASSUME NEW j \in Jobs, Submit(j)
      PROVE  C!Open(j)
  BY <1>1 DEF Submit, C!Open, State, TypeOK
<1>2. ASSUME NEW j \in Jobs, Enqueue(j)
      PROVE  UNCHANGED <<state, expired, answer>>
  BY <1>2 DEF Enqueue, State, TypeOK
<1>3. ASSUME NEW j \in Jobs, Receive(j)
      PROVE  C!Close(j)
  <2>1. resp[j] \in C!Answers(j)
    BY <1>3 DEF Receive, JobsInOrder, Addressed
  <2>2. state[j] = "open" /\ state' = [state EXCEPT ![j] = "closed"]
    BY <1>3 DEF Receive, State, TypeOK
  <2> QED  BY <1>3, <2>1, <2>2 DEF Receive, C!Close
<1>4. ASSUME NEW j \in Jobs, GiveUp(j)
      PROVE  C!Close(j)
  <2>1. state[j] = "open" /\ state' = [state EXCEPT ![j] = "closed"]
    BY <1>4 DEF GiveUp, State, TypeOK
  <2> QED  BY <1>4, <2>1 DEF GiveUp, C!Close
<1>5. ASSUME NEW j \in Jobs, Expire(j)
      PROVE  C!Expire(j)
  BY <1>5 DEF Expire, C!Expire
<1>6. ASSUME NEW w \in Workers, workerLoop(w)
      PROVE  UNCHANGED <<state, expired, answer>>
  BY <1>6 DEF workerLoop, Take, Gather, Gathered, Run, Answer, Answered
<1>7. CASE UNCHANGED vars
  BY <1>7 DEF vars
<1> QED
  BY <1>1, <1>2, <1>3, <1>4, <1>5, <1>6, <1>7, ImpatientAssumption
     DEF Next, Caller, C!Next

(* Submit keeps its promise but for the liveness of it: every call returns *)
(* once, with its own result, an error of its batch or that of its         *)
(* context.                                                                *)
THEOREM ImplementsCalls == Spec => C!Spec
<1>1. Init => C!Init
  BY DEF Init, C!Init, State
<1>2. TypeOK /\ JobsInOrder /\ [Next]_vars
        => [C!Next]_<<[j \in Jobs |-> State(call[j])], expired, answer>>
  BY StepImplements
<1> QED  BY <1>1, <1>2, TypeCorrect, PTL DEF Spec, C!Spec

(***************************************************************************)
(* The queue of uploads: types, requests and runs.                         *)
(***************************************************************************)

(* The uploads are what they are throughout.                               *)
JobType == job \in [Tasks -> UploadJobs]

(* The chunks before one.                                                  *)
LEMMA Before ==
  ASSUME NEW n \in Nat
  PROVE  /\ (0 .. n - 1) \cup {n} = 0 .. (n + 1) - 1 /\ 0 .. (n + 1) - 1 = 0 .. n
         /\ \A m \in Nat : n < m => n + 1 <= m /\ \A j \in 0 .. n - 1 : j \in 0 .. m - 1
         /\ \A j \in 0 .. n : j = n \/ j \in 0 .. n - 1
<1>1. (n + 1) - 1 = n
  OBVIOUS
<1>2. (0 .. n - 1) \cup {n} = 0 .. n
  OBVIOUS
<1>3. ASSUME NEW m \in Nat, n < m PROVE n + 1 <= m /\ \A j \in 0 .. n - 1 : j \in 0 .. m - 1
  BY <1>3
<1>4. ASSUME NEW j \in 0 .. n, j # n PROVE j \in 0 .. n - 1
  BY <1>4
<1> QED BY <1>1, <1>2, <1>3, <1>4

(* What an upload is of, by type.                                          *)
LEMMA JobFacts ==
  ASSUME JobType, NEW t \in Tasks
  PROVE  /\ job[t].file \in Files /\ job[t].name \in Names /\ job[t].replace \in BOOLEAN
         /\ Size[job[t].file] \in Nat \ {0}
         /\ 0 \in Chunks /\ 0 .. Size[job[t].file] - 1 \subseteq Chunks /\ Chunks \subseteq Nat
<1>1. job[t].file \in Files /\ job[t].name \in Names /\ job[t].replace \in BOOLEAN
  BY JobAssumption DEF JobType
<1>2. Size[job[t].file] \in Nat \ {0}
  BY <1>1, SizeAssumption
<1>3. 0 .. Size[job[t].file] - 1 \subseteq Chunks
  BY <1>1 DEF Chunks
<1>4. Chunks \subseteq Nat
  BY SizeAssumption DEF Chunks
<1> QED BY <1>1, <1>2, <1>3, <1>4

(* A run at a point where it waits for no chunk.                           *)
LEMMA IdleFacts ==
  ASSUME JobType, NEW t \in Tasks
  PROVE  Idle \in RunSet /\ \A at \in {"query", "direct", "over"} :
             [Idle EXCEPT !.at = at] \in RunSet /\ [Idle EXCEPT !.at = at].at = at
<1>1. 0 \in Chunks /\ 0 \in 0 .. MaxTries /\ {} \in SUBSET Chunks
  BY JobFacts, LimitAssumption
<1> QED BY <1>1 DEF Idle, RunSet

(* A request that has just been made is well formed, uncut and unsent.     *)
LEMMA RequestFacts ==
  ASSUME NEW r \in Runs, NEW kind \in {"chunk", "merge", "direct"}, NEW i \in Nat, NEW try \in Nat,
         kind = "chunk" => i \in Chunks, kind = "direct" => i = 0
  PROVE  LET o == Request(r, kind, i, try)
         IN /\ WellFormed(o) /\ o.run = r /\ o.kind = kind /\ o.i = i /\ ~o.cut /\ o.at = "sent"
            /\ o.dest = Nothing /\ ~o.own /\ o.whole
BY DEF Request, WellFormed, RequestSet

(* A fresh request.                                                        *)
Unsent(o) == o.at = "sent" /\ o.dest = Nothing /\ ~o.own

(* No uncut request belongs to the run.                                    *)
Free(r, q) == \A o \in q : o.run = r => o.cut

(* A run is a task and a number.                                           *)
LEMMA RunFacts ==
  /\ \A r \in Runs : r = <<r[1], r[2]>> /\ r[1] \in Tasks /\ r[2] \in 1 .. MaxRuns
  /\ \A t \in Tasks, m \in 1 .. MaxRuns : <<t, m>> \in Runs /\ <<t, m>>[1] = t /\ <<t, m>>[2] = m
BY DEF Runs

(* processQueue starts runs that have not been used, each with the one     *)
(* request it waits for.                                                   *)
LEMMA QueueSound ==
  ASSUME JobType, NEW k, NEW n \in SUBSET Tasks, NEW u, NEW q, Sound(k, u, q), ProcessQueue(k, n, u, q)
  PROVE  /\ Sound(task', run', requests') /\ running' \subseteq Tasks
         /\ \A o \in requests' : o \in q \/ Unsent(o)
<1> DEFINE pending == {t \in Tasks : k[t].status = "pending"}
           starts == {t \in pending :
                         Cardinality(n) + Cardinality({v \in pending : v < t}) < Limit}
           direct == {t \in starts : Size[job[t].file] = 1}
           new(t) == <<t, k[t].runs + 1>>
<1>1. /\ task' = [t \in Tasks |->
              IF t \in starts
              THEN [k[t] EXCEPT !.status = "running", !.shown = "uploading",
                                !.aborted = FALSE, !.runs = @ + 1,
                                !.xhr = IF t \in direct THEN k[t].runs + 1 ELSE @]
              ELSE k[t]]
      /\ running' = n \cup starts
      /\ run' = [r \in Runs |->
              IF r[1] \in starts /\ r = new(r[1])
              THEN [Idle EXCEPT !.at = IF r[1] \in direct THEN "direct" ELSE "query"]
              ELSE u[r]]
      /\ requests' = q \cup {Request(new(t), "direct", 0, 1) : t \in direct}
  BY DEF ProcessQueue
<1>2. starts \subseteq Tasks /\ direct \subseteq starts /\ \A t \in starts : k[t].status = "pending"
  OBVIOUS
<1>3. \A t \in direct : Size[job[t].file] = 1
  OBVIOUS
<1>4. \A t \in starts \ direct : Size[job[t].file] # 1
  OBVIOUS
<1> HIDE DEF starts, direct, pending
<1>5. RunsOK(k, u) /\ (\A o \in q : WellFormed(o)) /\ Lone(u, q)
  BY DEF Sound
<1>6. ASSUME NEW t \in starts
      PROVE  k[t].runs + 1 \in 1 .. MaxRuns /\ new(t) \in Runs /\ u[new(t)].at = "none"
  <2>1. k[t].runs \in 0 .. MaxRuns /\ k[t].runs < MaxRuns /\ MaxRuns \in Nat
    BY <1>2, <1>5, BoundAssumption DEF RunsOK, TaskSet
  <2>2. k[t].runs + 1 \in 1 .. MaxRuns /\ k[t].runs + 1 > k[t].runs
    BY <2>1
  <2>3. new(t) \in Runs
    BY <1>2, <2>2, RunFacts
  <2> QED BY <1>2, <1>5, <2>2, <2>3, RunFacts DEF RunsOK
<1>7. task' \in [Tasks -> TaskSet]
  <2>1. ASSUME NEW t \in Tasks PROVE task'[t] \in TaskSet
    <3>1. k[t] \in TaskSet /\ task'[t] = IF t \in starts
                THEN [k[t] EXCEPT !.status = "running", !.shown = "uploading",
                                !.aborted = FALSE, !.runs = @ + 1,
                                !.xhr = IF t \in direct THEN k[t].runs + 1 ELSE @]
                ELSE k[t]
      BY <1>1, <1>5 DEF RunsOK
    <3>2. CASE t \in starts
      <4>1. k[t].runs + 1 \in 1 .. MaxRuns
        BY <1>6, <3>2
      <4>2. 1 .. MaxRuns \subseteq 0 .. MaxRuns
        BY BoundAssumption
      <4> QED BY <3>1, <3>2, <4>1, <4>2 DEF TaskSet, Statuses
    <3> QED BY <3>1, <3>2
  <2> QED BY <1>1, <2>1
<1>8. \A t \in Tasks : task'[t].status = "pending" => task'[t].runs < MaxRuns
  <2>1. \A t \in Tasks : task'[t].status = "pending" => task'[t] = k[t]
    BY <1>1, <1>5 DEF RunsOK, TaskSet
  <2> QED BY <1>5, <2>1 DEF RunsOK
<1>9. \A t \in Tasks : task'[t].runs = IF t \in starts THEN k[t].runs + 1 ELSE k[t].runs
  BY <1>1, <1>5 DEF RunsOK, TaskSet
<1>10. ASSUME NEW r \in Runs
       PROVE  \/ run'[r] = u[r] /\ ~(r[1] \in starts /\ r = new(r[1]))
              \/ /\ r[1] \in starts /\ r = new(r[1])
                 /\ run'[r] = [Idle EXCEPT !.at = IF r[1] \in direct THEN "direct" ELSE "query"]
  BY <1>1
<1>11. run' \in [Runs -> RunSet]
  <2>1. ASSUME NEW r \in Runs PROVE run'[r] \in RunSet
    <3>1. u[r] \in RunSet /\ r[1] \in Tasks
      BY <1>5, RunFacts DEF RunsOK
    <3>2. [Idle EXCEPT !.at = IF r[1] \in direct THEN "direct" ELSE "query"] \in RunSet
      BY <3>1, IdleFacts
    <3> QED BY <1>10, <3>1, <3>2
  <2> QED BY <1>1, <2>1
<1>12. ASSUME NEW r \in Runs
       PROVE  /\ r[2] > task'[r[1]].runs => run'[r].at = "none"
              /\ run'[r].at = "wait" => run'[r].try < MaxTries
              /\ run'[r].at = "direct" => Size[job[r[1]].file] = 1
              /\ run'[r].at \in {"query", "chunk", "wait", "merge"} => Size[job[r[1]].file] # 1
  <2>1. CASE run'[r] = u[r] /\ ~(r[1] \in starts /\ r = new(r[1]))
    <3>1. r[1] \in Tasks /\ r[2] \in Nat /\ k[r[1]].runs \in Nat
      BY <1>5, RunFacts DEF RunsOK, TaskSet
    <3>2. r[2] > task'[r[1]].runs => r[2] > k[r[1]].runs
      BY <1>9, <3>1
    <3> QED BY <1>5, <2>1, <3>2 DEF RunsOK
  <2>2. CASE /\ r[1] \in starts /\ r = new(r[1])
             /\ run'[r] = [Idle EXCEPT !.at = IF r[1] \in direct THEN "direct" ELSE "query"]
    <3>1. r[2] = k[r[1]].runs + 1 /\ task'[r[1]].runs = k[r[1]].runs + 1 /\ k[r[1]].runs \in Nat
      BY <1>2, <1>5, <1>9, <2>2 DEF RunsOK, TaskSet
    <3>2. run'[r].at = IF r[1] \in direct THEN "direct" ELSE "query"
      BY <2>2 DEF Idle
    <3> QED BY <1>3, <1>4, <2>2, <3>1, <3>2
  <2> QED BY <1>10, <2>1, <2>2
<1>13. RunsOK(task', run')
  BY <1>7, <1>8, <1>11, <1>12 DEF RunsOK
<1>14. \A o \in requests' : o \in q \/ \E t \in direct : o = Request(new(t), "direct", 0, 1)
  BY <1>1
<1>15. ASSUME NEW t \in direct
       PROVE  LET o == Request(new(t), "direct", 0, 1)
              IN WellFormed(o) /\ Unsent(o) /\ ~o.cut /\ o.run = new(t) /\ o.kind = "direct"
  <2>1. new(t) \in Runs
    BY <1>2, <1>6
  <2> QED BY <2>1, RequestFacts DEF Unsent
<1>16. \A o \in requests' : WellFormed(o)
  BY <1>5, <1>14, <1>15
<1>17. ASSUME NEW o \in q, ~o.cut PROVE run'[o.run].at = o.kind /\ \A t \in direct : o.run # new(t)
  <2>1. o.run \in Runs /\ o.kind # "none" /\ u[o.run].at = o.kind
    BY <1>5, <1>17 DEF WellFormed, RequestSet, Lone
  <2>2. ASSUME NEW t \in starts PROVE o.run # new(t)
    BY <1>6, <2>1
  <2> QED BY <1>2, <1>10, <2>1, <2>2
<1>18. ASSUME NEW t \in direct PROVE run'[new(t)].at = "direct"
  <2>1. new(t) \in Runs /\ new(t)[1] = t
    BY <1>2, <1>6, RunFacts
  <2> QED BY <1>2, <1>10, <2>1 DEF Idle
<1>19. Lone(run', requests')
  <2>1. ASSUME NEW o \in requests', ~o.cut PROVE run'[o.run].at = o.kind
    <3>1. CASE o \in q
      BY <1>17, <2>1, <3>1
    <3>2. ASSUME NEW t \in direct, o = Request(new(t), "direct", 0, 1) PROVE run'[o.run].at = o.kind
      BY <1>15, <1>18, <3>2
    <3> QED BY <1>14, <3>1, <3>2
  <2>2. ASSUME NEW o \in requests', NEW p \in requests', ~o.cut, ~p.cut, o.run = p.run PROVE o = p
    <3>1. CASE o \in q /\ p \in q
      BY <1>5, <2>2, <3>1 DEF Lone
    <3>2. CASE o \in q /\ p \notin q
      <4>1. PICK v \in direct : p = Request(new(v), "direct", 0, 1)
        BY <1>14, <3>2
      <4>2. p.run = new(v)
        BY <1>15, <4>1
      <4>3. o.run # new(v)
        BY <1>17, <2>2, <3>2
      <4> QED BY <2>2, <4>2, <4>3
    <3>3. CASE o \notin q /\ p \in q
      <4>1. PICK v \in direct : o = Request(new(v), "direct", 0, 1)
        BY <1>14, <3>3
      <4>2. o.run = new(v)
        BY <1>15, <4>1
      <4>3. p.run # new(v)
        BY <1>17, <2>2, <3>3
      <4> QED BY <2>2, <4>2, <4>3
    <3>4. CASE o \notin q /\ p \notin q
      <4>1. PICK t \in direct : o = Request(new(t), "direct", 0, 1)
        BY <1>14, <3>4
      <4>2. PICK v \in direct : p = Request(new(v), "direct", 0, 1)
        BY <1>14, <3>4
      <4>3. new(t) = new(v)
        BY <1>15, <2>2, <4>1, <4>2
      <4> QED BY <4>1, <4>2, <4>3
    <3> QED BY <3>1, <3>2, <3>3, <3>4
  <2> QED BY <2>1, <2>2 DEF Lone
<1>20. running' \subseteq Tasks
  BY <1>1, <1>2
<1> QED BY <1>13, <1>14, <1>15, <1>16, <1>19, <1>20 DEF Sound

(* A field of a task is set: its runs are as they were.                    *)
LEMMA TaskSound ==
  ASSUME NEW k, NEW u, NEW q, Sound(k, u, q), NEW t \in Tasks, NEW e \in TaskSet,
         e.runs = k[t].runs, e.status = "pending" => e.runs < MaxRuns
  PROVE  Sound([k EXCEPT ![t] = e], u, q)
<1>1. RunsOK(k, u)
  BY DEF Sound
<1>2. \A s \in Tasks : [k EXCEPT ![t] = e][s] = IF s = t THEN e ELSE k[s]
  BY <1>1 DEF RunsOK
<1>3. RunsOK([k EXCEPT ![t] = e], u)
  BY <1>1, <1>2, RunFacts DEF RunsOK
<1> QED BY <1>3 DEF Sound

(* A run that nothing is under way for may go to any point; with the       *)
(* request that this point waits for.                                      *)
LEMMA RunSound ==
  ASSUME NEW k, NEW u, NEW q, Sound(k, u, q), NEW r \in Runs, NEW e \in RunSet,
         u[r].at # "none", e.at = "wait" => e.try < MaxTries,
         e.at = "direct" => Size[job[r[1]].file] = 1,
         e.at \in {"query", "chunk", "wait", "merge"} => Size[job[r[1]].file] # 1,
         Free(r, q)
  PROVE  /\ Sound(k, [u EXCEPT ![r] = e], q)
         /\ \A o : WellFormed(o) /\ o.run = r /\ e.at = o.kind => Sound(k, [u EXCEPT ![r] = e], q \cup {o})
<1> DEFINE v == [u EXCEPT ![r] = e]
<1>1. RunsOK(k, u) /\ (\A o \in q : WellFormed(o)) /\ Lone(u, q)
  BY DEF Sound
<1>2. v \in [Runs -> RunSet] /\ \A s \in Runs : v[s] = IF s = r THEN e ELSE u[s]
  BY <1>1 DEF RunsOK
<1> HIDE DEF v
<1>3. ~(r[2] > k[r[1]].runs)
  BY <1>1 DEF RunsOK
<1>4. RunsOK(k, v)
  BY <1>1, <1>2, <1>3 DEF RunsOK
<1>5. \A o \in q : o.run \in Runs
  BY <1>1 DEF WellFormed, RequestSet
<1>6. \A o \in q : ~o.cut => o.run # r
  BY DEF Free
<1>7. Lone(v, q)
  BY <1>1, <1>2, <1>5, <1>6 DEF Lone
<1>8. ASSUME NEW o, WellFormed(o), o.run = r, e.at = o.kind PROVE Lone(v, q \cup {o})
  BY <1>2, <1>6, <1>7, <1>8 DEF Lone
<1> QED BY <1>1, <1>4, <1>7, <1>8 DEF Sound, v

(* What a run's return hands to the queue.                                 *)
Ended(k, t, error) ==
    IF k[t].aborted \/ k[t].status = "removed" THEN k[t]
    ELSE [k[t] EXCEPT !.status = IF error THEN "failed" ELSE "completed",
                      !.shown = IF error THEN "error" ELSE "done"]

(* The arguments of processQueue when a run returns.                       *)
LEMMA ReturnQueue ==
  ASSUME JobType, running \subseteq Tasks, NEW r \in Runs, NEW error, NEW k, NEW q, Sound(k, run, q),
         run[r].at # "none", Free(r, q), Return(r, error, k, q)
  PROVE  \E e \in TaskSet, o \in RunSet :
            /\ Sound([k EXCEPT ![r[1]] = e], [run EXCEPT ![r] = o], q)
            /\ ProcessQueue([k EXCEPT ![r[1]] = e], running \ {r[1]}, [run EXCEPT ![r] = o], q)
            /\ o.at = "over"
            /\ e = Ended(k, r[1], error)
<1> DEFINE t == r[1]
           end == Ended(k, t, error)
           over == [Idle EXCEPT !.at = "over"]
<1>1. t \in Tasks /\ k[t] \in TaskSet /\ (k[t].status = "pending" => k[t].runs < MaxRuns)
  BY RunFacts DEF Sound, RunsOK
<1>2. end \in TaskSet /\ end.runs = k[t].runs /\ (end.status = "pending" => end.runs < MaxRuns)
  <2>1. CASE k[t].aborted \/ k[t].status = "removed"
    BY <1>1, <2>1 DEF Ended
  <2>2. CASE ~(k[t].aborted \/ k[t].status = "removed")
    BY <1>1, <2>2 DEF TaskSet, Statuses, Ended
  <2> QED BY <2>1, <2>2
<1>3. over \in RunSet /\ over.at = "over"
  BY <1>1, IdleFacts
<1>4. ProcessQueue([k EXCEPT ![t] = end], running \ {t}, [run EXCEPT ![r] = over], q)
  BY DEF Return, Ended
<1> HIDE DEF end, over
<1>5. Sound([k EXCEPT ![t] = end], run, q)
  BY <1>1, <1>2, TaskSound
<1>6. Sound([k EXCEPT ![t] = end], [run EXCEPT ![r] = over], q)
  BY <1>3, <1>5, RunSound
<1> QED BY <1>2, <1>3, <1>4, <1>6 DEF end

(* A run returns: its task ends and the queue starts others.               *)
LEMMA ReturnSound ==
  ASSUME JobType, running \subseteq Tasks, NEW r \in Runs, NEW error, NEW k, NEW q, Sound(k, run, q),
         run[r].at # "none", Free(r, q), Return(r, error, k, q)
  PROVE  /\ Sound(task', run', requests') /\ running' \subseteq Tasks
         /\ \A o \in requests' : o \in q \/ Unsent(o)
<1>1. PICK e \in TaskSet, o \in RunSet :
         /\ Sound([k EXCEPT ![r[1]] = e], [run EXCEPT ![r] = o], q)
         /\ ProcessQueue([k EXCEPT ![r[1]] = e], running \ {r[1]}, [run EXCEPT ![r] = o], q)
  BY ReturnQueue
<1>2. running \ {r[1]} \in SUBSET Tasks
  OBVIOUS
<1> QED BY <1>1, <1>2, QueueSound

(* A set of chunks has a least one.                                        *)
LEMMA LeastChunk ==
  ASSUME NEW S, S \subseteq Nat, S # {}
  PROVE  \E k \in S : \A j \in S : k <= j
<1>1. PICK k \in S : \A j \in S : <<j, k>> \notin OpToRel(<, Nat)
  BY NatLessThanWellFounded, WFMin
<1>2. \A j \in S : ~ (j < k)
  BY <1>1 DEF OpToRel
<1> QED BY <1>2

(* What the loop over the chunks does.                                     *)
Missing(t, i, have) == {j \in i .. Size[job[t].file] - 1 : j \notin have}

(* The CHOOSE of the next chunk is the least that is missing.              *)
LEMMA GoOnCases ==
  ASSUME JobType, NEW r \in Runs, NEW i \in Nat, NEW have, NEW q, GoOn(r, i, have, q)
  PROVE  \/ task[r[1]].shown \in {"paused", "canceled"} /\ Return(r, TRUE, task, q)
         \/ /\ task[r[1]].shown \notin {"paused", "canceled"}
            /\ running' = running
            /\ \/ \E next \in Missing(r[1], i, have) :
                     /\ \A m \in Missing(r[1], i, have) : next <= m
                     /\ run' = [run EXCEPT ![r] = [at |-> "chunk", i |-> next, try |-> 1, have |-> have]]
                     /\ requests' = q \cup {Request(r, "chunk", next, 1)}
                     /\ task' = [task EXCEPT ![r[1]].xhr = r[2]]
               \/ /\ Missing(r[1], i, have) = {}
                  /\ run' = [run EXCEPT ![r] = [Idle EXCEPT !.at = "merge"]]
                  /\ requests' = q \cup {Request(r, "merge", 0, 1)}
                  /\ task' = Shown(r[1], "saving")
<1> DEFINE missing == Missing(r[1], i, have)
           next == CHOOSE j \in missing : \A m \in missing : j <= m
<1>1. missing # {} => next \in missing /\ \A m \in missing : next <= m
  <2>1. missing \subseteq Nat
    BY DEF Missing
  <2>2. missing # {} => \E j \in missing : \A m \in missing : j <= m
    BY <2>1, LeastChunk
  <2> HIDE DEF missing
  <2> QED BY <2>2
<1>2. IF task[r[1]].shown \in {"paused", "canceled"} THEN Return(r, TRUE, task, q)
      ELSE /\ UNCHANGED running
           /\ IF missing # {}
              THEN /\ run' = [run EXCEPT ![r] = [at |-> "chunk", i |-> next, try |-> 1, have |-> have]]
                   /\ requests' = q \cup {Request(r, "chunk", next, 1)}
                   /\ task' = [task EXCEPT ![r[1]].xhr = r[2]]
              ELSE /\ run' = [run EXCEPT ![r] = [Idle EXCEPT !.at = "merge"]]
                   /\ requests' = q \cup {Request(r, "merge", 0, 1)}
                   /\ task' = Shown(r[1], "saving")
  BY DEF GoOn, Missing
<1> HIDE DEF next
<1>3. CASE task[r[1]].shown \in {"paused", "canceled"}
  BY <1>2, <1>3
<1>4. CASE task[r[1]].shown \notin {"paused", "canceled"} /\ missing # {}
  BY <1>1, <1>2, <1>4
<1>5. CASE task[r[1]].shown \notin {"paused", "canceled"} /\ missing = {}
  BY <1>2, <1>5
<1> QED BY <1>3, <1>4, <1>5

(* A field of a task is set.                                               *)
LEMMA FieldSound ==
  ASSUME NEW u, NEW q, Sound(task, u, q), NEW t \in Tasks
  PROVE  /\ \A m \in 0 .. MaxRuns : Sound([task EXCEPT ![t].xhr = m], u, q)
         /\ \A s \in {"saving", "done"} : Sound(Shown(t, s), u, q)
         /\ Sound(Failing(t), u, q)
<1>1. task \in [Tasks -> TaskSet] /\ (task[t].status = "pending" => task[t].runs < MaxRuns)
  BY DEF Sound, RunsOK
<1>2. ASSUME NEW m \in 0 .. MaxRuns PROVE Sound([task EXCEPT ![t].xhr = m], u, q)
  <2> DEFINE e == [task[t] EXCEPT !.xhr = m]
  <2>1. /\ [task EXCEPT ![t].xhr = m] = [task EXCEPT ![t] = e]
        /\ e \in TaskSet /\ e.runs = task[t].runs /\ e.status = task[t].status
    BY <1>1 DEF TaskSet, Statuses
  <2> HIDE DEF e
  <2>2. Sound([task EXCEPT ![t] = e], u, q)
    BY <1>1, <2>1, TaskSound
  <2> QED BY <2>1, <2>2
<1>3. ASSUME NEW s \in {"saving", "done"} PROVE Sound(Shown(t, s), u, q)
  <2> DEFINE e == [task[t] EXCEPT !.shown = s]
  <2>1. /\ Shown(t, s) = [task EXCEPT ![t] = e]
        /\ e \in TaskSet /\ e.runs = task[t].runs /\ e.status = task[t].status
    BY <1>1 DEF Shown, TaskSet, Statuses
  <2> HIDE DEF e
  <2>2. Sound([task EXCEPT ![t] = e], u, q)
    BY <1>1, <2>1, TaskSound
  <2> QED BY <2>1, <2>2
<1>4. Sound(Failing(t), u, q)
  <2> DEFINE e == [task[t] EXCEPT !.shown = "error", !.failed = TRUE]
  <2>1. /\ Failing(t) = [task EXCEPT ![t] = e]
        /\ e \in TaskSet /\ e.runs = task[t].runs /\ e.status = task[t].status
    BY <1>1 DEF Failing, TaskSet, Statuses
  <2> HIDE DEF e
  <2>2. Sound([task EXCEPT ![t] = e], u, q)
    BY <1>1, <2>1, TaskSound
  <2> QED BY <2>1, <2>2
<1> QED BY <1>2, <1>3, <1>4

(* The loop over the chunks sends the next chunk, asks for the merge or    *)
(* returns.                                                                *)
LEMMA GoOnSound ==
  ASSUME JobType, running \subseteq Tasks, NEW r \in Runs, NEW i \in Nat, NEW have \in SUBSET Chunks,
         NEW q, Sound(task, run, q), run[r].at \in {"query", "chunk"}, Free(r, q), GoOn(r, i, have, q)
  PROVE  /\ Sound(task', run', requests') /\ running' \subseteq Tasks
         /\ \A o \in requests' : o \in q \/ Unsent(o)
<1>1. r[1] \in Tasks /\ r[2] \in 0 .. MaxRuns /\ Size[job[r[1]].file] # 1 /\ run[r].at # "none"
  BY RunFacts, BoundAssumption DEF Sound, RunsOK
<1>2. CASE Return(r, TRUE, task, q)
  BY <1>1, <1>2, ReturnSound
<1>3. CASE /\ running' = running
           /\ \E next \in Missing(r[1], i, have) :
                 /\ run' = [run EXCEPT ![r] = [at |-> "chunk", i |-> next, try |-> 1, have |-> have]]
                 /\ requests' = q \cup {Request(r, "chunk", next, 1)}
                 /\ task' = [task EXCEPT ![r[1]].xhr = r[2]]
  <2>1. PICK next \in Missing(r[1], i, have) :
                 /\ run' = [run EXCEPT ![r] = [at |-> "chunk", i |-> next, try |-> 1, have |-> have]]
                 /\ requests' = q \cup {Request(r, "chunk", next, 1)}
                 /\ task' = [task EXCEPT ![r[1]].xhr = r[2]]
    BY <1>3
  <2>2. next \in Chunks /\ next \in Nat
    BY <1>1, JobFacts DEF Missing
  <2> DEFINE e == [at |-> "chunk", i |-> next, try |-> 1, have |-> have]
             req == Request(r, "chunk", next, 1)
  <2>3. 1 \in 0 .. MaxTries
    BY LimitAssumption
  <2>4. e \in RunSet /\ e.at = "chunk"
    BY <2>2, <2>3 DEF RunSet
  <2>5. WellFormed(req) /\ req.run = r /\ req.kind = "chunk" /\ Unsent(req)
    BY <2>2, RequestFacts DEF Unsent
  <2> HIDE DEF e, req
  <2>6. Sound(task, [run EXCEPT ![r] = e], q \cup {req})
    BY <1>1, <2>4, <2>5, RunSound
  <2>7. Sound([task EXCEPT ![r[1]].xhr = r[2]], [run EXCEPT ![r] = e], q \cup {req})
    BY <1>1, <2>6, FieldSound
  <2> QED BY <1>3, <2>1, <2>5, <2>7 DEF e, req
<1>4. CASE /\ running' = running
           /\ run' = [run EXCEPT ![r] = [Idle EXCEPT !.at = "merge"]]
           /\ requests' = q \cup {Request(r, "merge", 0, 1)}
           /\ task' = Shown(r[1], "saving")
  <2> DEFINE e == [Idle EXCEPT !.at = "merge"]
             req == Request(r, "merge", 0, 1)
  <2>1. e \in RunSet /\ e.at = "merge"
    BY <1>1, IdleFacts DEF Idle, RunSet
  <2>2. WellFormed(req) /\ req.run = r /\ req.kind = "merge" /\ Unsent(req)
    BY DEF Unsent, Request, WellFormed, RequestSet
  <2> HIDE DEF e, req
  <2>3. Sound(task, [run EXCEPT ![r] = e], q \cup {req})
    BY <1>1, <2>1, <2>2, RunSound
  <2>4. Sound(Shown(r[1], "saving"), [run EXCEPT ![r] = e], q \cup {req})
    BY <1>1, <2>3, FieldSound
  <2>5. run' = [run EXCEPT ![r] = e] /\ requests' = q \cup {req}
    BY <1>4 DEF e, req
  <2>6. Sound(task', run', requests')
    BY <1>4, <2>4, <2>5
  <2>7. running' \subseteq Tasks /\ \A p \in requests' : p \in q \/ Unsent(p)
    BY <1>4, <2>2, <2>5
  <2> QED BY <2>6, <2>7
<1>5. \/ task[r[1]].shown \in {"paused", "canceled"} /\ Return(r, TRUE, task, q)
      \/ /\ task[r[1]].shown \notin {"paused", "canceled"}
         /\ running' = running
         /\ \/ \E next \in Missing(r[1], i, have) :
                  /\ \A m \in Missing(r[1], i, have) : next <= m
                  /\ run' = [run EXCEPT ![r] = [at |-> "chunk", i |-> next, try |-> 1, have |-> have]]
                  /\ requests' = q \cup {Request(r, "chunk", next, 1)}
                  /\ task' = [task EXCEPT ![r[1]].xhr = r[2]]
            \/ /\ Missing(r[1], i, have) = {}
               /\ run' = [run EXCEPT ![r] = [Idle EXCEPT !.at = "merge"]]
               /\ requests' = q \cup {Request(r, "merge", 0, 1)}
               /\ task' = Shown(r[1], "saving")
  BY GoOnCases
<1> QED BY <1>2, <1>3, <1>4, <1>5

(* A chunk that fails is tried again, or its run returns.                  *)
LEMMA ChunkFailsSound ==
  ASSUME JobType, running \subseteq Tasks, NEW r \in Runs, NEW q, Sound(task, run, q), run[r].at = "chunk",
         Free(r, q), ChunkFails(r, q)
  PROVE  /\ Sound(task', run', requests') /\ running' \subseteq Tasks
         /\ \A o \in requests' : o \in q \/ Unsent(o)
<1>1. r[1] \in Tasks /\ Size[job[r[1]].file] # 1 /\ run[r] \in RunSet
  BY RunFacts DEF Sound, RunsOK
<1>2. CASE Return(r, TRUE, task, q)
  BY <1>2, ReturnSound
<1>3. CASE Return(r, FALSE, Failing(r[1]), q)
  BY <1>1, <1>3, FieldSound, ReturnSound
<1>4. CASE /\ run[r].try < MaxTries /\ run' = [run EXCEPT ![r].at = "wait"] /\ requests' = q
           /\ UNCHANGED <<task, running>>
  <2> DEFINE e == [run[r] EXCEPT !.at = "wait"]
  <2>1. e \in RunSet /\ e.at = "wait" /\ e.try < MaxTries
    BY <1>1, <1>4 DEF RunSet
  <2>2. run' = [run EXCEPT ![r] = e]
    BY <1>4
  <2> HIDE DEF e
  <2>3. Sound(task, [run EXCEPT ![r] = e], q)
    BY <1>1, <2>1, RunSound
  <2> QED BY <1>4, <2>2, <2>3
<1> QED BY <1>2, <1>3, <1>4 DEF ChunkFails

(* The answer to a request that is not broken off goes to its run.         *)
LEMMA AnswerSound ==
  ASSUME JobType, running \subseteq Tasks, NEW q \in requests, NEW others,
         Sound(task, run, requests), Sound(task, run, others), ~q.cut => Free(q.run, others),
         Succeeds(q, others) \/ Fails(q, others)
  PROVE  /\ Sound(task', run', requests') /\ running' \subseteq Tasks
         /\ \A o \in requests' : o \in others \/ Unsent(o)
<1> DEFINE r == q.run
<1>1. r \in Runs /\ q.kind \in {"chunk", "merge", "direct"} /\ r[1] \in Tasks
      /\ (~q.cut => run[r].at = q.kind)
  BY RunFacts DEF Sound, Lone, WellFormed, RequestSet
<1>2. CASE q.cut
  BY <1>2 DEF Succeeds, Fails
<1>3. CASE ~q.cut
  <2>1. Free(r, others) /\ run[r].at # "none" /\ run[r] \in RunSet
    BY <1>1, <1>3 DEF Sound, RunsOK
  <2>2. ASSUME NEW error, Return(r, error, task, others)
        PROVE  /\ Sound(task', run', requests') /\ running' \subseteq Tasks
               /\ \A o \in requests' : o \in others \/ Unsent(o)
    BY <1>1, <2>1, <2>2, ReturnSound
  <2>3. ASSUME NEW error, Return(r, error, Failing(r[1]), others)
        PROVE  /\ Sound(task', run', requests') /\ running' \subseteq Tasks
               /\ \A o \in requests' : o \in others \/ Unsent(o)
    BY <1>1, <2>1, <2>3, FieldSound, ReturnSound
  <2>4. ASSUME Return(r, FALSE, Shown(r[1], "done"), others)
        PROVE  /\ Sound(task', run', requests') /\ running' \subseteq Tasks
               /\ \A o \in requests' : o \in others \/ Unsent(o)
    BY <1>1, <2>1, <2>4, FieldSound, ReturnSound
  <2>5. ASSUME q.kind = "chunk", GoOn(r, run[r].i + 1, run[r].have \cup {run[r].i}, others)
        PROVE  /\ Sound(task', run', requests') /\ running' \subseteq Tasks
               /\ \A o \in requests' : o \in others \/ Unsent(o)
    <3>1. run[r].i \in Chunks /\ run[r].have \in SUBSET Chunks /\ run[r].i + 1 \in Nat
      BY <1>1, <2>1, JobFacts DEF RunSet
    <3> DEFINE have == run[r].have \cup {run[r].i}
    <3>2. have \in SUBSET Chunks
      BY <3>1
    <3> HIDE DEF have
    <3>3. GoOn(r, run[r].i + 1, have, others)
      BY <2>5 DEF have
    <3> QED BY <1>1, <1>3, <2>1, <2>5, <3>1, <3>2, <3>3, GoOnSound
  <2>6. ASSUME q.kind = "chunk", ChunkFails(r, others)
        PROVE  /\ Sound(task', run', requests') /\ running' \subseteq Tasks
               /\ \A o \in requests' : o \in others \/ Unsent(o)
    BY <1>1, <1>3, <2>1, <2>6, ChunkFailsSound
  <2> QED BY <1>3, <2>2, <2>3, <2>4, <2>5, <2>6 DEF Succeeds, Fails
<1> QED BY <1>2, <1>3

(* Requests that go on, or are broken off, are still those of their runs.  *)
LEMMA RewriteSound ==
  ASSUME NEW k, NEW u, NEW q, Sound(k, u, q), NEW F, NEW p, p = {F[o] : o \in q},
         \A o \in q : /\ WellFormed(F[o]) /\ F[o].run = o.run /\ F[o].kind = o.kind
                      /\ o.cut => F[o].cut
  PROVE  Sound(k, u, p)
BY DEF Sound, Lone

(* A request fewer leaves the rest as they were.                           *)
LEMMA FewerSound ==
  ASSUME NEW k, NEW u, NEW q, Sound(k, u, q), NEW p, p \subseteq q
  PROVE  Sound(k, u, p)
BY DEF Sound, Lone

(* A request that goes on.                                                 *)
Same(o, p) == o.run = p.run /\ o.kind = p.kind /\ o.cut = p.cut

(* What a step changes in a request leaves it well formed.                 *)
LEMMA EditFacts ==
  ASSUME NEW o, WellFormed(o)
  PROVE  /\ LET e == [o EXCEPT !.own = FALSE]
            IN WellFormed(e) /\ Same(e, o) /\ e.at = o.at /\ e.dest = o.dest /\ e.i = o.i
               /\ e.whole = o.whole /\ ~e.own
         /\ LET e == [o EXCEPT !.cut = TRUE]
            IN WellFormed(e) /\ e.run = o.run /\ e.kind = o.kind /\ e.at = o.at /\ e.dest = o.dest
               /\ e.i = o.i /\ e.whole = o.whole /\ e.own = o.own /\ e.cut
         /\ (IF o.kind = "chunk" THEN o.at = "sent" ELSE o.at = "chosen") =>
               LET e == [o EXCEPT !.at = "copy", !.own = TRUE]
               IN WellFormed(e) /\ Same(e, o) /\ e.at = "copy" /\ e.dest = o.dest /\ e.i = o.i
                  /\ e.whole = o.whole /\ e.own
BY DEF WellFormed, RequestSet, NameOf, Same

(* So does the choice of its destination.                                  *)
LEMMA ChosenFacts ==
  ASSUME NEW o, WellFormed(o), JobType, o.kind # "chunk", NEW m \in 0 .. MaxCopies
  PROVE  LET e == [o EXCEPT !.at = "chosen", !.dest = <<NameOf(o), m>>]
         IN WellFormed(e) /\ Same(e, o) /\ e.at = "chosen" /\ e.dest = <<NameOf(o), m>> /\ e.i = o.i
            /\ e.whole = o.whole /\ e.own = o.own
<1>1. o \in RequestSet /\ o.run[1] \in Tasks
  BY RunFacts DEF WellFormed, RequestSet
<1>2. <<NameOf(o), m>> \in Paths
  BY <1>1, JobFacts DEF NameOf, Paths
<1> QED BY <1>1, <1>2 DEF WellFormed, RequestSet, NameOf, Same

(* A handler goes on: its request is replaced by the one that goes on.     *)
LEMMA ReplaceSound ==
  ASSUME NEW k, NEW u, NEW q, Sound(k, u, q), NEW o \in q, NEW e, WellFormed(e), Same(e, o)
  PROVE  Sound(k, u, (q \ {o}) \cup {e})
BY DEF Sound, Lone, Same

(* Handlers whose file is truncated or removed lose it.                    *)
Disowned(q, S) == {IF p \in S THEN [p EXCEPT !.own = FALSE] ELSE p : p \in q}

(* Handlers lose their file ...                                            *)
LEMMA DisownSound ==
  ASSUME NEW k, NEW u, NEW q, Sound(k, u, q), NEW S
  PROVE  Sound(k, u, Disowned(q, S))
<1> DEFINE F == [o \in q |-> IF o \in S THEN [o EXCEPT !.own = FALSE] ELSE o]
<1>1. Disowned(q, S) = {F[o] : o \in q}
  BY DEF Disowned
<1>2. ASSUME NEW o \in q PROVE WellFormed(F[o]) /\ Same(F[o], o)
  <2>1. WellFormed(o)
    BY DEF Sound
  <2>2. CASE o \in S
    BY <2>1, <2>2, EditFacts
  <2>3. CASE o \notin S
    BY <2>1, <2>3 DEF Same
  <2> QED BY <2>2, <2>3
<1> HIDE DEF F
<1>3. \A o \in q : WellFormed(F[o]) /\ F[o].run = o.run /\ F[o].kind = o.kind /\ (o.cut => F[o].cut)
  BY <1>2 DEF Same
<1> QED BY <1>1, <1>3, RewriteSound

(* ... while another goes on.                                              *)
LEMMA DisownReplaceSound ==
  ASSUME NEW k, NEW u, NEW q, Sound(k, u, q), NEW o \in q, NEW e, WellFormed(e), Same(e, o), NEW S
  PROVE  Sound(k, u, Disowned(q \ {o}, S) \cup {e})
<1> DEFINE F == [p \in q |-> IF p = o THEN e ELSE IF p \in S THEN [p EXCEPT !.own = FALSE] ELSE p]
<1>1. Disowned(q \ {o}, S) \cup {e} = {F[p] : p \in q}
  BY DEF Disowned
<1>2. ASSUME NEW p \in q PROVE WellFormed(F[p]) /\ Same(F[p], p)
  <2>1. WellFormed(p)
    BY DEF Sound
  <2>2. CASE p # o /\ p \in S
    BY <2>1, <2>2, EditFacts
  <2>3. CASE p # o /\ p \notin S
    BY <2>1, <2>3 DEF Same
  <2>4. CASE p = o
    BY <2>4
  <2> QED BY <2>2, <2>3, <2>4
<1> HIDE DEF F
<1>3. \A p \in q : WellFormed(F[p]) /\ F[p].run = p.run /\ F[p].kind = p.kind /\ (p.cut => F[p].cut)
  BY <1>2 DEF Same
<1> QED BY <1>1, <1>3, RewriteSound

(* Connections break.                                                      *)
LEMMA CutSound ==
  ASSUME NEW k, NEW u, NEW q, Sound(k, u, q), NEW S
  PROVE  Sound(k, u, (q \ S) \cup {[o EXCEPT !.cut = TRUE] : o \in S \cap q})
<1> DEFINE F == [o \in q |-> IF o \in S THEN [o EXCEPT !.cut = TRUE] ELSE o]
<1>1. (q \ S) \cup {[o EXCEPT !.cut = TRUE] : o \in S \cap q} = {F[o] : o \in q}
  OBVIOUS
<1>2. ASSUME NEW o \in q
      PROVE  WellFormed(F[o]) /\ F[o].run = o.run /\ F[o].kind = o.kind /\ (o.cut => F[o].cut)
  <2>1. WellFormed(o)
    BY DEF Sound
  <2>2. CASE o \in S
    BY <2>1, <2>2, EditFacts
  <2>3. CASE o \notin S
    BY <2>1, <2>3
  <2> QED BY <2>2, <2>3
<1> HIDE DEF F
<1> QED BY <1>1, <1>2, RewriteSound

(***************************************************************************)
(* The steps of the browser.                                               *)
(***************************************************************************)
(* Requests that a step of the browser leaves.                             *)
Carries == \A o \in requests' : \/ Unsent(o)
                                \/ \E p \in requests : o = p \/ o = [p EXCEPT !.cut = TRUE]

(* What every step keeps of tasks, runs and requests.                      *)
Lively == Sound(task', run', requests') /\ running' \subseteq Tasks

(* The answer to getUploadedChunks, or its failure.                        *)
LEMMA ListedSound ==
  ASSUME UploadInv, NEW r \in Runs, Listed(r) PROVE Lively /\ Carries
<1>1. JobType /\ Sound(task, run, requests) /\ running \subseteq Tasks /\ run[r].at = "query"
  BY DEF UploadInv, JobType, Listed
<1>2. Free(r, requests)
  BY <1>1 DEF Free, Sound, Lone, WellFormed, RequestSet
<1>3. PICK have \in SUBSET Chunks : GoOn(r, 0, have, requests)
  <2> DEFINE h == {i \in Chunks : chunk[job[r[1]].file][i] # Nothing}
  <2>1. GoOn(r, 0, h, requests) \/ GoOn(r, 0, {}, requests)
    BY DEF Listed
  <2>2. h \in SUBSET Chunks /\ {} \in SUBSET Chunks
    OBVIOUS
  <2> HIDE DEF h
  <2> QED BY <2>1, <2>2
<1>4. Lively /\ \A o \in requests' : o \in requests \/ Unsent(o)
  BY <1>1, <1>2, <1>3, GoOnSound DEF Lively
<1> QED BY <1>4 DEF Carries

(* The wait before another attempt is over.                                *)
LEMMA WaitOverSound ==
  ASSUME UploadInv, NEW r \in Runs, WaitOver(r) PROVE Lively /\ Carries
<1>1. JobType /\ Sound(task, run, requests) /\ running \subseteq Tasks /\ run[r].at = "wait"
  BY DEF UploadInv, JobType, WaitOver
<1>2. Free(r, requests)
  BY <1>1 DEF Free, Sound, Lone, WellFormed, RequestSet
<1>3. r[1] \in Tasks /\ r[2] \in 0 .. MaxRuns /\ run[r] \in RunSet /\ run[r].try < MaxTries
      /\ Size[job[r[1]].file] # 1
  BY <1>1, RunFacts, BoundAssumption DEF Sound, RunsOK
<1>4. CASE Return(r, TRUE, task, requests)
  BY <1>1, <1>2, <1>4, ReturnSound DEF Lively, Carries
<1>5. CASE Return(r, FALSE, Failing(r[1]), requests)
  <2>1. Sound(Failing(r[1]), run, requests)
    BY <1>1, <1>3, FieldSound
  <2> QED BY <1>1, <1>2, <1>5, <2>1, ReturnSound DEF Lively, Carries
<1>6. CASE /\ run' = [run EXCEPT ![r].at = "chunk", ![r].try = @ + 1]
           /\ requests' = requests \cup {Request(r, "chunk", run[r].i, run[r].try + 1)}
           /\ task' = [task EXCEPT ![r[1]].xhr = r[2]]
           /\ UNCHANGED running
  <2> DEFINE e == [run[r] EXCEPT !.at = "chunk", !.try = @ + 1]
             req == Request(r, "chunk", run[r].i, run[r].try + 1)
  <2>1. run[r].try + 1 \in 0 .. MaxTries /\ run[r].i \in Chunks /\ run[r].i \in Nat
    BY <1>1, <1>3, JobFacts, LimitAssumption DEF RunSet
  <2>2. e \in RunSet /\ e.at = "chunk"
    BY <1>3, <2>1 DEF RunSet
  <2>3. WellFormed(req) /\ req.run = r /\ req.kind = "chunk" /\ Unsent(req)
    BY <2>1, RequestFacts DEF Unsent
  <2>4. run' = [run EXCEPT ![r] = e]
    BY <1>6
  <2> HIDE DEF e, req
  <2>5. Sound(task, [run EXCEPT ![r] = e], requests \cup {req})
    BY <1>1, <1>2, <1>3, <2>2, <2>3, RunSound
  <2>6. Sound([task EXCEPT ![r[1]].xhr = r[2]], [run EXCEPT ![r] = e], requests \cup {req})
    BY <1>3, <2>5, FieldSound
  <2> QED BY <1>1, <1>6, <2>3, <2>4, <2>6 DEF req, Lively, Carries
<1> QED BY <1>4, <1>5, <1>6 DEF WaitOver

(* What pausing or removing a task hands to the queue.                     *)
LEMMA StopQueue ==
  ASSUME UploadInv, NEW t \in Tasks, NEW status \in {"paused", "removed"},
         NEW shown \in {"paused", "canceled"}, Stop(t, status, shown)
  PROVE  LET k == [task EXCEPT ![t].status = status, ![t].shown = shown,
                               ![t].aborted = @ \/ task[t].status = "running"]
             n == IF task[t].status = "running" THEN running \ {t} ELSE running
             u == Over(Abort(t), status = "removed")
             q == CutOff(Abort(t))
         IN /\ Sound(k, u, q) /\ n \in SUBSET Tasks /\ ProcessQueue(k, n, u, q)
            /\ \A o \in q : \E p \in requests : o = p \/ o = [p EXCEPT !.cut = TRUE]
<1> DEFINE qs == Abort(t)
           k == [task EXCEPT ![t].status = status, ![t].shown = shown,
                             ![t].aborted = @ \/ task[t].status = "running"]
           e == [task[t] EXCEPT !.status = status, !.shown = shown,
                                !.aborted = @ \/ task[t].status = "running"]
           n == IF task[t].status = "running" THEN running \ {t} ELSE running
           u == Over(qs, status = "removed")
           q == CutOff(qs)
<1>1. JobType /\ Sound(task, run, requests) /\ running \subseteq Tasks
  BY DEF UploadInv, JobType
<1>2. RunsOK(task, run) /\ (\A o \in requests : WellFormed(o)) /\ Lone(run, requests)
  BY <1>1 DEF Sound
<1>3. ProcessQueue(k, n, u, q)
  BY DEF Stop
<1>4. n \in SUBSET Tasks
  BY <1>1
<1>5. task[t] \in TaskSet /\ task \in [Tasks -> TaskSet]
  BY <1>2 DEF RunsOK
<1>6. k = [task EXCEPT ![t] = e]
  BY <1>5
<1>7. e \in TaskSet /\ e.runs = task[t].runs /\ e.status = status
  <2>1. (task[t].aborted \/ task[t].status = "running") \in BOOLEAN
    BY <1>5 DEF TaskSet
  <2> QED BY <1>5, <2>1 DEF TaskSet, Statuses
<1>8. qs \subseteq requests /\ \A o \in qs : ~o.cut
  BY DEF Abort
<1> HIDE DEF k, e, n, qs
<1>9. q = (requests \ qs) \cup {[o EXCEPT !.cut = TRUE] : o \in qs \cap requests}
  BY <1>8 DEF CutOff
<1>10. Sound(task, run, q)
  <2>1. Sound(task, run, (requests \ qs) \cup {[o EXCEPT !.cut = TRUE] : o \in qs \cap requests})
    BY <1>1, CutSound
  <2> QED BY <1>9, <2>1
<1>11. \A o \in q : ~o.cut => o \in requests \ qs
  <2>1. ASSUME NEW o \in qs PROVE [o EXCEPT !.cut = TRUE].cut
    BY <1>2, <1>8, EditFacts
  <2> QED BY <2>1 DEF CutOff
<1>12. ASSUME NEW r \in Runs
       PROVE  /\ u[r] \in RunSet
              /\ \/ (\A o \in qs : o.run # r) /\ u[r] = run[r]
                 \/ run[r].at = "chunk" /\ u[r].at = "wait" /\ u[r].try < MaxTries
                 \/ run[r].at # "none" /\ u[r].at = "over"
  <2>1. run[r] \in RunSet /\ r[1] \in Tasks
    BY <1>2, RunFacts DEF RunsOK
  <2>2. u[r] = IF ~ \E o \in qs : o.run = r THEN run[r]
               ELSE IF status = "removed" /\ run[r].at = "chunk" /\ run[r].try < MaxTries
                    THEN [run[r] EXCEPT !.at = "wait"]
                    ELSE [Idle EXCEPT !.at = "over"]
    BY DEF Over
  <2>3. CASE ~ \E o \in qs : o.run = r
    BY <2>1, <2>2, <2>3
  <2>4. CASE /\ \E o \in qs : o.run = r
             /\ run[r].at = "chunk" /\ run[r].try < MaxTries /\ u[r] = [run[r] EXCEPT !.at = "wait"]
    BY <2>1, <2>4 DEF RunSet
  <2>5. CASE (\E o \in qs : o.run = r) /\ u[r] = [Idle EXCEPT !.at = "over"]
    <3>1. PICK o \in qs : o.run = r
      BY <2>5
    <3>2. run[r].at = o.kind /\ o.kind # "none"
      BY <1>2, <1>8, <3>1 DEF Lone, WellFormed, RequestSet
    <3>3. u[r] \in RunSet /\ u[r].at = "over"
      BY <1>1, <2>1, <2>5, IdleFacts
    <3> QED BY <3>2, <3>3
  <2> QED BY <2>2, <2>3, <2>4, <2>5
<1>13. u = [r \in Runs |-> u[r]]
  BY DEF Over
<1> HIDE DEF u, q
<1>14. u \in [Runs -> RunSet]
  BY <1>12, <1>13
<1>15. RunsOK(task, u)
  BY <1>2, <1>12, <1>14 DEF RunsOK
<1>16. Lone(u, q)
  <2>1. ASSUME NEW o \in q, ~o.cut PROVE u[o.run].at = o.kind
    <3>1. o \in requests \ qs /\ o.run \in Runs /\ run[o.run].at = o.kind
      BY <1>2, <1>11, <2>1 DEF Lone, WellFormed, RequestSet
    <3>2. \A p \in qs : p.run # o.run
      BY <1>2, <1>8, <2>1, <3>1 DEF Lone
    <3>3. u[o.run] = run[o.run] \/ \E p \in qs : p.run = o.run
      BY <3>1, <1>12, <1>13, <3>2 DEF u, Over
    <3> QED BY <3>1, <3>2, <3>3
  <2> QED BY <1>10, <2>1 DEF Sound, Lone
<1>17. Sound(task, u, q)
  BY <1>10, <1>15, <1>16 DEF Sound
<1>18. Sound(k, u, q)
  BY <1>6, <1>7, <1>17, TaskSound
<1>19. \A o \in q : \E p \in requests : o = p \/ o = [p EXCEPT !.cut = TRUE]
  BY <1>8, <1>9
<1> QED BY <1>3, <1>4, <1>18, <1>19 DEF k, n, u, q, qs

(* pauseTask and removeTask.                                               *)
LEMMA StopSound ==
  ASSUME UploadInv, NEW t \in Tasks, NEW status \in {"paused", "removed"},
         NEW shown \in {"paused", "canceled"}, Stop(t, status, shown)
  PROVE  Lively /\ Carries
<1> DEFINE k == [task EXCEPT ![t].status = status, ![t].shown = shown,
                             ![t].aborted = @ \/ task[t].status = "running"]
           n == IF task[t].status = "running" THEN running \ {t} ELSE running
           u == Over(Abort(t), status = "removed")
           q == CutOff(Abort(t))
<1>1. /\ Sound(k, u, q) /\ n \in SUBSET Tasks /\ ProcessQueue(k, n, u, q)
      /\ \A o \in q : \E p \in requests : o = p \/ o = [p EXCEPT !.cut = TRUE]
  BY StopQueue
<1>2. JobType
  BY DEF UploadInv, JobType
<1> HIDE DEF k, n, u, q
<1>3. Lively /\ \A o \in requests' : o \in q \/ Unsent(o)
  BY <1>1, <1>2, QueueSound DEF Lively
<1> QED BY <1>1, <1>3 DEF Carries

(* resumeTask and retryTask.                                               *)
LEMMA AgainSound ==
  ASSUME UploadInv, NEW t \in Tasks, ResumeTask(t) \/ RetryTask(t) PROVE Lively /\ Carries
<1>1. JobType /\ Sound(task, run, requests) /\ running \subseteq Tasks
  BY DEF UploadInv, JobType
<1>2. task[t] \in TaskSet /\ task \in [Tasks -> TaskSet]
  BY <1>1 DEF Sound, RunsOK
<1>3. PICK e \in TaskSet : /\ e.runs = task[t].runs /\ e.runs < MaxRuns
                           /\ ProcessQueue([task EXCEPT ![t] = e], running, run, requests)
  <2>1. CASE ResumeTask(t)
    <3> DEFINE e == [task[t] EXCEPT !.status = "pending", !.shown = "uploading", !.aborted = FALSE]
    <3>1. e \in TaskSet /\ e.runs = task[t].runs
      BY <1>2 DEF TaskSet, Statuses
    <3>2. [task EXCEPT ![t].status = "pending", ![t].shown = "uploading", ![t].aborted = FALSE]
              = [task EXCEPT ![t] = e]
      BY <1>2
    <3> HIDE DEF e
    <3> QED BY <2>1, <3>1, <3>2 DEF ResumeTask
  <2>2. CASE RetryTask(t)
    <3> DEFINE e == [task[t] EXCEPT !.status = "pending", !.shown = "uploading",
                                    !.failed = FALSE, !.aborted = FALSE]
    <3>1. e \in TaskSet /\ e.runs = task[t].runs
      BY <1>2 DEF TaskSet, Statuses
    <3>2. [task EXCEPT ![t].status = "pending", ![t].shown = "uploading",
                       ![t].failed = FALSE, ![t].aborted = FALSE]
              = [task EXCEPT ![t] = e]
      BY <1>2
    <3> HIDE DEF e
    <3> QED BY <2>2, <3>1, <3>2 DEF RetryTask
  <2> QED BY <2>1, <2>2
<1>4. Sound([task EXCEPT ![t] = e], run, requests)
  BY <1>1, <1>3, TaskSound
<1> QED BY <1>1, <1>3, <1>4, QueueSound DEF Lively, Carries

(* A connection breaks: its request is cut, and its run hears of a         *)
(* failure.                                                                *)
LEMMA LoseSound ==
  ASSUME UploadInv, NEW q \in requests, LoseConnection(q) PROVE Lively /\ Carries
<1>1. JobType /\ Sound(task, run, requests) /\ running \subseteq Tasks /\ ~q.cut
  BY DEF UploadInv, JobType, LoseConnection
<1> DEFINE others == CutOff({q})
<1>2. others = (requests \ {q}) \cup {[o EXCEPT !.cut = TRUE] : o \in {q} \cap requests}
  BY DEF CutOff
<1>3. Sound(task, run, others)
  <2>1. Sound(task, run, (requests \ {q}) \cup {[o EXCEPT !.cut = TRUE] : o \in {q} \cap requests})
    BY <1>1, CutSound
  <2> QED BY <1>2, <2>1
<1>4. Free(q.run, others)
  <2>1. [q EXCEPT !.cut = TRUE].cut
    BY <1>1, EditFacts DEF Sound
  <2>2. \A o \in requests \ {q} : o.run = q.run => o.cut
    BY <1>1 DEF Sound, Lone
  <2> QED BY <2>1, <2>2 DEF Free, CutOff
<1>5. Fails(q, others)
  BY DEF LoseConnection
<1>6. \A o \in others : \E p \in requests : o = p \/ o = [p EXCEPT !.cut = TRUE]
  BY <1>2
<1> HIDE DEF others
<1>7. Lively /\ \A o \in requests' : o \in others \/ Unsent(o)
  BY <1>1, <1>3, <1>4, <1>5, AnswerSound DEF Lively
<1> QED BY <1>6, <1>7 DEF Carries

(***************************************************************************)
(* The steps of the handlers.                                              *)
(***************************************************************************)
(* A request that a step leaves, and the one it was: nothing but own and   *)
(* cut change.                                                             *)
Descends(o, p) == /\ o.run = p.run /\ o.kind = p.kind /\ o.at = p.at /\ o.dest = p.dest
                  /\ o.i = p.i /\ o.whole = p.whole /\ (o.own => p.own) /\ (p.cut => o.cut)

(* What cutting and disowning leave descends from what was there.          *)
LEMMA DescendsFacts ==
  ASSUME NEW q, \A o \in q : WellFormed(o)
  PROVE  /\ \A o \in q : Descends(o, o) /\ Descends([o EXCEPT !.cut = TRUE], o)
         /\ \A S : \A o \in Disowned(q, S) :
                \E p \in q : /\ Descends(o, p) /\ o.cut = p.cut
                            /\ IF p \in S THEN ~o.own ELSE o = p
<1>1. \A o \in q : Descends(o, o) /\ Descends([o EXCEPT !.cut = TRUE], o)
  BY EditFacts DEF Descends
<1>2. ASSUME NEW o \in q
      PROVE  LET e == [o EXCEPT !.own = FALSE] IN Descends(e, o) /\ e.cut = o.cut /\ ~e.own
  <2> DEFINE e == [o EXCEPT !.own = FALSE]
  <2>1. Same(e, o) /\ e.at = o.at /\ e.dest = o.dest /\ e.i = o.i /\ e.whole = o.whole /\ ~e.own
    BY EditFacts
  <2> HIDE DEF e
  <2>2. Descends(e, o) /\ e.cut = o.cut /\ ~e.own
    BY <2>1 DEF Descends, Same
  <2> QED BY <2>2 DEF e
<1>3. ASSUME NEW S, NEW o \in Disowned(q, S)
      PROVE  \E p \in q : /\ Descends(o, p) /\ o.cut = p.cut
                          /\ IF p \in S THEN ~o.own ELSE o = p
  <2>1. PICK p \in q : o = IF p \in S THEN [p EXCEPT !.own = FALSE] ELSE p
    BY DEF Disowned
  <2>2. CASE p \in S
    BY <1>2, <2>1, <2>2
  <2>3. CASE p \notin S
    BY <1>1, <2>1, <2>3
  <2> QED BY <2>2, <2>3
<1> QED BY <1>1, <1>3

(* A handler's answer, when others than q are left.                        *)
LEMMA HandlerSound ==
  ASSUME UploadInv, NEW q \in requests, Succeeds(q, requests \ {q}) \/ Fails(q, requests \ {q})
  PROVE  Lively /\ \A o \in requests' : o \in requests \ {q} \/ Unsent(o)
<1>1. JobType /\ Sound(task, run, requests) /\ running \subseteq Tasks
  BY DEF UploadInv, JobType
<1>2. Sound(task, run, requests \ {q})
  BY <1>1, FewerSound
<1>3. ~q.cut => Free(q.run, requests \ {q})
  BY <1>1 DEF Sound, Lone, Free
<1> DEFINE others == requests \ {q}
<1> HIDE DEF others
<1>4. Sound(task, run, others) /\ (~q.cut => Free(q.run, others)) /\ (Succeeds(q, others) \/ Fails(q, others))
  BY <1>2, <1>3 DEF others
<1>5. Lively /\ \A o \in requests' : o \in others \/ Unsent(o)
  BY <1>1, <1>4, AnswerSound DEF Lively
<1> QED BY <1>5 DEF others

(* os.Create of a chunk: the handlers that wrote it lose it.               *)
LEMMA CreateChunkSound ==
  ASSUME UploadInv, NEW q \in requests, CreateChunk(q)
  PROVE  LET e == [q EXCEPT !.at = "copy", !.own = TRUE]
         IN /\ Lively
            /\ requests' = Disowned(requests \ {q}, {p \in requests : SameChunk(q, p)}) \cup {e}
            /\ WellFormed(e) /\ Same(e, q) /\ e.at = "copy" /\ e.i = q.i /\ e.dest = q.dest /\ e.own
<1> DEFINE e == [q EXCEPT !.at = "copy", !.own = TRUE]
           S == {p \in requests : SameChunk(q, p)}
<1>1. Sound(task, run, requests) /\ running \subseteq Tasks /\ WellFormed(q)
  BY DEF UploadInv, Sound
<1>2. WellFormed(e) /\ Same(e, q) /\ e.at = "copy" /\ e.i = q.i /\ e.dest = q.dest /\ e.own
  BY <1>1, EditFacts DEF CreateChunk
<1>3. requests' = Disowned(requests \ {q}, S) \cup {e}
  <2>1. Disowned(requests \ {q}, S) = {IF SameChunk(q, p) THEN [p EXCEPT !.own = FALSE] ELSE p :
                                            p \in requests \ {q}}
    BY DEF Disowned
  <2> QED BY <2>1 DEF CreateChunk
<1> HIDE DEF e, S
<1>4. Sound(task, run, requests')
  BY <1>1, <1>2, <1>3, DisownReplaceSound
<1>5. Lively
  BY <1>1, <1>4 DEF CreateChunk, Lively
<1> QED BY <1>2, <1>3, <1>5 DEF e, S

(* The name is chosen: the file under it is removed, if a direct upload    *)
(* replaces it.                                                            *)
LEMMA ChooseNameSound ==
  ASSUME UploadInv, NEW q \in requests, ChooseName(q)
  PROVE  \E m \in 0 .. MaxCopies :
           LET e == [q EXCEPT !.at = "chosen", !.dest = <<NameOf(q), m>>]
           IN /\ Lively
              /\ WellFormed(e) /\ Same(e, q) /\ e.at = "chosen" /\ e.dest = <<NameOf(q), m>>
              /\ e.i = q.i /\ e.whole = q.whole /\ e.own = q.own
              /\ \/ /\ job[q.run[1]].replace /\ m = 0
                    /\ requests' = Disowned(requests \ {q}, {p \in requests : p.dest = e.dest}) \cup {e}
                    /\ file' = [file EXCEPT ![e.dest] = Nothing]
                 \/ /\ requests' = (requests \ {q}) \cup {e} /\ file' = file
                    /\ (job[q.run[1]].replace /\ m = 0) \/ (~job[q.run[1]].replace /\ file[e.dest] = Nothing)
<1>1. JobType /\ Sound(task, run, requests) /\ running \subseteq Tasks /\ WellFormed(q) /\ q.kind # "chunk"
  BY DEF UploadInv, Sound, JobType, ChooseName
<1> DEFINE e(m) == [q EXCEPT !.at = "chosen", !.dest = <<NameOf(q), m>>]
<1>2. ASSUME NEW m \in 0 .. MaxCopies
      PROVE  /\ WellFormed(e(m)) /\ Same(e(m), q) /\ e(m).at = "chosen" /\ e(m).dest = <<NameOf(q), m>>
             /\ e(m).i = q.i /\ e(m).whole = q.whole /\ e(m).own = q.own
  BY <1>1, ChosenFacts
<1>3. 0 \in 0 .. MaxCopies /\ UNCHANGED <<task, run, running>>
  <2>1. UNCHANGED <<task, run, running>>
    BY DEF ChooseName
  <2> QED BY <2>1, BoundAssumption
<1>4. ASSUME NEW m \in 0 .. MaxCopies, requests' = (requests \ {q}) \cup {e(m)} PROVE Lively
  <2> HIDE DEF e
  <2>1. Sound(task, run, requests')
    BY <1>1, <1>2, <1>4, ReplaceSound
  <2> QED BY <1>1, <1>3, <2>1 DEF Lively
<1>5. CASE /\ job[q.run[1]].replace /\ q.kind = "direct"
           /\ file' = [file EXCEPT ![<<NameOf(q), 0>>] = Nothing]
           /\ requests' = {IF o.dest = <<NameOf(q), 0>> THEN [o EXCEPT !.own = FALSE] ELSE o :
                               o \in requests \ {q}} \cup {e(0)}
  <2> DEFINE S == {p \in requests : p.dest = e(0).dest}
  <2>1. requests' = Disowned(requests \ {q}, S) \cup {e(0)}
    <3>1. S = {p \in requests : p.dest = <<NameOf(q), 0>>}
      BY <1>2, <1>3
    <3>2. Disowned(requests \ {q}, S) = {IF o.dest = <<NameOf(q), 0>> THEN [o EXCEPT !.own = FALSE] ELSE o :
                               o \in requests \ {q}}
      BY <3>1 DEF Disowned
    <3> QED BY <1>5, <3>2
  <2>2. file' = [file EXCEPT ![e(0).dest] = Nothing]
    BY <1>2, <1>3, <1>5
  <2> HIDE DEF S
  <2>3. Lively
    <3> HIDE DEF e
    <3>1. Sound(task, run, requests')
      BY <1>1, <1>2, <1>3, <2>1, DisownReplaceSound
    <3> QED BY <1>1, <1>3, <3>1 DEF Lively
  <2> QED BY <1>2, <1>3, <1>5, <2>1, <2>2, <2>3 DEF S
<1>6. CASE /\ job[q.run[1]].replace /\ requests' = (requests \ {q}) \cup {e(0)} /\ file' = file
  BY <1>2, <1>3, <1>4, <1>6
<1>7. CASE ~job[q.run[1]].replace /\ file' = file
           /\ \E m \in Unique(job[q.run[1]].name) : requests' = (requests \ {q}) \cup {e(m)}
  <2>1. PICK m \in Unique(job[q.run[1]].name) : requests' = (requests \ {q}) \cup {e(m)}
    BY <1>7
  <2>2. m \in 0 .. MaxCopies /\ file[<<NameOf(q), m>>] = Nothing
    BY <2>1 DEF Unique, NameOf
  <2>3. file[e(m).dest] = Nothing
    BY <1>2, <2>2
  <2> QED BY <1>2, <1>4, <1>7, <2>1, <2>2, <2>3
<1> QED BY <1>5, <1>6, <1>7 DEF ChooseName, NameOf

(* The file is created.                                                    *)
LEMMA CreateFileSound ==
  ASSUME UploadInv, NEW q \in requests, CreateFile(q)
  PROVE  LET e == [q EXCEPT !.at = "copy", !.own = TRUE]
         IN /\ Lively /\ requests' = (requests \ {q}) \cup {e}
            /\ WellFormed(e) /\ Same(e, q) /\ e.at = "copy" /\ e.i = q.i /\ e.whole = q.whole
            /\ e.dest = q.dest /\ e.own
            /\ q.kind # "chunk" /\ \E m \in 0 .. MaxCopies : q.dest = <<NameOf(q), m>>
<1> DEFINE e == [q EXCEPT !.at = "copy", !.own = TRUE]
<1>1. Sound(task, run, requests) /\ running \subseteq Tasks /\ WellFormed(q) /\ q.at = "chosen"
  BY DEF UploadInv, Sound, CreateFile
<1>2. q.kind # "chunk" /\ \E m \in 0 .. MaxCopies : q.dest = <<NameOf(q), m>>
  BY <1>1 DEF WellFormed
<1>3. WellFormed(e) /\ Same(e, q) /\ e.at = "copy" /\ e.i = q.i /\ e.whole = q.whole
      /\ e.dest = q.dest /\ e.own
  BY <1>1, <1>2, EditFacts
<1>4. requests' = (requests \ {q}) \cup {e}
  BY DEF CreateFile
<1> HIDE DEF e
<1>5. Sound(task, run, requests')
  BY <1>1, <1>3, <1>4, ReplaceSound
<1>6. Lively
  BY <1>1, <1>5 DEF CreateFile, Lively
<1> QED BY <1>2, <1>3, <1>4, <1>6 DEF e

(* A chunk is appended.                                                    *)
LEMMA AppendChunkSound ==
  ASSUME UploadInv, NEW q \in requests, AppendChunk(q)
  PROVE  \E e : /\ Lively /\ requests' = (requests \ {q}) \cup {e}
                /\ WellFormed(e) /\ Same(e, q) /\ e.at = "copy" /\ e.i = q.i + 1
                /\ e.whole = (q.whole /\ chunk[FileOf(q)][q.i] = "whole")
                /\ e.dest = q.dest /\ e.own = q.own
<1> DEFINE w == q.whole /\ chunk[FileOf(q)][q.i] = "whole"
           e == [q EXCEPT !.i = q.i + 1, !.whole = w]
<1>1. Sound(task, run, requests) /\ running \subseteq Tasks /\ WellFormed(q) /\ q.kind = "merge"
      /\ q.i \in Nat /\ q.at = "copy"
  BY DEF UploadInv, Sound, AppendChunk, WellFormed, RequestSet
<1>2. requests' = (requests \ {q}) \cup {e}
  BY DEF AppendChunk
<1>3. w \in BOOLEAN /\ q.i + 1 \in Nat
  BY <1>1
<1> HIDE DEF w
<1>4. WellFormed(e) /\ Same(e, q) /\ e.at = q.at /\ e.i = q.i + 1 /\ e.whole = w
      /\ e.dest = q.dest /\ e.own = q.own
  <2>1. ASSUME NEW i \in Nat, NEW v \in BOOLEAN
        PROVE  LET f == [q EXCEPT !.i = i, !.whole = v]
               IN WellFormed(f) /\ Same(f, q) /\ f.at = q.at /\ f.dest = q.dest /\ f.i = i
                  /\ f.whole = v /\ f.own = q.own
    <3> DEFINE f == [q EXCEPT !.i = i, !.whole = v]
    <3>1. q \in RequestSet
      BY <1>1 DEF WellFormed
    <3>2. f \in RequestSet
      BY <3>1 DEF RequestSet
    <3>3. Same(f, q) /\ f.at = q.at /\ f.dest = q.dest /\ f.i = i /\ f.own = q.own /\ f.whole = v
      BY <3>1 DEF RequestSet, Same
    <3>4. WellFormed(f)
      BY <1>1, <3>2, <3>3 DEF WellFormed, NameOf, Same
    <3> QED BY <3>3, <3>4
  <2> QED BY <1>3, <2>1, Zenon
<1> HIDE DEF e
<1>5. Sound(task, run, requests')
  BY <1>1, <1>2, <1>4, ReplaceSound
<1>6. Lively
  BY <1>1, <1>5 DEF AppendChunk, Lively
<1> QED BY <1>1, <1>2, <1>4, <1>6 DEF w

(* The directory of the chunks is removed, and the browser hears that the  *)
(* merge is done.                                                          *)
LEMMA MergedSound ==
  ASSUME UploadInv, NEW q \in requests, Merged(q)
  PROVE  LET S == {p \in requests : p.kind = "chunk" /\ FileOf(p) = FileOf(q)}
         IN /\ Lively /\ Succeeds(q, Disowned(requests \ {q}, S))
            /\ \A o \in requests' : o \in Disowned(requests \ {q}, S) \/ Unsent(o)
<1> DEFINE S == {p \in requests : p.kind = "chunk" /\ FileOf(p) = FileOf(q)}
           others == Disowned(requests \ {q}, S)
<1>1. JobType /\ Sound(task, run, requests) /\ running \subseteq Tasks
  BY DEF UploadInv, JobType
<1>2. others = {IF p.kind = "chunk" /\ FileOf(p) = FileOf(q)
                THEN [p EXCEPT !.own = FALSE] ELSE p : p \in requests \ {q}}
  BY DEF Disowned
<1>3. Succeeds(q, others)
  BY <1>2 DEF Merged
<1>4. Sound(task, run, requests \ {q})
  BY <1>1, FewerSound
<1>5. Sound(task, run, others)
  BY <1>4, DisownSound
<1>6. ~q.cut => Free(q.run, others)
  <2>1. \A o \in requests \ {q} : WellFormed(o)
    BY <1>1 DEF Sound
  <2>2. \A o \in others : \E p \in requests \ {q} : o.run = p.run /\ o.cut = p.cut
    BY <2>1, DescendsFacts DEF Descends
  <2> QED BY <1>1, <2>2 DEF Sound, Lone, Free
<1> HIDE DEF others
<1>7. Lively /\ \A o \in requests' : o \in others \/ Unsent(o)
  BY <1>1, <1>3, <1>5, <1>6, AnswerSound DEF Lively
<1> QED BY <1>3, <1>7 DEF others

(***************************************************************************)
(* What a step does to the files and to the requests.                      *)
(***************************************************************************)
(* A request of the next state has just been made, or goes on with the     *)
(* same file, or has just chosen one: one that may be replaced, or a free  *)
(* name.                                                                   *)
Follows(o) ==
    \/ Unsent(o)
    \/ \E p \in requests :
          /\ o.dest = p.dest
          /\ \/ o.kind = "chunk"
             \/ o.kind = p.kind /\ o.at = p.at /\ (o.own => p.own)
             \/ file'[o.dest] # Nothing
    \/ /\ o.at = "chosen" /\ o.kind # "chunk"
       /\ \/ job[o.run[1]].replace /\ o.dest = <<NameOf(o), 0>>
          \/ file' = file /\ file[o.dest] = Nothing

(* A step leaves the files alone, or writes to the one a request has       *)
(* chosen, or removes one that is to be replaced.                          *)
FileStep ==
    \/ file' = file
    \/ \E q \in requests, v \in [Chunks -> Contents] \ {Old} :
          q.dest \in Paths /\ file' = [file EXCEPT ![q.dest] = v]
    \/ \E q \in requests :
          /\ job[q.run[1]].replace
          /\ file' = [file EXCEPT ![<<NameOf(q), 0>>] = Nothing]
          /\ \A o \in requests' : o.dest = <<NameOf(q), 0>> => ~o.own \/ o.at = "chosen"

(* The chunk files keep their type.                                        *)
ChunkType == chunk' \in [Files -> [Chunks -> {"part", "whole", Nothing}]]

(* What every step does, as far as types and old files are concerned.      *)
Stepped == Lively /\ ChunkType /\ FileStep /\ \A o \in requests' : Follows(o)

(* The types of what a request names.                                      *)
LEMMA RequestTypes ==
  ASSUME UploadInv, NEW q \in requests
  PROVE  /\ WellFormed(q) /\ q.run \in Runs /\ q.run[1] \in Tasks /\ FileOf(q) \in Files
         /\ NameOf(q) \in Names /\ <<NameOf(q), 0>> \in Paths
         /\ q.kind # "chunk" /\ q.at # "sent" => q.dest \in Paths
<1>1. WellFormed(q) /\ q.run \in Runs /\ q.run[1] \in Tasks /\ q.at \in {"sent", "chosen", "copy"}
  BY RunFacts DEF UploadInv, Sound, WellFormed, RequestSet
<1>2. FileOf(q) \in Files /\ NameOf(q) \in Names
  BY <1>1, JobFacts DEF UploadInv, JobType, FileOf, NameOf
<1>3. <<NameOf(q), 0>> \in Paths
  BY <1>2, BoundAssumption DEF Paths
<1>4. ASSUME q.kind # "chunk", q.at # "sent" PROVE q.dest \in Paths
  BY <1>1, <1>2, <1>4 DEF WellFormed, Paths
<1> QED BY <1>1, <1>2, <1>3, <1>4

(* A step of the browser.                                                  *)
LEMMA BrowserStepped ==
  ASSUME UploadInv, UNCHANGED <<chunk, file>>, Lively, Carries PROVE Stepped
<1>1. ASSUME NEW o \in requests' PROVE Follows(o)
  <2>1. CASE Unsent(o)
    BY <2>1 DEF Follows
  <2>2. ASSUME NEW p \in requests, o = p \/ o = [p EXCEPT !.cut = TRUE] PROVE Follows(o)
    <3>1. WellFormed(p)
      BY RequestTypes
    <3>2. CASE o = [p EXCEPT !.cut = TRUE]
      <4>1. o.dest = p.dest /\ o.kind = p.kind /\ o.at = p.at /\ o.own = p.own
        BY <3>1, <3>2, EditFacts
      <4> QED BY <4>1 DEF Follows
    <3>3. CASE o = p
      BY <3>3 DEF Follows
    <3> QED BY <2>2, <3>2, <3>3
  <2> QED BY <2>1, <2>2 DEF Carries
<1>2. ChunkType
  BY DEF ChunkType, UploadInv, DiskOK
<1> QED BY <1>1, <1>2 DEF Stepped, FileStep

(* The first start of the queue.                                           *)
LEMMA AddStepped == ASSUME UploadInv, Add PROVE Stepped
<1>1. JobType /\ Sound(task, run, requests) /\ running \in SUBSET Tasks
      /\ ProcessQueue(task, running, run, requests)
  BY DEF UploadInv, JobType, Add
<1>2. Lively /\ Carries
  BY <1>1, QueueSound DEF Lively, Carries
<1> QED BY <1>2, BrowserStepped DEF Add

(* A request that never arrives.                                           *)
LEMMA NeverArrivesStepped ==
  ASSUME UploadInv, NEW q \in requests, NeverArrives(q) PROVE Stepped
<1>1. requests' \subseteq requests /\ running \subseteq Tasks /\ Sound(task, run, requests)
  BY DEF UploadInv, NeverArrives
<1>2. Sound(task, run, requests')
  BY <1>1, FewerSound
<1>3. Lively /\ Carries
  BY <1>1, <1>2 DEF Lively, Carries, NeverArrives
<1> QED BY <1>3, BrowserStepped DEF NeverArrives

(* What a handler's answer leaves.                                         *)
LEMMA RestFollows ==
  ASSUME UploadInv, NEW o, o \in requests \/ Unsent(o) PROVE Follows(o)
BY DEF Follows

(* One chunk file changes.                                                 *)
LEMMA ChunkTyped ==
  ASSUME UploadInv, NEW q \in requests, q.i \in Chunks, NEW v \in {"part", "whole", Nothing}
  PROVE  [chunk EXCEPT ![FileOf(q)][q.i] = v] \in [Files -> [Chunks -> {"part", "whole", Nothing}]]
BY RequestTypes DEF UploadInv, DiskOK

(* The steps of uploadChunkHandler, and a merge that misses a chunk, leave *)
(* the files alone.                                                        *)
LEMMA ChunkStepped ==
  ASSUME UploadInv, NEW q \in requests,
         CreateChunk(q) \/ ChunkSaved(q) \/ ChunkBreaks(q) \/ MissingChunk(q) \/ CreateFails(q)
  PROVE  Stepped
<1>1. WellFormed(q) /\ (q.kind = "chunk" => q.i \in Chunks)
      /\ chunk \in [Files -> [Chunks -> {"part", "whole", Nothing}]]
  BY RequestTypes DEF WellFormed, UploadInv, DiskOK
<1>2. CASE CreateChunk(q)
  <2> DEFINE S == {p \in requests : SameChunk(q, p)}
             e == [q EXCEPT !.at = "copy", !.own = TRUE]
  <2>1. /\ Lively /\ requests' = Disowned(requests \ {q}, S) \cup {e}
        /\ Same(e, q) /\ e.dest = q.dest
    BY <1>2, CreateChunkSound
  <2> HIDE DEF S, e
  <2>2. Follows(e)
    BY <1>2, <2>1 DEF Follows, Same, CreateChunk
  <2>3. ASSUME NEW o \in Disowned(requests \ {q}, S) PROVE Follows(o)
    <3>1. \A p \in requests \ {q} : WellFormed(p)
      BY RequestTypes
    <3>2. \E p \in requests \ {q} : Descends(o, p)
      BY <3>1, DescendsFacts
    <3> QED BY <3>2 DEF Follows, Descends
  <2>4. chunk' = [chunk EXCEPT ![FileOf(q)][q.i] = "part"] /\ file' = file
    BY <1>2 DEF CreateChunk
  <2>5. ChunkType
    BY <1>1, <1>2, <2>4, ChunkTyped DEF ChunkType, CreateChunk
  <2> QED BY <2>1, <2>2, <2>3, <2>4, <2>5 DEF Stepped, FileStep
<1>3. CASE ChunkSaved(q) \/ ChunkBreaks(q) \/ MissingChunk(q) \/ CreateFails(q)
  <2>1. (Succeeds(q, requests \ {q}) \/ Fails(q, requests \ {q})) /\ file' = file
    BY <1>3 DEF ChunkSaved, ChunkBreaks, MissingChunk, CreateFails
  <2>2. Lively /\ \A o \in requests' : o \in requests \ {q} \/ Unsent(o)
    BY <2>1, HandlerSound
  <2>3. \A o \in requests' : Follows(o)
    BY <2>2, RestFollows
  <2>4. ChunkType
    <3>1. chunk' = chunk \/ (q.kind = "chunk" /\ chunk' = [chunk EXCEPT ![FileOf(q)][q.i] = "whole"])
      BY <1>3 DEF ChunkSaved, ChunkBreaks, MissingChunk, CreateFails
    <3> QED BY <1>1, <3>1, ChunkTyped DEF ChunkType
  <2> QED BY <2>1, <2>2, <2>3, <2>4 DEF Stepped, FileStep
<1> QED BY <1>2, <1>3

(* The end of a merge leaves the files alone.                              *)
LEMMA MergedStepped == ASSUME UploadInv, NEW q \in requests, Merged(q) PROVE Stepped
<1> DEFINE S == {p \in requests : p.kind = "chunk" /\ FileOf(p) = FileOf(q)}
<1>1. Lively /\ \A o \in requests' : o \in Disowned(requests \ {q}, S) \/ Unsent(o)
  BY MergedSound
<1> HIDE DEF S
<1>2. ASSUME NEW o \in Disowned(requests \ {q}, S) PROVE Follows(o)
  <2>1. \A p \in requests \ {q} : WellFormed(p)
    BY RequestTypes
  <2>2. \E p \in requests \ {q} : Descends(o, p)
    BY <2>1, DescendsFacts
  <2> QED BY <2>2 DEF Follows, Descends
<1>3. \A o \in requests' : Follows(o)
  BY <1>1, <1>2 DEF Follows
<1>4. ChunkType
  BY RequestTypes DEF Merged, ChunkType, UploadInv, DiskOK
<1>5. file' = file
  BY DEF Merged
<1> QED BY <1>1, <1>3, <1>4, <1>5 DEF Stepped, FileStep

(* A name that is chosen is free, or its file is to be replaced.           *)
LEMMA ChooseNameStepped == ASSUME UploadInv, NEW q \in requests, ChooseName(q) PROVE Stepped
<1>1. PICK m \in 0 .. MaxCopies :
         LET e == [q EXCEPT !.at = "chosen", !.dest = <<NameOf(q), m>>]
         IN /\ Lively
            /\ WellFormed(e) /\ Same(e, q) /\ e.at = "chosen" /\ e.dest = <<NameOf(q), m>>
            /\ e.i = q.i /\ e.whole = q.whole /\ e.own = q.own
            /\ \/ /\ job[q.run[1]].replace /\ m = 0
                  /\ requests' = Disowned(requests \ {q}, {p \in requests : p.dest = e.dest}) \cup {e}
                  /\ file' = [file EXCEPT ![e.dest] = Nothing]
               \/ /\ requests' = (requests \ {q}) \cup {e} /\ file' = file
                  /\ (job[q.run[1]].replace /\ m = 0) \/ (~job[q.run[1]].replace /\ file[e.dest] = Nothing)
  BY ChooseNameSound
<1> DEFINE e == [q EXCEPT !.at = "chosen", !.dest = <<NameOf(q), m>>]
           S == {p \in requests : p.dest = e.dest}
<1>2. /\ Lively /\ Same(e, q) /\ e.at = "chosen" /\ e.dest = <<NameOf(q), m>> /\ q.kind # "chunk"
      /\ UNCHANGED chunk
  BY <1>1 DEF ChooseName
<1>3. \/ /\ job[q.run[1]].replace /\ m = 0
         /\ requests' = Disowned(requests \ {q}, S) \cup {e}
         /\ file' = [file EXCEPT ![e.dest] = Nothing]
      \/ /\ requests' = (requests \ {q}) \cup {e} /\ file' = file
         /\ (job[q.run[1]].replace /\ m = 0) \/ (~job[q.run[1]].replace /\ file[e.dest] = Nothing)
  BY <1>1
<1>4. \A p \in S : p.dest = e.dest
  OBVIOUS
<1>4a. \A p \in requests : p.dest = e.dest => p \in S
  OBVIOUS
<1> HIDE DEF e, S
<1>5. Follows(e)
  BY <1>2, <1>3 DEF Follows, Same, NameOf
<1>6. ChunkType
  BY <1>2 DEF ChunkType, UploadInv, DiskOK
<1>7. CASE /\ requests' = (requests \ {q}) \cup {e} /\ file' = file
  BY <1>2, <1>5, <1>6, <1>7, RestFollows DEF Stepped, FileStep
<1>8. CASE /\ job[q.run[1]].replace /\ m = 0
           /\ requests' = Disowned(requests \ {q}, S) \cup {e}
           /\ file' = [file EXCEPT ![e.dest] = Nothing]
  <2>1. \A p \in requests \ {q} : WellFormed(p)
    BY RequestTypes
  <2>2. ASSUME NEW o \in Disowned(requests \ {q}, S)
        PROVE  \E p \in requests \ {q} : Descends(o, p) /\ (IF p \in S THEN ~o.own ELSE o = p)
    BY <2>1, DescendsFacts
  <2>3. ASSUME NEW o \in Disowned(requests \ {q}, S)
        PROVE  Follows(o) /\ (o.dest = e.dest => ~o.own)
    BY <1>4a, <2>2 DEF Follows, Descends
  <2>4. FileStep
    BY <1>2, <1>8, <2>3 DEF FileStep
  <2> QED BY <1>2, <1>5, <1>6, <1>8, <2>3, <2>4 DEF Stepped
<1> QED BY <1>3, <1>7, <1>8

(* A file that has just been created is not an old one, and no content is  *)
(* Nothing.                                                                *)
LEMMA Fresh ==
  ASSUME NEW t \in Tasks, JobType
  PROVE  /\ Empty \in [Chunks -> Contents] \ {Old} /\ Old # Nothing
         /\ \A v \in [Chunks -> Contents] : v # Nothing
         /\ \A p \in Paths : p # Nothing
<1>1. 0 \in Chunks
  BY JobFacts
<1>2. Empty \in [Chunks -> Contents] /\ Old \in [Chunks -> Contents]
  BY DEF Empty, Old, Contents
<1>3. Empty[0] = Nothing /\ Old[0] = <<Other, TRUE>>
  BY <1>1 DEF Empty, Old
<1> QED BY <1>2, <1>3, NothingAssumption

(* The created file is that of a chosen name.                              *)
LEMMA CreateFileStepped == ASSUME UploadInv, NEW q \in requests, CreateFile(q) PROVE Stepped
<1> DEFINE e == [q EXCEPT !.at = "copy", !.own = TRUE]
<1>1. /\ Lively /\ requests' = (requests \ {q}) \cup {e}
      /\ Same(e, q) /\ e.at = "copy" /\ e.dest = q.dest /\ q.kind # "chunk"
  BY CreateFileSound
<1> HIDE DEF e
<1>2. q.dest \in Paths /\ q.run[1] \in Tasks /\ JobType
  BY <1>1, RequestTypes DEF CreateFile, UploadInv, JobType
<1>3. Empty \in [Chunks -> Contents] \ {Old} /\ Empty # Nothing
  BY <1>2, Fresh
<1>4. file' = [file EXCEPT ![q.dest] = Empty] /\ chunk' = chunk
  BY DEF CreateFile
<1>5. FileStep
  BY <1>2, <1>3, <1>4 DEF FileStep
<1>6. file'[q.dest] # Nothing
  BY <1>2, <1>3, <1>4 DEF UploadInv, DiskOK
<1>7. Follows(e)
  BY <1>1, <1>6 DEF Follows
<1>8. ChunkType
  BY <1>4 DEF ChunkType, UploadInv, DiskOK
<1> QED BY <1>1, <1>5, <1>7, <1>8, RestFollows DEF Stepped

(* What is written is not what was there before.                           *)
LEMMA WrittenStep ==
  ASSUME UploadInv, NEW q \in requests, q.kind # "chunk", q.at = "copy",
         NEW i \in Chunks, NEW whole \in BOOLEAN, Written(q, i, whole)
  PROVE  FileStep
<1>1. CASE ~q.own
  BY <1>1 DEF Written, FileStep
<1>2. CASE q.own
  <2> DEFINE v == [file[q.dest] EXCEPT ![i] = <<FileOf(q), whole>>]
  <2>1. q.dest \in Paths /\ FileOf(q) \in Files
    BY RequestTypes
  <2>2. file[q.dest] \in [Chunks -> Contents] /\ file \in [Paths -> [Chunks -> Contents] \cup {Nothing}]
    BY <1>2, <2>1 DEF UploadInv, DiskOK
  <2>3. <<FileOf(q), whole>> \in Contents
    BY <2>1 DEF Contents
  <2>4. v \in [Chunks -> Contents] /\ v[i] = <<FileOf(q), whole>>
    BY <2>2, <2>3
  <2>5. v # Old
    BY <2>1, <2>4, OtherAssumption DEF Old
  <2>6. file' = [file EXCEPT ![q.dest] = v]
    BY <1>2, <2>2 DEF Written
  <2> HIDE DEF v
  <2> QED BY <2>1, <2>4, <2>5, <2>6 DEF FileStep
<1> QED BY <1>1, <1>2

(* The handlers that write write to the destination of their request.      *)
LEMMA WriteStepped ==
  ASSUME UploadInv, NEW q \in requests,
         DirectSaved(q) \/ DirectBreaks(q) \/ MergeBreaks(q) \/ AppendChunk(q)
  PROVE  Stepped
<1>1. WellFormed(q) /\ q.kind # "chunk" /\ q.at = "copy" /\ q.run[1] \in Tasks /\ JobType
      /\ q.i \in Nat /\ q.whole \in BOOLEAN
  BY RequestTypes DEF DirectSaved, DirectBreaks, MergeBreaks, AppendChunk, UploadInv,
     JobType, WellFormed, RequestSet
<1>2. ChunkType
  BY DEF DirectSaved, DirectBreaks, MergeBreaks, AppendChunk, ChunkType, UploadInv, DiskOK
<1>3. CASE DirectSaved(q) \/ DirectBreaks(q) \/ MergeBreaks(q)
  <2>1. /\ \E i \in {0, q.i} \cap Chunks : Written(q, i, TRUE) \/ Written(q, i, FALSE)
        /\ Succeeds(q, requests \ {q}) \/ Fails(q, requests \ {q})
    <3>1. 0 \in Chunks /\ (q.i < Size[FileOf(q)] => q.i \in Chunks)
      BY <1>1, JobFacts DEF FileOf, Chunks
    <3> QED BY <1>3, <3>1 DEF DirectSaved, DirectBreaks, MergeBreaks
  <2>2. FileStep
    BY <1>1, <2>1, WrittenStep
  <2>3. Lively /\ \A o \in requests' : o \in requests \ {q} \/ Unsent(o)
    BY <2>1, HandlerSound
  <2> QED BY <1>2, <2>2, <2>3, RestFollows DEF Stepped
<1>4. CASE AppendChunk(q)
  <2>1. PICK e : /\ Lively /\ requests' = (requests \ {q}) \cup {e}
                 /\ WellFormed(e) /\ Same(e, q) /\ e.at = "copy" /\ e.i = q.i + 1
                 /\ e.dest = q.dest /\ e.own = q.own
    BY <1>4, AppendChunkSound
  <2>2. Follows(e)
    BY <1>1, <2>1 DEF Follows, Same
  <2> DEFINE w == q.whole /\ chunk[FileOf(q)][q.i] = "whole"
  <2>3. Written(q, q.i, w) /\ q.i < Size[FileOf(q)] /\ w \in BOOLEAN
    BY <1>1, <1>4 DEF AppendChunk
  <2>4. q.i \in Chunks
    BY <1>1, <2>3, JobFacts DEF FileOf
  <2> HIDE DEF w
  <2>5. FileStep
    BY <1>1, <2>3, <2>4, WrittenStep
  <2> QED BY <1>2, <2>1, <2>2, <2>5, RestFollows DEF Stepped
<1> QED BY <1>3, <1>4

(* Every step is one of these.                                             *)
LEMMA NextStepped == ASSUME UploadInv, UploadNext PROVE Stepped
<1>1. ASSUME NEW r \in Runs, Listed(r) \/ WaitOver(r) PROVE Stepped
  <2>1. UNCHANGED <<chunk, file>>
    BY <1>1 DEF Listed, WaitOver
  <2> QED BY <1>1, <2>1, ListedSound, WaitOverSound, BrowserStepped
<1>2. ASSUME NEW t \in Tasks, PauseTask(t) \/ RemoveTask(t) PROVE Stepped
  <2>1. Stop(t, "paused", "paused") \/ Stop(t, "removed", "canceled")
    BY <1>2 DEF PauseTask, RemoveTask
  <2>2. UNCHANGED <<chunk, file>>
    BY <2>1 DEF Stop
  <2>3. Lively /\ Carries
    BY <2>1, StopSound
  <2> QED BY <2>2, <2>3, BrowserStepped
<1>3. ASSUME NEW t \in Tasks, ResumeTask(t) \/ RetryTask(t) PROVE Stepped
  <2>1. UNCHANGED <<chunk, file>>
    BY <1>3 DEF ResumeTask, RetryTask
  <2> QED BY <1>3, <2>1, AgainSound, BrowserStepped
<1>4. ASSUME NEW q \in requests, LoseConnection(q) PROVE Stepped
  <2>1. UNCHANGED <<chunk, file>>
    BY <1>4 DEF LoseConnection
  <2> QED BY <1>4, <2>1, LoseSound, BrowserStepped
<1>5. CASE Browser
  BY <1>1, <1>5, AddStepped DEF Browser
<1>6. CASE Server
  BY <1>6, NeverArrivesStepped, ChunkStepped, ChooseNameStepped, CreateFileStepped,
     WriteStepped, MergedStepped DEF Server
<1> QED BY <1>2, <1>3, <1>4, <1>5, <1>6 DEF UploadNext

(* No step changes the uploads, and the counters stay in range.            *)
LEMMA NextCounts == ASSUME UploadInv, UploadNext
  PROVE job' = job /\ stops' \in 0 .. MaxStops /\ calm' \subseteq Tasks
<1>1. stops \in 0 .. MaxStops /\ calm \subseteq Tasks /\ MaxStops \in Nat
  BY BoundAssumption DEF UploadInv
<1>2. ASSUME stops < MaxStops, stops' = stops + 1 PROVE stops' \in 0 .. MaxStops
  BY <1>1, <1>2
<1>3. ASSUME NEW r \in Runs, Listed(r) \/ WaitOver(r)
      PROVE  job' = job /\ stops' \in 0 .. MaxStops /\ calm' \subseteq Tasks
  BY <1>1, <1>2, <1>3 DEF Listed, WaitOver
<1>4. ASSUME NEW t \in Tasks, PauseTask(t) \/ RemoveTask(t) \/ ResumeTask(t) \/ RetryTask(t)
      PROVE  job' = job /\ stops' \in 0 .. MaxStops /\ calm' \subseteq Tasks
  BY <1>1, <1>2, <1>4 DEF PauseTask, RemoveTask, ResumeTask, RetryTask, Stop
<1>5. ASSUME NEW q \in requests, LoseConnection(q)
      PROVE  job' = job /\ stops' \in 0 .. MaxStops /\ calm' \subseteq Tasks
  BY <1>1, <1>2, <1>5 DEF LoseConnection, Fault
<1>6. CASE Add
  BY <1>1, <1>6 DEF Add
<1>7. ASSUME NEW q \in requests,
             \/ NeverArrives(q) \/ CreateChunk(q) \/ ChunkSaved(q) \/ ChunkBreaks(q)
             \/ ChooseName(q) \/ CreateFile(q) \/ DirectSaved(q) \/ DirectBreaks(q) \/ MergeBreaks(q)
             \/ AppendChunk(q) \/ MissingChunk(q) \/ CreateFails(q) \/ Merged(q)
      PROVE  job' = job /\ stops' \in 0 .. MaxStops /\ calm' \subseteq Tasks
  BY <1>1, <1>2, <1>7 DEF NeverArrives, CreateChunk, ChunkSaved, ChunkBreaks, ChooseName, CreateFile,
     DirectSaved, DirectBreaks, MergeBreaks, AppendChunk, MissingChunk, CreateFails, Merged, Fault
<1> QED BY <1>3, <1>4, <1>5, <1>6, <1>7 DEF UploadNext, Browser, Server

(* Such a step keeps the invariant: a file that a handler owns is there.   *)
LEMMA InvFromStep ==
  ASSUME UploadInv, Stepped, job' = job, stops' \in 0 .. MaxStops, calm' \subseteq Tasks
  PROVE  UploadInv'
<1>1. Sound(task', run', requests') /\ running' \subseteq Tasks
  BY DEF Stepped, Lively
<1>2. Sound(task, run, requests)'
  <2>1. RunsOK(task, run)'
    BY <1>1 DEF Sound, RunsOK
  <2>2. (\A o \in requests : WellFormed(o))'
    BY <1>1 DEF Sound, WellFormed, NameOf
  <2>3. Lone(run, requests)'
    BY <1>1 DEF Sound, Lone
  <2> QED BY <2>1, <2>2, <2>3 DEF Sound
<1>3. chunk' \in [Files -> [Chunks -> {"part", "whole", Nothing}]]
  BY DEF Stepped, ChunkType
<1>4. ASSUME NEW q \in requests PROVE NameOf(q) \in Names /\ <<NameOf(q), 0>> \in Paths
                                      /\ (\A v \in [Chunks -> Contents] : v # Nothing)
  BY RequestTypes, Fresh DEF UploadInv, JobType
<1>5. file \in [Paths -> [Chunks -> Contents] \cup {Nothing}]
  BY DEF UploadInv, DiskOK
<1>6. file' \in [Paths -> [Chunks -> Contents] \cup {Nothing}]
  BY <1>4, <1>5 DEF Stepped, FileStep
<1>7. ASSUME NEW o \in requests', o.kind # "chunk", o.at = "copy", o.own PROVE file'[o.dest] # Nothing
  <2>1. Follows(o)
    BY DEF Stepped
  <2>2. ~Unsent(o) /\ o.at # "chosen"
    BY <1>7 DEF Unsent
  <2>3. CASE file'[o.dest] # Nothing
    BY <2>3
  <2>4. ASSUME NEW p \in requests, o.dest = p.dest, o.kind = p.kind, o.at = p.at, o.own => p.own
        PROVE  file'[o.dest] # Nothing
    <3>1. file[o.dest] # Nothing /\ o.dest \in Paths
      BY <1>7, <2>4, RequestTypes DEF UploadInv, DiskOK
    <3>2. CASE file' = file
      BY <3>1, <3>2
    <3>3. ASSUME NEW q \in requests, NEW v \in [Chunks -> Contents] \ {Old}, q.dest \in Paths,
                 file' = [file EXCEPT ![q.dest] = v]
          PROVE  file'[o.dest] # Nothing
      BY <1>4, <1>5, <3>1, <3>3
    <3>4. ASSUME NEW q \in requests, file' = [file EXCEPT ![<<NameOf(q), 0>>] = Nothing],
                 o.dest = <<NameOf(q), 0>> => ~o.own \/ o.at = "chosen"
          PROVE  file'[o.dest] # Nothing
      BY <1>5, <1>7, <2>2, <3>1, <3>4
    <3> QED BY <3>2, <3>3, <3>4 DEF Stepped, FileStep
  <2> QED BY <1>7, <2>1, <2>2, <2>3, <2>4 DEF Follows
<1>8. DiskOK'
  BY <1>3, <1>6, <1>7 DEF DiskOK
<1>9. job' \in [Tasks -> UploadJobs]
  BY DEF UploadInv
<1> QED BY <1>1, <1>2, <1>8, <1>9 DEF UploadInv

(* The invariant holds at first, ...                                       *)
LEMMA InvInit == UploadInit => UploadInv
<1> SUFFICES ASSUME UploadInit PROVE UploadInv
  OBVIOUS
<1>1. JobType /\ task = [t \in Tasks |-> Added] /\ run = [r \in Runs |-> Idle] /\ requests = {}
      /\ running = {} /\ stops = 0 /\ calm = Tasks
  BY DEF UploadInit, JobType
<1>2. \A t \in Tasks : Added \in TaskSet /\ Added.runs = 0 /\ Idle \in RunSet
  BY <1>1, IdleFacts, BoundAssumption DEF Added, TaskSet, Statuses
<1>3. RunsOK(task, run)
  BY <1>1, <1>2, RunFacts, BoundAssumption DEF RunsOK, Idle
<1>4. Sound(task, run, requests)
  BY <1>1, <1>3 DEF Sound, Lone
<1>5. chunk \in [Files -> [Chunks -> {"part", "whole", Nothing}]]
  BY DEF UploadInit
<1>6. file \in [Paths -> [Chunks -> Contents] \cup {Nothing}]
  <2>1. Old \in [Chunks -> Contents]
    BY DEF Old, Contents
  <2> QED BY <2>1 DEF UploadInit
<1>7. DiskOK
  BY <1>1, <1>5, <1>6 DEF DiskOK
<1> QED BY <1>1, <1>4, <1>7, BoundAssumption DEF UploadInv, JobType

(* ... every step keeps it, ...                                            *)
LEMMA InvNext == UploadInv /\ [UploadNext]_uploadVars => UploadInv'
<1>1. ASSUME UploadInv, UploadNext PROVE UploadInv'
  BY <1>1, NextStepped, NextCounts, InvFromStep
<1>2. ASSUME UploadInv, UNCHANGED uploadVars PROVE UploadInv'
  BY <1>2 DEF UploadInv, uploadVars, Sound, RunsOK, WellFormed, NameOf, Lone, DiskOK
<1> QED BY <1>1, <1>2

(* ... so it holds throughout.                                             *)
LEMMA InvAlways == UploadSpec => []UploadInv
<1> QED BY InvInit, InvNext, PTL DEF UploadSpec

(* The variables have their types; and every request that was not broken   *)
(* off is the one that its run of upload() waits for, so an answer never   *)
(* reaches a run that has moved on.                                        *)
THEOREM UploadTypeCorrect == UploadSpec => []UploadTypeOK
<1>1. UploadInv => UploadTypeOK
  BY DEF UploadInv, Sound, RunsOK, TaskSet, Statuses, RunSet, WellFormed, RequestSet, Lone, DiskOK,
     UploadTypeOK
<1> QED BY <1>1, InvAlways, PTL

(***************************************************************************)
(* The old file.                                                           *)
(***************************************************************************)
(* No step changes an old file that is to be kept, and none makes a new    *)
(* one.                                                                    *)
LEMMA OldStep ==
  ASSUME UploadInv, OldSafe, Stepped, job' = job, NEW n \in Names, \A t \in Tasks : job[t].name = n => ~job[t].replace
  PROVE  /\ file[<<n, 0>>] = Old <=> file'[<<n, 0>>] = Old
         /\ file[<<n, 0>>] = Old => \A o \in requests' : o.dest # <<n, 0>>
<1>1. <<n, 0>> \in Paths
  BY BoundAssumption DEF Paths
<1>2. file \in [Paths -> [Chunks -> Contents] \cup {Nothing}]
  BY DEF UploadInv, DiskOK
<1>3. file[<<n, 0>>] = Old => \A o \in requests : o.dest # <<n, 0>>
  BY DEF OldSafe
<1>4. ASSUME NEW q \in requests
      PROVE  /\ q.run[1] \in Tasks /\ Old # Nothing /\ \A p \in Paths : p # Nothing
             /\ NameOf(q) \in Names
             /\ job[q.run[1]].replace => NameOf(q) # n
  BY RequestTypes, Fresh DEF UploadInv, JobType, NameOf
<1>5. file[<<n, 0>>] = Old <=> file'[<<n, 0>>] = Old
  <2>1. CASE file' = file
    BY <2>1
  <2>2. ASSUME NEW q \in requests, NEW v \in [Chunks -> Contents] \ {Old}, q.dest \in Paths,
               file' = [file EXCEPT ![q.dest] = v]
        PROVE  file[<<n, 0>>] = Old <=> file'[<<n, 0>>] = Old
    <3>1. CASE q.dest = <<n, 0>>
      BY <1>1, <1>2, <1>3, <2>2, <3>1
    <3>2. CASE q.dest # <<n, 0>>
      BY <1>1, <1>2, <2>2, <3>2
    <3> QED BY <3>1, <3>2
  <2>3. ASSUME NEW q \in requests, job[q.run[1]].replace,
               file' = [file EXCEPT ![<<NameOf(q), 0>>] = Nothing]
        PROVE  file[<<n, 0>>] = Old <=> file'[<<n, 0>>] = Old
    <3>1. <<NameOf(q), 0>> # <<n, 0>>
      BY <1>4, <2>3
    <3> QED BY <1>1, <1>2, <2>3, <3>1
  <2> QED BY <2>1, <2>2, <2>3 DEF Stepped, FileStep
<1>6. ASSUME file[<<n, 0>>] = Old, NEW o \in requests' PROVE o.dest # <<n, 0>>
  <2>1. Follows(o) /\ o.run \in Runs /\ WellFormed(o)
    BY DEF Stepped, Lively, Sound, WellFormed, RequestSet
  <2>2. o.run[1] \in Tasks /\ JobType
    BY <2>1, RunFacts DEF UploadInv, JobType
  <2>3. CASE Unsent(o)
    BY <1>1, <2>2, <2>3, Fresh DEF Unsent
  <2>4. ASSUME NEW p \in requests, o.dest = p.dest PROVE o.dest # <<n, 0>>
    BY <1>3, <1>6, <2>4
  <2>5. CASE job[o.run[1]].replace /\ o.dest = <<NameOf(o), 0>>
    BY <2>2, <2>5 DEF NameOf
  <2>6. CASE file[o.dest] = Nothing
    BY <1>6, <2>2, <2>6, Fresh
  <2> QED BY <2>1, <2>3, <2>4, <2>5, <2>6 DEF Follows
<1> QED BY <1>5, <1>6

(* No step gives a request an old file that is to be kept as its           *)
(* destination.                                                            *)
LEMMA OldNext == UploadInv /\ OldSafe /\ [UploadNext]_uploadVars => OldSafe'
<1>1. ASSUME UploadInv, OldSafe, UploadNext PROVE OldSafe'
  <2>1. Stepped /\ job' = job
    BY <1>1, NextStepped, NextCounts
  <2>2. ASSUME NEW n \in Names, file'[<<n, 0>>] = Old, \A t \in Tasks : job'[t].name = n => ~job'[t].replace
        PROVE  \A o \in requests' : o.dest # <<n, 0>>
    <3>1. \A t \in Tasks : job[t].name = n => ~job[t].replace
      BY <2>1, <2>2
    <3> QED BY <1>1, <2>1, <2>2, <3>1, OldStep
  <2> QED BY <2>2 DEF OldSafe
<1>2. ASSUME OldSafe, UNCHANGED uploadVars PROVE OldSafe'
  BY <1>2 DEF OldSafe, uploadVars
<1> QED BY <1>1, <1>2

(* docs/file-conflicts.md: an upload that keeps both leaves the old file   *)
(* as it was, whatever uploads, merges and removals run beside it: no      *)
(* handler ever opens, truncates or removes the name of an old file unless *)
(* some upload of that name is to replace it.                              *)
THEOREM OldIsKeptAlways == UploadSpec => OldIsKept
<1>1. UploadInit => OldSafe
  BY DEF UploadInit, OldSafe
<1>2. UploadSpec => []OldSafe
  BY <1>1, OldNext, InvAlways, PTL DEF UploadSpec
<1>3. UploadInv /\ OldSafe /\ [UploadNext]_uploadVars =>
         [\A n \in Names :
            file[<<n, 0>>] = Old /\ (\A t \in Tasks : job[t].name = n => ~job[t].replace)
            => file'[<<n, 0>>] = Old]_uploadVars
  <2>1. ASSUME UploadInv, OldSafe, UploadNext, NEW n \in Names, file[<<n, 0>>] = Old,
               \A t \in Tasks : job[t].name = n => ~job[t].replace
        PROVE  file'[<<n, 0>>] = Old
    BY <2>1, NextStepped, NextCounts, OldStep
  <2> QED BY <2>1
<1> QED BY <1>2, <1>3, InvAlways, PTL DEF UploadSpec, OldIsKept

(***************************************************************************)
(* An upload that is left alone.                                           *)
(***************************************************************************)

(* What is left of a task that is left alone: its last run, and its request*)
LEMMA SteadyFacts ==
  ASSUME NEW k, NEW u, NEW q, Sound(k, u, q), NEW t \in Tasks, Steady(t, k, u, q)
  PROVE  /\ \A r \in Runs : r[1] = t /\ u[r].at \in Active =>
                r = <<t, k[t].runs>> /\ k[t].status = "running"
         /\ \A o \in q : o.run[1] = t =>
                /\ ~o.cut /\ o.run \in Runs /\ o.run = <<t, k[t].runs>> /\ k[t].status = "running"
                /\ u[o.run].at = o.kind /\ o.kind \in {"chunk", "merge", "direct"}
         /\ \A o, p \in q : o.run[1] = t /\ p.run[1] = t => o = p
<1>1. ASSUME NEW r \in Runs, r[1] = t, u[r].at \in Active
      PROVE  r = <<t, k[t].runs>> /\ k[t].status = "running"
  <2>1. r = <<t, r[2]>> /\ r[2] \in 1 .. MaxRuns
    BY <1>1, RunFacts
  <2> QED BY <1>1, <2>1 DEF Steady
<1>2. ASSUME NEW o \in q, o.run[1] = t
      PROVE  /\ ~o.cut /\ o.run \in Runs /\ o.run = <<t, k[t].runs>> /\ k[t].status = "running"
             /\ u[o.run].at = o.kind /\ o.kind \in {"chunk", "merge", "direct"}
  <2>1. ~o.cut /\ o.run \in Runs /\ o.kind \in {"chunk", "merge", "direct"}
    BY <1>2 DEF Steady, Sound, WellFormed, RequestSet
  <2>2. u[o.run].at = o.kind
    BY <2>1 DEF Sound, Lone
  <2> QED BY <1>1, <1>2, <2>1, <2>2 DEF Active
<1>3. \A o, p \in q : o.run[1] = t /\ p.run[1] = t => o = p
  BY <1>2 DEF Sound, Lone
<1> QED BY <1>1, <1>2, <1>3

(* A task whose last run is free has no request at all.                    *)
LEMMA NoRequests ==
  ASSUME NEW k, NEW u, NEW q, Sound(k, u, q), NEW r \in Runs, Steady(r[1], k, u, q),
         u[r].at \in Active, Free(r, q)
  PROVE  \A o \in q : o.run[1] # r[1]
<1>1. r[1] \in Tasks
  BY RunFacts
<1> QED BY <1>1, SteadyFacts DEF Free

(* What is not about a task leaves it as it is.                            *)
LEMMA FrameKept ==
  ASSUME NEW k, NEW u, NEW q, NEW c, NEW w, NEW k1, NEW u1, NEW q1, NEW c1, NEW w1,
         JobType, NEW t \in Tasks, Sound(k, u, q), Kept(t, k, u, q, c, w), k1[t] = k[t],
         \A m \in 1 .. MaxRuns : u1[<<t, m>>] = u[<<t, m>>],
         \A o \in q1 : o.run[1] = t => \E p \in q : /\ p.run = o.run /\ p.cut = o.cut
                                                    /\ Alone(t) => o = p,
         Alone(t) => c1[job[t].file] = c[job[t].file]
                     /\ \A m \in 0 .. MaxCopies : w1[<<job[t].name, m>>] = w[<<job[t].name, m>>]
  PROVE  Kept(t, k1, u1, q1, c1, w1)
<1>1. Steady(t, k1, u1, q1)
  BY DEF Kept, Steady
<1>2. ASSUME Alone(t) PROVE Progress(t, u1, q1, w1)
  <2>1. ASSUME NEW o \in q1, o.run[1] = t PROVE o \in q
    BY <1>2, <2>1
  <2>2. ASSUME NEW o \in q1, o.run[1] = t, o.kind # "chunk", o.at = "copy" PROVE w1[o.dest] = w[o.dest]
    <3>1. \E m \in 0 .. MaxCopies : o.dest = <<job[t].name, m>>
      BY <2>1, <2>2 DEF Sound, WellFormed, NameOf
    <3> QED BY <1>2, <3>1
  <2>3. ASSUME NEW o \in q1, o.run[1] = t PROVE u1[o.run] = u[o.run]
    <3>1. o.run \in Runs
      BY <2>1, <2>3 DEF Sound, WellFormed, RequestSet
    <3>2. o.run = <<o.run[1], o.run[2]>> /\ o.run[2] \in 1 .. MaxRuns
      BY <3>1, RunFacts
    <3>3. u1[<<t, o.run[2]>>] = u[<<t, o.run[2]>>]
      BY <3>2
    <3>4. o.run = <<t, o.run[2]>>
      BY <2>3, <3>2
    <3> QED BY <3>3, <3>4
  <2>4. Progress(t, u, q, w)
    BY <1>2 DEF Kept
  <2>5. ASSUME NEW o \in q1, o.run[1] = t
        PROVE  IF o.kind = "chunk" THEN o.i = u1[o.run].i /\ (o.at = "copy" => o.own)
               ELSE IF o.at # "copy" THEN o.i = 0 /\ o.whole
               ELSE /\ o.own /\ o.whole /\ o.i <= Size[job[t].file]
                    /\ w1[o.dest] = [i \in Chunks |-> IF i < o.i THEN <<job[t].file, TRUE>> ELSE Nothing]
    <3>1. o \in q /\ u1[o.run] = u[o.run]
      BY <2>1, <2>3, <2>5
    <3>2. o.kind # "chunk" /\ o.at = "copy" => w1[o.dest] = w[o.dest]
      BY <2>2, <2>5
    <3> QED BY <2>4, <2>5, <3>1, <3>2 DEF Progress, Progressed
  <2> QED BY <2>5 DEF Progress, Progressed
<1>3. ASSUME Alone(t) PROVE Come(t, k1, u1, c1) /\ Saved(t, k1, w1)
  <2>1. c1[job[t].file] = c[job[t].file]
    BY <1>3
  <2>2. Come(t, k, u, c) /\ Saved(t, k, w)
    BY <1>3 DEF Kept
  <2>3. Come(t, k1, u1, c1)
    BY <2>1, <2>2 DEF Come
  <2>4. Saved(t, k1, w1)
    BY <1>3, <2>2 DEF Saved
  <2> QED BY <2>3, <2>4
<1> QED BY <1>1, <1>2, <1>3 DEF Kept

(* processQueue gives a task that is left alone one new run, at its        *)
(* beginning.                                                              *)
LEMMA QueueKept ==
  ASSUME JobType, NEW k, NEW n \in SUBSET Tasks, NEW u, NEW q, NEW c, NEW w, Sound(k, u, q),
         ProcessQueue(k, n, u, q), NEW t \in Tasks, Kept(t, k, u, q, c, w)
  PROVE  Kept(t, task', run', requests', c, w)
<1> DEFINE pending == {s \in Tasks : k[s].status = "pending"}
           starts == {s \in pending :
                         Cardinality(n) + Cardinality({v \in pending : v < s}) < Limit}
           direct == {s \in starts : Size[job[s].file] = 1}
           new(s) == <<s, k[s].runs + 1>>
<1>1. /\ task' = [s \in Tasks |->
              IF s \in starts
              THEN [k[s] EXCEPT !.status = "running", !.shown = "uploading",
                                !.aborted = FALSE, !.runs = @ + 1,
                                !.xhr = IF s \in direct THEN k[s].runs + 1 ELSE @]
              ELSE k[s]]
      /\ run' = [r \in Runs |->
              IF r[1] \in starts /\ r = new(r[1])
              THEN [Idle EXCEPT !.at = IF r[1] \in direct THEN "direct" ELSE "query"]
              ELSE u[r]]
      /\ requests' = q \cup {Request(new(s), "direct", 0, 1) : s \in direct}
  BY DEF ProcessQueue
<1>2. starts \subseteq Tasks /\ direct \subseteq starts /\ \A s \in starts : k[s].status = "pending"
  OBVIOUS
<1>3. \A s \in starts : s \in direct <=> Size[job[s].file] = 1
  OBVIOUS
<1> HIDE DEF starts, direct, pending
<1>4. ASSUME NEW s \in direct
      PROVE  LET o == Request(new(s), "direct", 0, 1)
             IN /\ o.run = new(s) /\ o.kind = "direct" /\ o.at = "sent" /\ ~o.cut /\ o.i = 0 /\ o.whole
                /\ o.run[1] = s
  BY DEF Request
<1>5. ASSUME NEW o \in requests'
      PROVE  \/ o \in q
             \/ /\ o.run[1] \in direct /\ o.kind = "direct" /\ o.at = "sent"
                /\ ~o.cut /\ o.i = 0 /\ o.whole
  <2>1. CASE o \in q
    BY <2>1
  <2>2. CASE o \notin q
    <3>1. PICK s \in direct : o = Request(new(s), "direct", 0, 1)
      BY <1>1, <2>2
    <3> QED BY <1>4, <3>1
  <2> QED BY <2>1, <2>2
<1>6. CASE t \notin starts
  <2>1. task'[t] = k[t]
    BY <1>1, <1>6
  <2>2. ASSUME NEW m \in 1 .. MaxRuns PROVE run'[<<t, m>>] = u[<<t, m>>]
    <3>1. <<t, m>> \in Runs /\ <<t, m>>[1] = t
      BY RunFacts
    <3> QED BY <1>1, <1>6, <3>1
  <2>3. \A o \in requests' : o.run[1] = t => o \in q
    BY <1>2, <1>5, <1>6
  <2> QED BY <2>1, <2>2, <2>3, FrameKept
<1>7. CASE t \in starts
  <2>1. k[t].status = "pending" /\ k[t] \in TaskSet /\ k[t].runs < MaxRuns /\ k[t].runs \in Nat
        /\ Steady(t, k, u, q)
    BY <1>2, <1>7 DEF Sound, RunsOK, TaskSet, Kept
  <2>2. \A o \in q : o.run[1] # t
    BY <2>1, SteadyFacts
  <2>3. \A m \in 1 .. MaxRuns : u[<<t, m>>].at \notin Active
    BY <2>1 DEF Steady
  <2>4. /\ task'[t].status = "running" /\ task'[t].shown = "uploading" /\ ~task'[t].aborted
        /\ task'[t].runs = k[t].runs + 1
    BY <1>1, <1>7, <2>1 DEF TaskSet
  <2>5. ASSUME NEW m \in 1 .. MaxRuns
        PROVE  IF m = k[t].runs + 1
               THEN run'[<<t, m>>].at = IF Size[job[t].file] = 1 THEN "direct" ELSE "query"
               ELSE run'[<<t, m>>] = u[<<t, m>>]
    <3>1. <<t, m>> \in Runs /\ <<t, m>>[1] = t /\ (<<t, m>> = new(t) <=> m = k[t].runs + 1)
      BY RunFacts
    <3>2. run'[<<t, m>>] = IF m = k[t].runs + 1
                           THEN [Idle EXCEPT !.at = IF t \in direct THEN "direct" ELSE "query"]
                           ELSE u[<<t, m>>]
      BY <1>1, <1>7, <3>1
    <3> QED BY <1>3, <1>7, <3>2 DEF Idle
  <2>6. \A o \in requests' : o.run[1] = t => /\ o.kind = "direct" /\ o.at = "sent" /\ ~o.cut
                                             /\ o.i = 0 /\ o.whole
    BY <1>5, <2>2
  <2>7. Steady(t, task', run', requests')
    BY <2>3, <2>4, <2>5, <2>6 DEF Steady
  <2>8. Progress(t, run', requests', w)
    BY <2>6 DEF Progress, Progressed
  <2>9. Saved(t, task', w)
    BY <2>4 DEF Saved
  <2>10. ASSUME Alone(t) PROVE Come(t, task', run', c)
    <3>1. Size[job[t].file] # 1 => \A j \in Chunks : c[job[t].file][j] = Nothing
      BY <2>1, <2>10 DEF Kept, Come
    <3>2. ASSUME NEW m \in 1 .. MaxRuns
          PROVE  /\ run'[<<t, m>>].at \notin {"chunk", "wait", "merge"}
                 /\ run'[<<t, m>>].at = "query" => Size[job[t].file] # 1
      BY <2>3, <2>5 DEF Active
    <3> QED BY <2>4, <3>1, <3>2 DEF Come
  <2> QED BY <2>7, <2>8, <2>9, <2>10 DEF Kept
<1> QED BY <1>6, <1>7

(* A return leaves the other tasks as they are, ...                        *)
LEMMA ReturnOther ==
  ASSUME JobType, running \subseteq Tasks, NEW r \in Runs, NEW error, NEW k, NEW q, NEW c, NEW w,
         Sound(k, run, q), run[r].at # "none", Free(r, q), Return(r, error, k, q),
         NEW t \in Tasks, t # r[1], Kept(t, k, run, q, c, w)
  PROVE  Kept(t, task', run', requests', c, w)
<1>1. PICK e \in TaskSet, o \in RunSet :
            /\ Sound([k EXCEPT ![r[1]] = e], [run EXCEPT ![r] = o], q)
            /\ ProcessQueue([k EXCEPT ![r[1]] = e], running \ {r[1]}, [run EXCEPT ![r] = o], q)
  BY ReturnQueue
<1> DEFINE k1 == [k EXCEPT ![r[1]] = e]
           u1 == [run EXCEPT ![r] = o]
<1>2. k1[t] = k[t] /\ \A m \in 1 .. MaxRuns : u1[<<t, m>>] = run[<<t, m>>]
  <2>1. k \in [Tasks -> TaskSet] /\ run \in [Runs -> RunSet]
    BY DEF Sound, RunsOK
  <2>2. \A m \in 1 .. MaxRuns : <<t, m>> \in Runs /\ <<t, m>> # r
    BY RunFacts
  <2> QED BY <2>1, <2>2
<1> HIDE DEF k1, u1
<1>3. Kept(t, k1, u1, q, c, w)
  BY <1>2, FrameKept
<1>4. running \ {r[1]} \in SUBSET Tasks
  OBVIOUS
<1> QED BY <1>1, <1>3, <1>4, QueueKept DEF k1, u1

(* The file of a task is on the disk.                                      *)
Stored(t, w) ==
    \E m \in 0 .. MaxCopies :
        w[<<job[t].name, m>>] = [i \in Chunks |-> IF i < Size[job[t].file]
                                                  THEN <<job[t].file, TRUE>> ELSE Nothing]

(* ... and its own may be completed only with its file stored, or with an  *)
(* error noted.                                                            *)
LEMMA ReturnOwn ==
  ASSUME JobType, running \subseteq Tasks, NEW r \in Runs, NEW error, NEW k, NEW q, NEW c, NEW w,
         Sound(k, run, q), run[r].at \in Active, Free(r, q), Return(r, error, k, q),
         Steady(r[1], k, run, q),
         Alone(r[1]) => IF error THEN Size[job[r[1]].file] = 1 ELSE k[r[1]].failed \/ Stored(r[1], w)
  PROVE  Kept(r[1], task', run', requests', c, w)
<1>1. r[1] \in Tasks /\ run[r].at # "none" /\ r = <<r[1], k[r[1]].runs>> /\ k[r[1]].status = "running"
      /\ ~k[r[1]].aborted
  BY RunFacts, SteadyFacts DEF Active, Steady
<1>2. PICK e \in TaskSet, o \in RunSet :
            /\ Sound([k EXCEPT ![r[1]] = e], [run EXCEPT ![r] = o], q)
            /\ ProcessQueue([k EXCEPT ![r[1]] = e], running \ {r[1]}, [run EXCEPT ![r] = o], q)
            /\ o.at = "over"
            /\ e.status = IF error THEN "failed" ELSE "completed"
            /\ e.shown = IF error THEN "error" ELSE "done"
            /\ ~e.aborted /\ e.failed = k[r[1]].failed
  <2>1. PICK e \in TaskSet, o \in RunSet :
            /\ Sound([k EXCEPT ![r[1]] = e], [run EXCEPT ![r] = o], q)
            /\ ProcessQueue([k EXCEPT ![r[1]] = e], running \ {r[1]}, [run EXCEPT ![r] = o], q)
            /\ o.at = "over"
            /\ e = Ended(k, r[1], error)
    BY <1>1, ReturnQueue
  <2>2. /\ e.status = IF error THEN "failed" ELSE "completed"
        /\ e.shown = IF error THEN "error" ELSE "done"
        /\ ~e.aborted /\ e.failed = k[r[1]].failed
    <3>1. k[r[1]] \in TaskSet
      BY <1>1 DEF Sound, RunsOK
    <3>2. e = [k[r[1]] EXCEPT !.status = IF error THEN "failed" ELSE "completed",
                              !.shown = IF error THEN "error" ELSE "done"]
      BY <1>1, <2>1 DEF Ended
    <3> QED BY <1>1, <3>1, <3>2 DEF TaskSet
  <2> QED BY <2>1, <2>2
<1> DEFINE k1 == [k EXCEPT ![r[1]] = e]
           u1 == [run EXCEPT ![r] = o]
<1>3. k1[r[1]] = e
  BY <1>1 DEF Sound, RunsOK
<1>4. \A m \in 1 .. MaxRuns : u1[<<r[1], m>>].at \notin Active
  <2>1. run \in [Runs -> RunSet]
    BY DEF Sound, RunsOK
  <2>2. ASSUME NEW m \in 1 .. MaxRuns PROVE u1[<<r[1], m>>].at \notin Active
    <3>1. <<r[1], m>> \in Runs /\ <<r[1], m>>[1] = r[1]
      BY <1>1, RunFacts
    <3>2. CASE <<r[1], m>> = r
      BY <1>2, <2>1, <3>1, <3>2 DEF Active
    <3>3. CASE <<r[1], m>> # r
      <4>1. u1[<<r[1], m>>] = run[<<r[1], m>>]
        BY <2>1, <3>1, <3>3
      <4> QED BY <1>1, <3>1, <3>3, <4>1, SteadyFacts
    <3> QED BY <3>2, <3>3
  <2> QED BY <2>2
<1>5. \A p \in q : p.run[1] # r[1]
  BY NoRequests
<1> HIDE DEF k1, u1
<1>6. Kept(r[1], k1, u1, q, c, w)
  <2>1. Steady(r[1], k1, u1, q)
    BY <1>2, <1>3, <1>4, <1>5 DEF Steady
  <2>2. Progress(r[1], u1, q, w)
    BY <1>5 DEF Progress, Progressed
  <2>3. ASSUME Alone(r[1]) PROVE Come(r[1], k1, u1, c)
    BY <1>2, <1>3, <1>4, <2>3 DEF Come, Active
  <2>4. ASSUME Alone(r[1]) PROVE Saved(r[1], k1, w)
    BY <1>2, <1>3, <2>4 DEF Saved, Stored
  <2> QED BY <2>1, <2>2, <2>3, <2>4 DEF Kept
<1>7. running \ {r[1]} \in SUBSET Tasks
  OBVIOUS
<1> QED BY <1>1, <1>2, <1>6, <1>7, QueueKept DEF k1, u1

(* A task leaves another's fields alone.                                   *)
LEMMA FieldOther ==
  ASSUME NEW u, NEW q, NEW c, NEW w, JobType, Sound(task, u, q), NEW s \in Tasks, NEW t \in Tasks, t # s,
         Kept(t, task, u, q, c, w)
  PROVE  /\ \A m : Kept(t, [task EXCEPT ![s].xhr = m], u, q, c, w)
         /\ \A v : Kept(t, Shown(s, v), u, q, c, w)
         /\ Kept(t, Failing(s), u, q, c, w)
<1>1. /\ Failing(s)[t] = task[t] /\ \A v : Shown(s, v)[t] = task[t]
      /\ \A m : [task EXCEPT ![s].xhr = m][t] = task[t]
  BY DEF Sound, RunsOK, Failing, Shown
<1>2. ASSUME NEW k, k[t] = task[t] PROVE Kept(t, k, u, q, c, w)
  BY <1>2, FrameKept
<1> QED BY <1>1, <1>2

(* The fields that a run of a task sets keep it steady.                    *)
LEMMA FieldOwn ==
  ASSUME NEW u, NEW q, Sound(task, u, q), NEW t \in Tasks, Steady(t, task, u, q)
  PROVE  /\ \A m \in 0 .. MaxRuns : Steady(t, [task EXCEPT ![t].xhr = m], u, q)
         /\ \A v \in {"saving", "done"} : Steady(t, Shown(t, v), u, q)
         /\ Steady(t, Failing(t), u, q) /\ Failing(t)[t].failed
         /\ \A v : Shown(t, v)[t].failed = task[t].failed
<1>1. task \in [Tasks -> TaskSet]
  BY DEF Sound, RunsOK
<1>2. ASSUME NEW k, k[t].status = task[t].status, k[t].aborted = task[t].aborted, k[t].runs = task[t].runs,
             k[t].shown \notin {"paused", "canceled"}
      PROVE  Steady(t, k, u, q)
  BY <1>2 DEF Steady
<1>3. ASSUME NEW m \in 0 .. MaxRuns PROVE Steady(t, [task EXCEPT ![t].xhr = m], u, q)
  <2> DEFINE k == [task EXCEPT ![t].xhr = m]
  <2>1. k[t].status = task[t].status /\ k[t].aborted = task[t].aborted /\ k[t].runs = task[t].runs
        /\ k[t].shown = task[t].shown
    BY <1>1 DEF TaskSet
  <2> HIDE DEF k
  <2>2. k[t].shown \notin {"paused", "canceled"}
    BY <2>1 DEF Steady
  <2>3. Steady(t, k, u, q)
    BY <1>2, <2>1, <2>2
  <2> QED BY <2>3 DEF k
<1>4. ASSUME NEW v \in {"saving", "done"} PROVE Steady(t, Shown(t, v), u, q)
  <2> DEFINE k == Shown(t, v)
  <2>1. k[t].status = task[t].status /\ k[t].aborted = task[t].aborted /\ k[t].runs = task[t].runs
        /\ k[t].shown = v
    BY <1>1 DEF TaskSet, Shown
  <2> HIDE DEF k
  <2>2. Steady(t, k, u, q)
    BY <1>2, <2>1
  <2> QED BY <2>2 DEF k
<1>5. Steady(t, Failing(t), u, q) /\ Failing(t)[t].failed
  <2> DEFINE k == Failing(t)
  <2>1. k[t].status = task[t].status /\ k[t].aborted = task[t].aborted /\ k[t].runs = task[t].runs
        /\ k[t].shown = "error" /\ k[t].failed
    BY <1>1 DEF TaskSet, Failing
  <2> HIDE DEF k
  <2>2. Steady(t, k, u, q)
    BY <1>2, <2>1
  <2> QED BY <2>1, <2>2 DEF k
<1>6. \A v : Shown(t, v)[t].failed = task[t].failed
  BY <1>1 DEF TaskSet, Shown
<1> QED BY <1>3, <1>4, <1>5, <1>6

(* The loop over the chunks leaves the other tasks as they are.            *)
LEMMA GoOnOther ==
  ASSUME JobType, running \subseteq Tasks, NEW r \in Runs, NEW i \in Nat, NEW have, NEW q, NEW c, NEW w,
         Sound(task, run, q), run[r].at \in {"query", "chunk"}, Free(r, q), GoOn(r, i, have, q),
         NEW t \in Tasks, t # r[1], Kept(t, task, run, q, c, w)
  PROVE  Kept(t, task', run', requests', c, w)
<1>1. r[1] \in Tasks /\ run \in [Runs -> RunSet] /\ task \in [Tasks -> TaskSet]
  BY RunFacts DEF Sound, RunsOK
<1>2. CASE Return(r, TRUE, task, q)
  BY <1>2, ReturnOther
<1>3. ASSUME NEW e, NEW o, o.run = r, run' = [run EXCEPT ![r] = e], requests' = q \cup {o},
             task'[t] = task[t]
      PROVE  Kept(t, task', run', requests', c, w)
  <2>1. \A m \in 1 .. MaxRuns : run'[<<t, m>>] = run[<<t, m>>]
    <3>1. \A m \in 1 .. MaxRuns : <<t, m>> \in Runs /\ <<t, m>> # r
      BY RunFacts
    <3> QED BY <1>1, <1>3, <3>1
  <2>2. \A p \in requests' : p.run[1] = t => p \in q
    BY <1>3
  <2> QED BY <1>3, <2>1, <2>2, FrameKept
<1>4. \A next : Request(r, "chunk", next, 1).run = r
  BY DEF Request
<1>5. Request(r, "merge", 0, 1).run = r
  BY DEF Request
<1>6. \/ Return(r, TRUE, task, q)
      \/ \E next : /\ run' = [run EXCEPT ![r] = [at |-> "chunk", i |-> next, try |-> 1, have |-> have]]
                   /\ requests' = q \cup {Request(r, "chunk", next, 1)}
                   /\ task' = [task EXCEPT ![r[1]].xhr = r[2]]
      \/ /\ run' = [run EXCEPT ![r] = [Idle EXCEPT !.at = "merge"]]
         /\ requests' = q \cup {Request(r, "merge", 0, 1)}
         /\ task' = Shown(r[1], "saving")
  <2>1. \/ task[r[1]].shown \in {"paused", "canceled"} /\ Return(r, TRUE, task, q)
        \/ /\ task[r[1]].shown \notin {"paused", "canceled"}
           /\ running' = running
           /\ \/ \E next \in Missing(r[1], i, have) :
                    /\ \A m \in Missing(r[1], i, have) : next <= m
                    /\ run' = [run EXCEPT ![r] = [at |-> "chunk", i |-> next, try |-> 1, have |-> have]]
                    /\ requests' = q \cup {Request(r, "chunk", next, 1)}
                    /\ task' = [task EXCEPT ![r[1]].xhr = r[2]]
              \/ /\ Missing(r[1], i, have) = {}
                 /\ run' = [run EXCEPT ![r] = [Idle EXCEPT !.at = "merge"]]
                 /\ requests' = q \cup {Request(r, "merge", 0, 1)}
                 /\ task' = Shown(r[1], "saving")
    BY GoOnCases
  <2> QED BY <2>1
<1>7. ASSUME NEW next, run' = [run EXCEPT ![r] = [at |-> "chunk", i |-> next, try |-> 1, have |-> have]],
             requests' = q \cup {Request(r, "chunk", next, 1)},
             task' = [task EXCEPT ![r[1]].xhr = r[2]]
      PROVE  Kept(t, task', run', requests', c, w)
  <2>1. task'[t] = task[t]
    BY <1>1, <1>7
  <2> QED BY <1>3, <1>4, <1>7, <2>1
<1>8. CASE /\ run' = [run EXCEPT ![r] = [Idle EXCEPT !.at = "merge"]]
           /\ requests' = q \cup {Request(r, "merge", 0, 1)}
           /\ task' = Shown(r[1], "saving")
  <2>1. task'[t] = task[t]
    BY <1>1, <1>8 DEF Shown
  <2> QED BY <1>3, <1>5, <1>8, <2>1
<1> QED BY <1>2, <1>6, <1>7, <1>8

(* A run that sends its next request: what it sends, and what is there     *)
(* already.                                                                *)
Sends(r, e, o) ==
    /\ e.at \in {"chunk", "merge"} /\ o.run = r /\ o.kind = e.at /\ o.at = "sent" /\ ~o.cut
    /\ IF o.kind = "chunk" THEN o.i = e.i ELSE o.i = 0 /\ o.whole

(* What is on the disk when a request is made: the chunks before it, or    *)
(* all of them.                                                            *)
Sent(t, e, c) ==
    IF e.at = "chunk"
    THEN /\ e.i \in Nat /\ e.i < Size[job[t].file] /\ e.have = 0 .. e.i - 1
         /\ \A j \in 0 .. e.i - 1 : c[job[t].file][j] = "whole"
    ELSE \A j \in 0 .. Size[job[t].file] - 1 : c[job[t].file][j] = "whole"

(* A run makes its next request.                                           *)
LEMMA SendKept ==
  ASSUME NEW k, NEW q, NEW c, NEW w, JobType, Sound(task, run, q), NEW r \in Runs,
         run[r].at \in Active, Free(r, q), Steady(r[1], task, run, q), Steady(r[1], k, run, q),
         k[r[1]].status = task[r[1]].status,
         NEW e, NEW o, Sends(r, e, o), Alone(r[1]) => Sent(r[1], e, c)
  PROVE  Kept(r[1], k, [run EXCEPT ![r] = e], q \cup {o}, c, w)
<1> DEFINE t == r[1]
           u == [run EXCEPT ![r] = e]
<1>1. t \in Tasks /\ r = <<t, task[t].runs>> /\ task[t].status = "running" /\ run \in [Runs -> RunSet]
      /\ \A p \in q : p.run[1] # t
  BY RunFacts, SteadyFacts, NoRequests DEF Sound, RunsOK
<1>2. u[r] = e
  BY <1>1
<1>3. ASSUME NEW m \in 1 .. MaxRuns, <<t, m>> # r PROVE u[<<t, m>>] = run[<<t, m>>] /\ u[<<t, m>>].at \notin Active
  <2>1. <<t, m>> \in Runs /\ <<t, m>>[1] = t
    BY <1>1, RunFacts
  <2> QED BY <1>1, <1>3, <2>1, SteadyFacts
<1>4. r = <<t, k[t].runs>> /\ k[t].status = "running"
  <2>1. Steady(t, k, run, q) /\ r = <<t, r[2]>> /\ r[2] \in 1 .. MaxRuns
    BY RunFacts
  <2>2. r[2] = k[t].runs
    BY <2>1 DEF Steady
  <2> QED BY <1>1, <2>1, <2>2
<1>5. \A m \in 1 .. MaxRuns : u[<<t, m>>].at \in Active => m = k[t].runs /\ k[t].status = "running"
  <2>1. \A m : <<t, m>> = r => m = k[t].runs
    BY <1>4
  <2> QED BY <1>3, <1>4, <2>1
<1>6. Steady(t, k, u, q \cup {o})
  BY <1>1, <1>5 DEF Steady, Sends
<1>7. Progress(t, u, q \cup {o}, w)
  BY <1>1, <1>2 DEF Progress, Progressed, Sends
<1>8. ASSUME Alone(t) PROVE Come(t, k, u, c)
  <2>1. ASSUME NEW m \in 1 .. MaxRuns
        PROVE  LET v == u[<<t, m>>] IN
               /\ v.at = "query" => \A j \in Chunks : c[job[t].file][j] = Nothing
               /\ v.at \in {"chunk", "wait"} =>
                     /\ v.i < Size[job[t].file] /\ v.have = 0 .. v.i - 1
                     /\ \A j \in 0 .. v.i - 1 : c[job[t].file][j] = "whole"
               /\ v.at = "merge" => \A j \in 0 .. Size[job[t].file] - 1 : c[job[t].file][j] = "whole"
    <3>1. CASE <<t, m>> = r
      BY <1>2, <1>8, <3>1 DEF Sends, Sent
    <3>2. CASE <<t, m>> # r
      BY <1>3, <3>2 DEF Active
    <3> QED BY <3>1, <3>2
  <2> QED BY <1>4, <2>1 DEF Come
<1>9. Saved(t, k, w)
  BY <1>4 DEF Saved
<1> QED BY <1>6, <1>7, <1>8, <1>9 DEF Kept

(* The loop over the chunks goes from one chunk that is whole to the next. *)
LEMMA GoOnOwn ==
  ASSUME JobType, running \subseteq Tasks, NEW r \in Runs, NEW i \in Nat, NEW have, NEW q, NEW c, NEW w,
         Sound(task, run, q), run[r].at \in {"query", "chunk"}, Free(r, q), GoOn(r, i, have, q),
         Steady(r[1], task, run, q),
         Alone(r[1]) => /\ i <= Size[job[r[1]].file] /\ have = 0 .. i - 1
                        /\ \A j \in 0 .. i - 1 : c[job[r[1]].file][j] = "whole"
  PROVE  Kept(r[1], task', run', requests', c, w)
<1>1. r[1] \in Tasks /\ task[r[1]].shown \notin {"paused", "canceled"} /\ run[r].at \in Active
      /\ r[2] \in 0 .. MaxRuns /\ task \in [Tasks -> TaskSet] /\ Size[job[r[1]].file] \in Nat
  BY RunFacts, JobFacts, BoundAssumption DEF Steady, Active, Sound, RunsOK
<1> DEFINE N == Size[job[r[1]].file]
<1>2. \/ \E next \in Missing(r[1], i, have) :
            /\ \A m \in Missing(r[1], i, have) : next <= m
            /\ run' = [run EXCEPT ![r] = [at |-> "chunk", i |-> next, try |-> 1, have |-> have]]
            /\ requests' = q \cup {Request(r, "chunk", next, 1)}
            /\ task' = [task EXCEPT ![r[1]].xhr = r[2]]
      \/ /\ Missing(r[1], i, have) = {}
         /\ run' = [run EXCEPT ![r] = [Idle EXCEPT !.at = "merge"]]
         /\ requests' = q \cup {Request(r, "merge", 0, 1)}
         /\ task' = Shown(r[1], "saving")
  BY <1>1, GoOnCases
<1>3. Alone(r[1]) => Missing(r[1], i, have) = i .. N - 1
  BY <1>1 DEF Missing
<1>4. ASSUME NEW next \in Missing(r[1], i, have),
             \A m \in Missing(r[1], i, have) : next <= m,
             run' = [run EXCEPT ![r] = [at |-> "chunk", i |-> next, try |-> 1, have |-> have]],
             requests' = q \cup {Request(r, "chunk", next, 1)},
             task' = [task EXCEPT ![r[1]].xhr = r[2]]
      PROVE  Kept(r[1], task', run', requests', c, w)
  <2> DEFINE e == [at |-> "chunk", i |-> next, try |-> 1, have |-> have]
             o == Request(r, "chunk", next, 1)
  <2>1. Alone(r[1]) => next = i /\ i < N
    <3>1. ASSUME Alone(r[1]) PROVE next = i /\ i < N
      <4>1. Missing(r[1], i, have) = i .. N - 1 /\ i <= N
        BY <1>3, <3>1
      <4>2. next \in i .. N - 1 /\ N \in Nat
        BY <1>1, <1>4, <4>1
      <4>3. i < N /\ i \in i .. N - 1
        BY <4>1, <4>2
      <4> QED BY <1>4, <4>1, <4>2, <4>3
    <3> QED BY <3>1
  <2>2. e.at = "chunk" /\ e.i = next /\ e.have = have
    OBVIOUS
  <2>3. o.run = r /\ o.kind = "chunk" /\ o.at = "sent" /\ ~o.cut /\ o.i = next
    BY DEF Request
  <2> HIDE DEF e, o
  <2>4. Steady(r[1], task', run, q) /\ task'[r[1]].status = task[r[1]].status
    <3>1. Steady(r[1], task', run, q)
      BY <1>1, <1>4, FieldOwn
    <3>2. task'[r[1]].status = task[r[1]].status
      BY <1>1, <1>4 DEF TaskSet
    <3> QED BY <3>1, <3>2
  <2>5. run' = [run EXCEPT ![r] = e] /\ requests' = q \cup {o}
    BY <1>4 DEF e, o
  <2>6. Alone(r[1]) => Sent(r[1], e, c)
    BY <2>1, <2>2 DEF Sent
  <2>7. Sends(r, e, o)
    BY <2>2, <2>3 DEF Sends
  <2>8. Kept(r[1], task', [run EXCEPT ![r] = e], q \cup {o}, c, w)
    BY <1>1, <2>4, <2>6, <2>7, SendKept
  <2> QED BY <2>5, <2>8
<1>5. CASE /\ Missing(r[1], i, have) = {}
           /\ run' = [run EXCEPT ![r] = [Idle EXCEPT !.at = "merge"]]
           /\ requests' = q \cup {Request(r, "merge", 0, 1)}
           /\ task' = Shown(r[1], "saving")
  <2> DEFINE e == [Idle EXCEPT !.at = "merge"]
             o == Request(r, "merge", 0, 1)
  <2>1. Alone(r[1]) => i = N
    BY <1>1, <1>3, <1>5
  <2>2. e.at = "merge"
    BY DEF Idle
  <2>3. o.run = r /\ o.kind = "merge" /\ o.at = "sent" /\ ~o.cut /\ o.i = 0 /\ o.whole
    BY DEF Request
  <2> HIDE DEF e, o
  <2>4. Steady(r[1], task', run, q) /\ task'[r[1]].status = task[r[1]].status
    <3>1. Steady(r[1], Shown(r[1], "saving"), run, q)
      BY <1>1, FieldOwn
    <3>2. Shown(r[1], "saving")[r[1]].status = task[r[1]].status
      BY <1>1 DEF TaskSet, Shown
    <3> QED BY <1>5, <3>1, <3>2
  <2>5. run' = [run EXCEPT ![r] = e] /\ requests' = q \cup {o}
    BY <1>5 DEF e, o
  <2>6. Alone(r[1]) => Sent(r[1], e, c)
    BY <2>1, <2>2 DEF Sent
  <2>7. Sends(r, e, o)
    BY <2>2, <2>3 DEF Sends
  <2>8. Kept(r[1], task', [run EXCEPT ![r] = e], q \cup {o}, c, w)
    BY <1>1, <2>4, <2>6, <2>7, SendKept
  <2> QED BY <2>5, <2>8
<1> QED BY <1>2, <1>4, <1>5

(* A failed attempt leaves the other tasks as they are, ...                *)
LEMMA ChunkFailsOther ==
  ASSUME JobType, running \subseteq Tasks, NEW r \in Runs, NEW q, NEW c, NEW w, Sound(task, run, q),
         run[r].at = "chunk", Free(r, q), ChunkFails(r, q), NEW t \in Tasks, t # r[1],
         Kept(t, task, run, q, c, w)
  PROVE  Kept(t, task', run', requests', c, w)
<1>1. r[1] \in Tasks /\ run \in [Runs -> RunSet]
  BY RunFacts DEF Sound, RunsOK
<1>2. CASE Return(r, TRUE, task, q)
  BY <1>2, ReturnOther
<1>3. CASE Return(r, FALSE, Failing(r[1]), q)
  <2>1. Sound(Failing(r[1]), run, q) /\ Kept(t, Failing(r[1]), run, q, c, w)
    BY <1>1, FieldSound, FieldOther
  <2> QED BY <1>3, <2>1, ReturnOther
<1>4. CASE /\ run' = [run EXCEPT ![r].at = "wait"] /\ requests' = q /\ UNCHANGED <<task, running>>
  <2>1. \A m \in 1 .. MaxRuns : run'[<<t, m>>] = run[<<t, m>>]
    <3>1. \A m \in 1 .. MaxRuns : <<t, m>> \in Runs /\ <<t, m>> # r
      BY RunFacts
    <3> QED BY <1>1, <1>4, <3>1
  <2>2. task'[t] = task[t] /\ \A o \in requests' : o \in q
    BY <1>4
  <2> QED BY <2>1, <2>2, FrameKept
<1> QED BY <1>2, <1>3, <1>4 DEF ChunkFails

(* ... and never passes over the chunk: it is sent again, or the error is  *)
(* noted.                                                                  *)
LEMMA ChunkFailsOwn ==
  ASSUME JobType, running \subseteq Tasks, NEW r \in Runs, NEW q, NEW c, NEW w, Sound(task, run, q),
         run[r].at = "chunk", Free(r, q), ChunkFails(r, q), Steady(r[1], task, run, q),
         Alone(r[1]) => Come(r[1], task, run, c)
  PROVE  Kept(r[1], task', run', requests', c, w)
<1>1. r[1] \in Tasks /\ run \in [Runs -> RunSet] /\ run[r].at \in Active
      /\ r = <<r[1], task[r[1]].runs>> /\ task[r[1]].status = "running"
      /\ \A o \in q : o.run[1] # r[1]
  BY RunFacts, SteadyFacts, NoRequests DEF Sound, RunsOK, Active
<1>2. task[r[1]].shown # "paused"
  BY DEF Steady
<1>3. CASE Return(r, FALSE, Failing(r[1]), q)
  <2>1. Sound(Failing(r[1]), run, q) /\ Steady(r[1], Failing(r[1]), run, q) /\ Failing(r[1])[r[1]].failed
    BY <1>1, FieldSound, FieldOwn
  <2> QED BY <1>1, <1>3, <2>1, ReturnOwn
<1>4. CASE /\ run' = [run EXCEPT ![r].at = "wait"] /\ requests' = q /\ UNCHANGED <<task, running>>
  <2>1. run'[r].at = "wait" /\ run'[r].i = run[r].i /\ run'[r].have = run[r].have
    BY <1>1, <1>4 DEF RunSet
  <2>2. ASSUME NEW m \in 1 .. MaxRuns, <<r[1], m>> # r PROVE run'[<<r[1], m>>] = run[<<r[1], m>>]
    <3>1. <<r[1], m>> \in Runs
      BY <1>1, RunFacts
    <3> QED BY <1>1, <1>4, <2>2, <3>1
  <2>3. Steady(r[1], task', run', requests')
    <3>1. ASSUME NEW m \in 1 .. MaxRuns, run'[<<r[1], m>>].at \in Active
          PROVE  m = task[r[1]].runs /\ task[r[1]].status = "running"
      <4>1. CASE <<r[1], m>> = r
        BY <1>1, <4>1
      <4>2. CASE <<r[1], m>> # r
        BY <2>2, <3>1, <4>2 DEF Steady
      <4> QED BY <4>1, <4>2
    <3> QED BY <1>4, <3>1 DEF Steady
  <2>4. Progress(r[1], run', requests', w)
    BY <1>1, <1>4 DEF Progress, Progressed
  <2>5. Saved(r[1], task', w)
    BY <1>1, <1>4 DEF Saved
  <2>6. ASSUME Alone(r[1]) PROVE Come(r[1], task', run', c)
    <3>1. Come(r[1], task, run, c)
      BY <2>6
    <3>2. ASSUME NEW m \in 1 .. MaxRuns
          PROVE  LET v == run'[<<r[1], m>>] IN
                 /\ v.at = "query" => \A j \in Chunks : c[job[r[1]].file][j] = Nothing
                 /\ v.at \in {"chunk", "wait"} =>
                       /\ v.i < Size[job[r[1]].file] /\ v.have = 0 .. v.i - 1
                       /\ \A j \in 0 .. v.i - 1 : c[job[r[1]].file][j] = "whole"
                 /\ v.at = "merge" => \A j \in 0 .. Size[job[r[1]].file] - 1 : c[job[r[1]].file][j] = "whole"
      <4>1. CASE <<r[1], m>> = r
        BY <2>1, <3>1, <4>1 DEF Come
      <4>2. CASE <<r[1], m>> # r
        BY <2>2, <3>1, <4>2 DEF Come
      <4> QED BY <4>1, <4>2
    <3>3. task' = task
      BY <1>4
    <3> QED BY <3>1, <3>2, <3>3 DEF Come
  <2> QED BY <2>3, <2>4, <2>5, <2>6 DEF Kept
<1> QED BY <1>2, <1>3, <1>4 DEF ChunkFails

(* The answer to a request leaves the other tasks as they are, ...         *)
LEMMA AnswerOther ==
  ASSUME JobType, running \subseteq Tasks, NEW q \in requests, NEW others, NEW c, NEW w,
         Sound(task, run, requests), Sound(task, run, others), ~q.cut => Free(q.run, others),
         Succeeds(q, others) \/ Fails(q, others),
         NEW t \in Tasks, q.cut \/ t # q.run[1], Kept(t, task, run, others, c, w)
  PROVE  Kept(t, task', run', requests', c, w)
<1> DEFINE r == q.run
<1>1. r \in Runs /\ q.kind \in {"chunk", "merge", "direct"} /\ r[1] \in Tasks
      /\ (~q.cut => run[r].at = q.kind)
  BY RunFacts DEF Sound, Lone, WellFormed, RequestSet
<1>2. CASE q.cut
  BY <1>2 DEF Succeeds, Fails
<1>3. CASE ~q.cut
  <2>1. Free(r, others) /\ run[r].at # "none" /\ run[r] \in RunSet /\ t # r[1]
    BY <1>1, <1>3 DEF Sound, RunsOK
  <2>2. ASSUME NEW error, Return(r, error, task, others) PROVE Kept(t, task', run', requests', c, w)
    BY <1>1, <2>1, <2>2, ReturnOther
  <2>3. ASSUME NEW error, Return(r, error, Failing(r[1]), others)
        PROVE  Kept(t, task', run', requests', c, w)
    <3>1. Sound(Failing(r[1]), run, others) /\ Kept(t, Failing(r[1]), run, others, c, w)
      BY <1>1, <2>1, FieldSound, FieldOther
    <3> QED BY <1>1, <2>1, <2>3, <3>1, ReturnOther
  <2>4. ASSUME Return(r, FALSE, Shown(r[1], "done"), others)
        PROVE  Kept(t, task', run', requests', c, w)
    <3>1. Sound(Shown(r[1], "done"), run, others) /\ Kept(t, Shown(r[1], "done"), run, others, c, w)
      BY <1>1, <2>1, FieldSound, FieldOther
    <3> QED BY <1>1, <2>1, <2>4, <3>1, ReturnOther
  <2>5. ASSUME q.kind = "chunk", GoOn(r, run[r].i + 1, run[r].have \cup {run[r].i}, others)
        PROVE  Kept(t, task', run', requests', c, w)
    <3>1. run[r].i + 1 \in Nat
      BY <1>1, <2>1, JobFacts DEF RunSet
    <3>2. run[r].at \in {"query", "chunk"}
      BY <1>1, <1>3, <2>5
    <3> DEFINE have == run[r].have \cup {run[r].i}
    <3> HIDE DEF have
    <3>3. GoOn(r, run[r].i + 1, have, others)
      BY <2>5 DEF have
    <3> QED BY <1>1, <2>1, <3>1, <3>2, <3>3, GoOnOther
  <2>6. ASSUME q.kind = "chunk", ChunkFails(r, others) PROVE Kept(t, task', run', requests', c, w)
    BY <1>1, <1>3, <2>1, <2>6, ChunkFailsOther
  <2> QED BY <1>3, <2>2, <2>3, <2>4, <2>5, <2>6 DEF Succeeds, Fails
<1> QED BY <1>2, <1>3

(* ... and takes its own task on.                                          *)
LEMMA FailsOwn ==
  ASSUME JobType, running \subseteq Tasks, NEW q \in requests, NEW others, NEW c, NEW w,
         Sound(task, run, requests), Sound(task, run, others), ~q.cut, Free(q.run, others),
         Fails(q, others), Steady(q.run[1], task, run, others),
         Alone(q.run[1]) => Come(q.run[1], task, run, c)
  PROVE  Kept(q.run[1], task', run', requests', c, w)
<1> DEFINE r == q.run
<1>1. r \in Runs /\ q.kind \in {"chunk", "merge", "direct"} /\ r[1] \in Tasks
      /\ run[r].at = q.kind /\ run[r].at \in Active
  BY RunFacts DEF Sound, Lone, WellFormed, RequestSet, Active
<1>2. task[r[1]].shown # "paused" /\ (q.kind = "direct" => Size[job[r[1]].file] = 1)
  BY <1>1 DEF Steady, Sound, RunsOK
<1>3. Sound(Failing(r[1]), run, others) /\ Steady(r[1], Failing(r[1]), run, others)
      /\ Failing(r[1])[r[1]].failed
  BY <1>1, FieldSound, FieldOwn
<1>4. CASE q.kind = "chunk" /\ ChunkFails(r, others)
  BY <1>1, <1>4, ChunkFailsOwn
<1>5. CASE q.kind = "direct" /\ Return(r, TRUE, Failing(r[1]), others)
  BY <1>1, <1>2, <1>3, <1>5, ReturnOwn
<1>6. CASE q.kind = "merge" /\ Return(r, FALSE, Failing(r[1]), others)
  BY <1>1, <1>3, <1>6, ReturnOwn
<1> QED BY <1>1, <1>2, <1>4, <1>5, <1>6 DEF Fails

(* A chunk is whole when its handler has answered, and a file is stored.   *)
LEMMA SucceedsOwn ==
  ASSUME JobType, running \subseteq Tasks, NEW q \in requests, NEW others, NEW c, NEW w,
         Sound(task, run, requests), Sound(task, run, others), ~q.cut, Free(q.run, others),
         Succeeds(q, others), Steady(q.run[1], task, run, others),
         Alone(q.run[1]) =>
            IF q.kind = "chunk"
            THEN /\ run[q.run].i < Size[job[q.run[1]].file]
                 /\ run[q.run].have = 0 .. run[q.run].i - 1
                 /\ \A j \in 0 .. run[q.run].i : c[job[q.run[1]].file][j] = "whole"
            ELSE Stored(q.run[1], w)
  PROVE  Kept(q.run[1], task', run', requests', c, w)
<1> DEFINE r == q.run
<1>1. r \in Runs /\ q.kind \in {"chunk", "merge", "direct"} /\ r[1] \in Tasks
      /\ run[r].at = q.kind /\ run[r].at \in Active /\ run[r] \in RunSet
  BY RunFacts DEF Sound, RunsOK, Lone, WellFormed, RequestSet, Active
<1>2. CASE q.kind = "chunk"
  <2> DEFINE have == run[r].have \cup {run[r].i}
             i == run[r].i + 1
  <2>1. run[r].i \in Nat /\ i \in Nat /\ Size[job[r[1]].file] \in Nat
    BY <1>1, JobFacts DEF RunSet
  <2>2. Alone(r[1]) => /\ i <= Size[job[r[1]].file] /\ have = 0 .. i - 1
                       /\ \A j \in 0 .. i - 1 : c[job[r[1]].file][j] = "whole"
    <3>1. ASSUME Alone(r[1])
          PROVE  /\ run[r].i < Size[job[r[1]].file] /\ run[r].have = 0 .. run[r].i - 1
                 /\ \A j \in 0 .. run[r].i : c[job[r[1]].file][j] = "whole"
      BY <1>2, <3>1
    <3>2. (0 .. run[r].i - 1) \cup {run[r].i} = 0 .. i - 1 /\ 0 .. i - 1 = 0 .. run[r].i
      BY <2>1, Before
    <3>3. run[r].i < Size[job[r[1]].file] => i <= Size[job[r[1]].file]
      BY <2>1, Before
    <3> QED BY <3>1, <3>2, <3>3
  <2>3. GoOn(r, i, have, others)
    BY <1>2 DEF Succeeds
  <2>4. run[r].at \in {"query", "chunk"}
    BY <1>1, <1>2
  <2> HIDE DEF have, i
  <2> QED BY <1>1, <2>1, <2>2, <2>3, <2>4, GoOnOwn
<1>3. CASE q.kind # "chunk"
  <2>1. Sound(Shown(r[1], "done"), run, others) /\ Steady(r[1], Shown(r[1], "done"), run, others)
    BY <1>1, FieldSound, FieldOwn
  <2>2. Return(r, FALSE, Shown(r[1], "done"), others)
    BY <1>3 DEF Succeeds
  <2>3. Alone(r[1]) => Stored(r[1], w)
    BY <1>3
  <2> QED BY <1>1, <2>1, <2>2, <2>3, ReturnOwn
<1> QED BY <1>2, <1>3

(***************************************************************************)
(* The steps of the browser.                                               *)
(***************************************************************************)
(* What is kept of a task before a step.                                   *)
KeptNow(t) == Kept(t, task, run, requests, chunk, file)

(* The same after the step.                                                *)
KeptNext(t) == Kept(t, task', run', requests', chunk', file')

(* The parts of the invariant that the lemmas above ask for.               *)
LEMMA InvFacts ==
  ASSUME UploadInv
  PROVE  JobType /\ Sound(task, run, requests) /\ running \in SUBSET Tasks /\ calm \subseteq Tasks
         /\ task \in [Tasks -> TaskSet] /\ run \in [Runs -> RunSet]
BY DEF UploadInv, JobType, Sound, RunsOK

(* The first start of the queue.                                           *)
LEMMA AddKept == ASSUME UploadInv, Add, NEW t \in Tasks, KeptNow(t) PROVE KeptNext(t)
<1>1. ProcessQueue(task, running, run, requests) /\ UNCHANGED <<chunk, file>>
  BY DEF Add
<1>2. Kept(t, task', run', requests', chunk, file)
  BY <1>1, InvFacts, QueueKept DEF KeptNow
<1> QED BY <1>1, <1>2 DEF KeptNext

(* The answer to getUploadedChunks: a task that is alone finds no chunk of *)
(* its content.                                                            *)
LEMMA ListedKept ==
  ASSUME UploadInv, NEW r \in Runs, Listed(r), NEW t \in Tasks, KeptNow(t) PROVE KeptNext(t)
<1> DEFINE h == {i \in Chunks : chunk[job[r[1]].file][i] # Nothing}
<1>1. run[r].at = "query" /\ (GoOn(r, 0, h, requests) \/ GoOn(r, 0, {}, requests))
      /\ UNCHANGED <<chunk, file>>
  BY DEF Listed
<1>2. Free(r, requests)
  BY <1>1, InvFacts DEF Free, Sound, Lone, WellFormed, RequestSet
<1>3. PICK have : (have = h \/ have = {}) /\ GoOn(r, 0, have, requests)
  BY <1>1
<1>4. CASE t # r[1]
  <2>1. Kept(t, task', run', requests', chunk, file)
    BY <1>1, <1>2, <1>3, <1>4, InvFacts, GoOnOther DEF KeptNow
  <2> QED BY <1>1, <2>1 DEF KeptNext
<1>5. CASE t = r[1]
  <2>1. ASSUME Alone(t) PROVE have = {}
    <3>1. Come(t, task, run, chunk)
      BY <2>1 DEF KeptNow, Kept
    <3>2. r = <<t, r[2]>> /\ r[2] \in 1 .. MaxRuns
      BY <1>5, RunFacts
    <3>3. run[<<t, r[2]>>].at = "query"
      BY <1>1, <3>2
    <3>4. \A j \in Chunks : chunk[job[t].file][j] = Nothing
      BY <3>1, <3>2, <3>3 DEF Come
    <3> QED BY <1>3, <1>5, <3>4
  <2>2. Alone(r[1]) => /\ 0 <= Size[job[r[1]].file] /\ have = 0 .. 0 - 1
                       /\ \A j \in 0 .. 0 - 1 : chunk[job[r[1]].file][j] = "whole"
    BY <1>5, <2>1, InvFacts, JobFacts
  <2>3. Steady(r[1], task, run, requests)
    BY <1>5 DEF KeptNow, Kept
  <2>4. Kept(r[1], task', run', requests', chunk, file)
    BY <1>1, <1>2, <1>3, <2>2, <2>3, InvFacts, GoOnOwn
  <2> QED BY <1>1, <1>5, <2>4 DEF KeptNext
<1> QED BY <1>4, <1>5

(* The same chunk is sent again.                                           *)
LEMMA WaitOverKept ==
  ASSUME UploadInv, NEW r \in Runs, WaitOver(r), NEW t \in Tasks, KeptNow(t) PROVE KeptNext(t)
<1>1. run[r].at = "wait" /\ UNCHANGED <<chunk, file>> /\ r[1] \in Tasks
  BY RunFacts DEF WaitOver
<1>2. Free(r, requests)
  BY <1>1, InvFacts DEF Free, Sound, Lone, WellFormed, RequestSet
<1> DEFINE e == [run[r] EXCEPT !.at = "chunk", !.try = @ + 1]
           o == Request(r, "chunk", run[r].i, run[r].try + 1)
<1>3. \/ Return(r, TRUE, task, requests) /\ task[r[1]].shown = "paused"
      \/ Return(r, FALSE, Failing(r[1]), requests) /\ task[r[1]].shown = "canceled"
      \/ /\ run' = [run EXCEPT ![r] = e] /\ requests' = requests \cup {o}
         /\ task' = [task EXCEPT ![r[1]].xhr = r[2]]
  BY InvFacts DEF WaitOver
<1>4. e.at = "chunk" /\ e.i = run[r].i /\ e.have = run[r].have /\ e.i \in Nat
  BY <1>1, InvFacts, JobFacts DEF RunSet
<1>5. o.run = r /\ o.kind = "chunk" /\ o.at = "sent" /\ ~o.cut /\ o.i = run[r].i
  BY DEF Request
<1> HIDE DEF e, o
<1>6. CASE t # r[1]
  <2>1. CASE Return(r, TRUE, task, requests)
    <3>1. Kept(t, task', run', requests', chunk, file)
      BY <1>1, <1>2, <1>6, <2>1, InvFacts, ReturnOther DEF KeptNow
    <3> QED BY <1>1, <3>1 DEF KeptNext
  <2>2. CASE Return(r, FALSE, Failing(r[1]), requests)
    <3>1. Sound(Failing(r[1]), run, requests)
      BY <1>1, InvFacts, FieldSound
    <3>2. Kept(t, Failing(r[1]), run, requests, chunk, file)
      BY <1>1, <1>6, InvFacts, FieldOther DEF KeptNow
    <3>3. Kept(t, task', run', requests', chunk, file)
      BY <1>1, <1>2, <1>6, <2>2, <3>1, <3>2, InvFacts, ReturnOther
    <3> QED BY <1>1, <3>3 DEF KeptNext
  <2>3. CASE /\ run' = [run EXCEPT ![r] = e] /\ requests' = requests \cup {o}
             /\ task' = [task EXCEPT ![r[1]].xhr = r[2]]
    <3>1. \A m \in 1 .. MaxRuns : run'[<<t, m>>] = run[<<t, m>>]
      <4>1. \A m \in 1 .. MaxRuns : <<t, m>> \in Runs /\ <<t, m>> # r
        BY <1>6, RunFacts
      <4> QED BY <2>3, <4>1, InvFacts
    <3>2. task'[t] = task[t] /\ \A p \in requests' : p.run[1] = t => p \in requests
      BY <1>5, <1>6, <2>3, InvFacts
    <3>3. Kept(t, task', run', requests', chunk, file)
      BY <3>1, <3>2, InvFacts, FrameKept DEF KeptNow
    <3> QED BY <1>1, <3>3 DEF KeptNext
  <2> QED BY <1>3, <2>1, <2>2, <2>3
<1>7. CASE t = r[1]
  <2>1. Steady(t, task, run, requests) /\ task[t].shown \notin {"paused", "canceled"}
        /\ run[r].at \in Active
    BY <1>1 DEF KeptNow, Kept, Steady, Active
  <2>2. /\ run' = [run EXCEPT ![r] = e] /\ requests' = requests \cup {o}
        /\ task' = [task EXCEPT ![r[1]].xhr = r[2]]
    BY <1>3, <1>7, <2>1
  <2>3. r = <<t, r[2]>> /\ r[2] \in 1 .. MaxRuns /\ r[2] \in 0 .. MaxRuns
    BY <1>7, RunFacts, BoundAssumption
  <2>4. ASSUME Alone(t) PROVE Sent(t, e, chunk)
    <3>1. Come(t, task, run, chunk) /\ run[<<t, r[2]>>].at = "wait"
      BY <1>1, <2>3, <2>4 DEF KeptNow, Kept
    <3>2. /\ run[<<t, r[2]>>].i < Size[job[t].file]
          /\ run[<<t, r[2]>>].have = 0 .. run[<<t, r[2]>>].i - 1
          /\ \A j \in 0 .. run[<<t, r[2]>>].i - 1 : chunk[job[t].file][j] = "whole"
      BY <2>3, <3>1 DEF Come
    <3> QED BY <1>4, <2>3, <3>2 DEF Sent
  <2>5. Sends(r, e, o)
    BY <1>4, <1>5 DEF Sends
  <2>6. Steady(t, task', run, requests) /\ task'[t].status = task[t].status
    BY <1>7, <2>1, <2>2, <2>3, InvFacts, FieldOwn DEF TaskSet
  <2>7. Kept(r[1], task', [run EXCEPT ![r] = e], requests \cup {o}, chunk, file)
    BY <1>2, <1>7, <2>1, <2>4, <2>5, <2>6, InvFacts, SendKept
  <2> QED BY <1>1, <1>7, <2>2, <2>7 DEF KeptNext
<1> QED BY <1>6, <1>7

(* A task that is not the one that is paused or removed.                   *)
LEMMA StopKept ==
  ASSUME UploadInv, NEW s \in Tasks, NEW status \in {"paused", "removed"},
         NEW shown \in {"paused", "canceled"}, Stop(s, status, shown),
         NEW t \in Tasks, t # s, KeptNow(t)
  PROVE  KeptNext(t)
<1> DEFINE k == [task EXCEPT ![s].status = status, ![s].shown = shown,
                             ![s].aborted = @ \/ task[s].status = "running"]
           n == IF task[s].status = "running" THEN running \ {s} ELSE running
           u == Over(Abort(s), status = "removed")
           q == CutOff(Abort(s))
<1>1. Sound(k, u, q) /\ n \in SUBSET Tasks /\ ProcessQueue(k, n, u, q)
  BY StopQueue
<1>2. k[t] = task[t]
  BY InvFacts
<1>3. \A o \in Abort(s) : o \in requests /\ o.run[1] = s
  BY DEF Abort
<1>4. \A m \in 1 .. MaxRuns : u[<<t, m>>] = run[<<t, m>>]
  <2>1. ASSUME NEW m \in 1 .. MaxRuns PROVE u[<<t, m>>] = run[<<t, m>>]
    <3>1. <<t, m>> \in Runs /\ <<t, m>>[1] = t
      BY RunFacts
    <3>2. ~ \E o \in Abort(s) : o.run = <<t, m>>
      BY <1>3, <3>1
    <3> QED BY <3>1, <3>2 DEF Over
  <2> QED BY <2>1
<1>5. ASSUME NEW o \in q, o.run[1] = t PROVE o \in requests
  <2>1. CASE o \in requests
    BY <2>1
  <2>2. CASE o \notin requests
    <3>1. PICK p \in Abort(s) : o = [p EXCEPT !.cut = TRUE]
      BY <2>2 DEF CutOff
    <3>2. WellFormed(p) /\ p.run[1] = s
      BY <1>3, RequestTypes
    <3>3. o.run = p.run
      BY <3>1, <3>2, EditFacts
    <3> QED BY <1>5, <3>2, <3>3
  <2> QED BY <2>1, <2>2
<1>6. UNCHANGED <<chunk, file>>
  BY DEF Stop
<1> HIDE DEF k, n, u, q
<1>7. Kept(t, k, u, q, chunk, file)
  BY <1>2, <1>4, <1>5, InvFacts, FrameKept DEF KeptNow
<1>8. Kept(t, task', run', requests', chunk, file)
  BY <1>1, <1>7, InvFacts, QueueKept
<1> QED BY <1>6, <1>8 DEF KeptNext

(* resumeTask and retryTask: a task that is left alone and failed was sent *)
(* directly.                                                               *)
LEMMA AgainKept ==
  ASSUME UploadInv, NEW s \in Tasks, ResumeTask(s) \/ RetryTask(s), NEW t \in Tasks, KeptNow(t)
  PROVE  KeptNext(t)
<1>1. task[s] \in TaskSet /\ UNCHANGED <<chunk, file>>
  BY InvFacts DEF ResumeTask, RetryTask
<1>2. PICK e \in TaskSet : /\ e.runs = task[s].runs /\ e.runs < MaxRuns /\ e.status = "pending"
                           /\ e.shown = "uploading" /\ ~e.aborted
                           /\ ProcessQueue([task EXCEPT ![s] = e], running, run, requests)
  <2>1. CASE ResumeTask(s)
    <3> DEFINE e == [task[s] EXCEPT !.status = "pending", !.shown = "uploading", !.aborted = FALSE]
    <3>1. e \in TaskSet /\ e.runs = task[s].runs /\ e.status = "pending" /\ e.shown = "uploading"
          /\ ~e.aborted
      BY <1>1 DEF TaskSet, Statuses
    <3>2. [task EXCEPT ![s].status = "pending", ![s].shown = "uploading", ![s].aborted = FALSE]
              = [task EXCEPT ![s] = e]
      BY InvFacts
    <3>3. ProcessQueue([task EXCEPT ![s] = e], running, run, requests) /\ task[s].runs < MaxRuns
      BY <2>1, <3>2 DEF ResumeTask
    <3> HIDE DEF e
    <3> QED BY <3>1, <3>3
  <2>2. CASE RetryTask(s)
    <3> DEFINE e == [task[s] EXCEPT !.status = "pending", !.shown = "uploading",
                                    !.failed = FALSE, !.aborted = FALSE]
    <3>1. e \in TaskSet /\ e.runs = task[s].runs /\ e.status = "pending" /\ e.shown = "uploading"
          /\ ~e.aborted
      BY <1>1 DEF TaskSet, Statuses
    <3>2. [task EXCEPT ![s].status = "pending", ![s].shown = "uploading",
                       ![s].failed = FALSE, ![s].aborted = FALSE]
              = [task EXCEPT ![s] = e]
      BY InvFacts
    <3>3. ProcessQueue([task EXCEPT ![s] = e], running, run, requests) /\ task[s].runs < MaxRuns
      BY <2>2, <3>2 DEF RetryTask
    <3> HIDE DEF e
    <3> QED BY <3>1, <3>3
  <2> QED BY <2>1, <2>2
<1> DEFINE k == [task EXCEPT ![s] = e]
<1>3. Sound(k, run, requests)
  BY <1>2, InvFacts, TaskSound
<1>4. Kept(t, k, run, requests, chunk, file)
  <2>1. CASE t # s
    <3>1. k[t] = task[t]
      BY <2>1, InvFacts
    <3> HIDE DEF k
    <3> QED BY <3>1, InvFacts, FrameKept DEF KeptNow
  <2>2. CASE t = s
    <3>1. k[t] = e
      BY <2>2, InvFacts
    <3>2. Steady(t, task, run, requests)
      BY DEF KeptNow, Kept
    <3>3. task[t].status = "failed"
      BY <2>2, <3>2 DEF ResumeTask, RetryTask, Steady
    <3>4. (\A o \in requests : o.run[1] # t) /\ \A m \in 1 .. MaxRuns : run[<<t, m>>].at \notin Active
      BY <3>2, <3>3, InvFacts, SteadyFacts DEF Steady
    <3> HIDE DEF k
    <3>5. Steady(t, k, run, requests)
      BY <1>2, <3>1, <3>4 DEF Steady
    <3>6. Progress(t, run, requests, file)
      BY <3>4 DEF Progress
    <3>7. Saved(t, k, file)
      BY <1>2, <3>1 DEF Saved
    <3>8. ASSUME Alone(t) PROVE Come(t, k, run, chunk)
      <4>1. Size[job[t].file] = 1
        BY <3>3, <3>8 DEF KeptNow, Kept, Come
      <4> QED BY <3>4, <4>1 DEF Come, Active
    <3> QED BY <3>5, <3>6, <3>7, <3>8 DEF Kept
  <2> QED BY <2>1, <2>2
<1> HIDE DEF k
<1>5. ProcessQueue(k, running, run, requests)
  BY <1>2 DEF k
<1>6. Kept(t, task', run', requests', chunk, file)
  BY <1>3, <1>4, <1>5, InvFacts, QueueKept
<1> QED BY <1>1, <1>6 DEF KeptNext

(* A broken connection is that of a task that is not calm any more.        *)
LEMMA LoseKept ==
  ASSUME UploadInv, NEW q \in requests, LoseConnection(q), NEW t \in Tasks, t # q.run[1], KeptNow(t)
  PROVE  KeptNext(t)
<1> DEFINE others == CutOff({q})
<1>1. ~q.cut /\ Fails(q, others) /\ UNCHANGED <<chunk, file>> /\ WellFormed(q)
  BY RequestTypes DEF LoseConnection
<1>2. others = (requests \ {q}) \cup {[o EXCEPT !.cut = TRUE] : o \in {q} \cap requests}
  BY DEF CutOff
<1>3. Sound(task, run, others)
  <2>1. Sound(task, run, (requests \ {q}) \cup {[o EXCEPT !.cut = TRUE] : o \in {q} \cap requests})
    BY InvFacts, CutSound
  <2> QED BY <1>2, <2>1
<1>4. [q EXCEPT !.cut = TRUE].cut /\ [q EXCEPT !.cut = TRUE].run = q.run
  BY <1>1, EditFacts
<1>5. Free(q.run, others)
  <2>1. \A o \in requests \ {q} : o.run = q.run => o.cut
    BY <1>1, InvFacts DEF Sound, Lone
  <2> QED BY <1>4, <2>1 DEF Free, CutOff
<1>6. \A o \in others : o.run[1] = t => o \in requests
  BY <1>4 DEF CutOff
<1> HIDE DEF others
<1>7. Kept(t, task, run, others, chunk, file)
  BY <1>6, InvFacts, FrameKept DEF KeptNow
<1>8. Kept(t, task', run', requests', chunk, file)
  BY <1>1, <1>3, <1>5, <1>7, InvFacts, AnswerOther
<1> QED BY <1>1, <1>8 DEF KeptNext

(***************************************************************************)
(* The steps of the handlers.                                              *)
(***************************************************************************)
(* Only a request that was cut can be lost.                                *)
LEMMA NeverArrivesKept ==
  ASSUME UploadInv, NEW q \in requests, NeverArrives(q), NEW t \in Tasks, KeptNow(t) PROVE KeptNext(t)
<1>1. UNCHANGED <<task, run, chunk, file>> /\ requests' \subseteq requests
  BY DEF NeverArrives
<1>2. Kept(t, task', run', requests', chunk', file')
  BY <1>1, InvFacts, FrameKept DEF KeptNow
<1> QED BY <1>2 DEF KeptNext

(* A handler of another task does not touch what one works on.             *)
LEMMA Apart ==
  ASSUME UploadInv, NEW q \in requests, NEW t \in Tasks, q.run[1] # t, Alone(t)
  PROVE  /\ FileOf(q) # job[t].file /\ NameOf(q) # job[t].name
         /\ \A o \in requests : o.run[1] = t =>
               /\ FileOf(o) # FileOf(q)
               /\ \A m : o.dest # <<NameOf(q), m>> \/ o.dest = Nothing
<1>1. FileOf(q) # job[t].file /\ NameOf(q) # job[t].name
  BY RequestTypes DEF Alone, FileOf, NameOf
<1>2. ASSUME NEW o \in requests, o.run[1] = t PROVE FileOf(o) # FileOf(q)
  BY <1>1, <1>2 DEF FileOf
<1>3. ASSUME NEW o \in requests, o.run[1] = t, o.dest # Nothing, NEW m PROVE o.dest # <<NameOf(q), m>>
  <2>1. PICK l \in 0 .. MaxCopies : o.dest = <<NameOf(o), l>>
    BY <1>3, RequestTypes DEF WellFormed
  <2>2. NameOf(o) = job[t].name
    BY <1>3 DEF NameOf
  <2> QED BY <1>1, <2>1, <2>2
<1> QED BY <1>1, <1>2, <1>3

(* What a handler truncates or removes is not what the task works on.      *)
LEMMA DisownOther ==
  ASSUME UploadInv, NEW q \in requests, NEW S, NEW t \in Tasks,
         Alone(t) => \A p \in requests \cap S : p.run[1] # t
  PROVE  \A o \in Disowned(requests \ {q}, S) : o.run[1] = t =>
            \E p \in requests : /\ p.run = o.run /\ p.cut = o.cut
                                /\ Alone(t) => o = p
<1>1. \A p \in requests \ {q} : WellFormed(p)
  BY RequestTypes
<1> SUFFICES ASSUME NEW o \in Disowned(requests \ {q}, S), o.run[1] = t
             PROVE  \E p \in requests : p.run = o.run /\ p.cut = o.cut /\ (Alone(t) => o = p)
  OBVIOUS
<1>2. PICK p \in requests \ {q} : Descends(o, p) /\ o.cut = p.cut /\ (IF p \in S THEN ~o.own ELSE o = p)
  BY <1>1, DescendsFacts
<1>3. p.run = o.run
  BY <1>2 DEF Descends
<1> QED BY <1>2, <1>3

(* The files and the chunks of a task that is left alone.                  *)
Untouched(t) ==
    Alone(t) => /\ chunk'[job[t].file] = chunk[job[t].file]
                /\ \A m \in 0 .. MaxCopies : file'[<<job[t].name, m>>] = file[<<job[t].name, m>>]

(* No handler of another task writes to its chunks or its names.           *)
LEMMA HandlerUntouched ==
  ASSUME UploadInv, NEW q \in requests, NEW t \in Tasks, q.run[1] # t,
         \/ CreateChunk(q) \/ ChunkSaved(q) \/ ChunkBreaks(q)
         \/ ChooseName(q) \/ CreateFile(q) \/ DirectSaved(q) \/ DirectBreaks(q) \/ MergeBreaks(q)
         \/ AppendChunk(q) \/ MissingChunk(q) \/ CreateFails(q) \/ Merged(q)
  PROVE  Untouched(t)
<1> SUFFICES ASSUME Alone(t)
             PROVE  /\ chunk'[job[t].file] = chunk[job[t].file]
                    /\ \A m \in 0 .. MaxCopies : file'[<<job[t].name, m>>] = file[<<job[t].name, m>>]
  BY DEF Untouched
<1>1. /\ FileOf(q) # job[t].file /\ NameOf(q) # job[t].name /\ WellFormed(q)
      /\ job[t].file \in Files /\ job[t].name \in Names
      /\ \A m \in 0 .. MaxCopies : <<job[t].name, m>> \in Paths
      /\ chunk \in [Files -> [Chunks -> {"part", "whole", Nothing}]]
      /\ file \in [Paths -> [Chunks -> Contents] \cup {Nothing}]
  <2>1. job[t].file \in Files /\ job[t].name \in Names
    BY InvFacts, JobFacts
  <2> QED BY <2>1, Apart, RequestTypes DEF UploadInv, DiskOK, Paths
<1>2. chunk'[job[t].file] = chunk[job[t].file]
  <2>1. \/ chunk' = chunk
        \/ \E v : chunk' = [chunk EXCEPT ![FileOf(q)] = v]
    BY DEF CreateChunk, ChunkSaved, ChunkBreaks, ChooseName, CreateFile, DirectSaved,
           DirectBreaks, MergeBreaks, AppendChunk, MissingChunk, CreateFails, Merged
  <2> QED BY <1>1, <2>1
<1>3. ASSUME q.kind # "chunk", q.at # "sent", NEW m PROVE q.dest # <<job[t].name, m>>
  <2>1. q.at \in {"chosen", "copy"}
    BY <1>1, <1>3 DEF WellFormed, RequestSet
  <2>2. PICK l \in 0 .. MaxCopies : q.dest = <<NameOf(q), l>>
    BY <1>1, <1>3, <2>1 DEF WellFormed
  <2> QED BY <1>1, <2>2
<1>4. \/ file' = file
      \/ q.kind # "chunk" /\ q.at # "sent" /\ \E v : file' = [file EXCEPT ![q.dest] = v]
      \/ \E v : file' = [file EXCEPT ![<<NameOf(q), 0>>] = v]
  <2>1. CASE CreateFile(q)
    <3>1. q.kind # "chunk" /\ q.at = "chosen" /\ file' = [file EXCEPT ![q.dest] = Empty]
      BY <1>1, <2>1 DEF CreateFile, WellFormed
    <3> QED BY <3>1
  <2>2. CASE DirectSaved(q) \/ DirectBreaks(q) \/ MergeBreaks(q) \/ AppendChunk(q)
    <3>1. q.kind # "chunk" /\ q.at = "copy" /\ \E i, whole : Written(q, i, whole)
      BY <2>2 DEF DirectSaved, DirectBreaks, MergeBreaks, AppendChunk
    <3> QED BY <3>1 DEF Written
  <2>3. CASE ChooseName(q)
    BY <2>3 DEF ChooseName, NameOf
  <2>4. CASE \/ CreateChunk(q) \/ ChunkSaved(q) \/ ChunkBreaks(q)
           \/ MissingChunk(q) \/ CreateFails(q) \/ Merged(q)
    BY <2>4 DEF CreateChunk, ChunkSaved, ChunkBreaks, MissingChunk, CreateFails, Merged
  <2> QED BY <2>1, <2>2, <2>3, <2>4
<1>5. ASSUME NEW m \in 0 .. MaxCopies PROVE file'[<<job[t].name, m>>] = file[<<job[t].name, m>>]
  BY <1>1, <1>3, <1>4
<1> QED BY <1>2, <1>5

(* So no handler of another task disturbs it.                              *)
LEMMA HandlerOther ==
  ASSUME UploadInv, NEW q \in requests, NEW t \in Tasks, q.run[1] # t, KeptNow(t),
         \/ CreateChunk(q) \/ ChunkSaved(q) \/ ChunkBreaks(q)
         \/ ChooseName(q) \/ CreateFile(q) \/ DirectSaved(q) \/ DirectBreaks(q) \/ MergeBreaks(q)
         \/ AppendChunk(q) \/ MissingChunk(q) \/ CreateFails(q) \/ Merged(q)
  PROVE  KeptNext(t)
<1>1. /\ Alone(t) => chunk'[job[t].file] = chunk[job[t].file]
                     /\ \A m \in 0 .. MaxCopies : file'[<<job[t].name, m>>] = file[<<job[t].name, m>>]
  BY HandlerUntouched DEF Untouched
<1>2. ASSUME NEW p, \A o \in p : o.run[1] = t =>
                       \E v \in requests : v.run = o.run /\ v.cut = o.cut /\ (Alone(t) => o = v)
      PROVE  Kept(t, task, run, p, chunk', file')
  BY <1>1, <1>2, InvFacts, FrameKept DEF KeptNow
<1>3. ASSUME NEW p, Sound(task, run, p), ~q.cut => Free(q.run, p), Succeeds(q, p) \/ Fails(q, p),
             \A o \in p : o.run[1] = t =>
                       \E v \in requests : v.run = o.run /\ v.cut = o.cut /\ (Alone(t) => o = v)
      PROVE  KeptNext(t)
  <2>1. Kept(t, task, run, p, chunk', file')
    BY <1>2, <1>3
  <2>2. Kept(t, task', run', requests', chunk', file')
    BY <1>3, <2>1, InvFacts, AnswerOther
  <2> QED BY <2>2 DEF KeptNext
<1>4. ASSUME UNCHANGED <<task, run>>,
             \A o \in requests' : o.run[1] = t =>
                       \E v \in requests : v.run = o.run /\ v.cut = o.cut /\ (Alone(t) => o = v)
      PROVE  KeptNext(t)
  <2>1. Kept(t, task, run, requests', chunk', file')
    BY <1>2, <1>4
  <2> QED BY <1>4, <2>1 DEF KeptNext
<1>5. CASE \/ ChunkSaved(q) \/ ChunkBreaks(q) \/ DirectSaved(q) \/ DirectBreaks(q)
           \/ MergeBreaks(q) \/ MissingChunk(q) \/ CreateFails(q)
  <2>1. Succeeds(q, requests \ {q}) \/ Fails(q, requests \ {q})
    BY <1>5 DEF ChunkSaved, ChunkBreaks, DirectSaved, DirectBreaks, MergeBreaks, MissingChunk, CreateFails
  <2>2. Sound(task, run, requests \ {q})
    BY InvFacts, FewerSound
  <2>3. ~q.cut => Free(q.run, requests \ {q})
    BY InvFacts DEF Sound, Lone, Free
  <2> DEFINE p == requests \ {q}
  <2>4. \A o \in p : o.run[1] = t =>
            \E v \in requests : v.run = o.run /\ v.cut = o.cut /\ (Alone(t) => o = v)
    OBVIOUS
  <2>5. Sound(task, run, p) /\ (~q.cut => Free(q.run, p)) /\ (Succeeds(q, p) \/ Fails(q, p))
    BY <2>1, <2>2, <2>3
  <2> HIDE DEF p
  <2> QED BY <1>3, <2>4, <2>5
<1>6. CASE Merged(q)
  <2> DEFINE S == {o \in requests : o.kind = "chunk" /\ FileOf(o) = FileOf(q)}
             p == Disowned(requests \ {q}, S)
  <2>1. Succeeds(q, p)
    BY <1>6, MergedSound
  <2>2. Sound(task, run, p)
    BY InvFacts, FewerSound, DisownSound
  <2>3. Alone(t) => \A o \in requests \cap S : o.run[1] # t
    BY Apart
  <2>4. ~q.cut => Free(q.run, p)
    <3>1. \A o \in requests \ {q} : WellFormed(o)
      BY RequestTypes
    <3>2. \A o \in p : \E v \in requests \ {q} : o.run = v.run /\ o.cut = v.cut
      BY <3>1, DescendsFacts DEF Descends
    <3> QED BY <3>2, InvFacts DEF Sound, Lone, Free
  <2> HIDE DEF S
  <2>5. \A o \in p : o.run[1] = t =>
            \E v \in requests : v.run = o.run /\ v.cut = o.cut /\ (Alone(t) => o = v)
    BY <2>3, DisownOther
  <2> HIDE DEF p
  <2> QED BY <1>3, <2>1, <2>2, <2>4, <2>5
<1>7. ASSUME NEW S, NEW e, Same(e, q), requests' = Disowned(requests \ {q}, S) \cup {e},
             UNCHANGED <<task, run>>, Alone(t) => \A o \in requests \cap S : o.run[1] # t
      PROVE  KeptNext(t)
  <2>1. \A o \in Disowned(requests \ {q}, S) : o.run[1] = t =>
            \E v \in requests : v.run = o.run /\ v.cut = o.cut /\ (Alone(t) => o = v)
    BY <1>7, DisownOther
  <2>2. e.run[1] # t
    BY <1>7 DEF Same
  <2> QED BY <1>4, <1>7, <2>1, <2>2
<1>8. ASSUME NEW e, Same(e, q), requests' = (requests \ {q}) \cup {e}, UNCHANGED <<task, run>>
      PROVE  KeptNext(t)
  <2>1. e.run[1] # t
    BY <1>8 DEF Same
  <2> QED BY <1>4, <1>8, <2>1
<1>9. CASE CreateChunk(q)
  <2> DEFINE S == {p \in requests : SameChunk(q, p)}
             e == [q EXCEPT !.at = "copy", !.own = TRUE]
  <2>1. requests' = Disowned(requests \ {q}, S) \cup {e} /\ Same(e, q)
    BY <1>9, CreateChunkSound
  <2>2. Alone(t) => \A o \in requests \cap S : o.run[1] # t
    BY Apart DEF SameChunk
  <2>3. UNCHANGED <<task, run>>
    BY <1>9 DEF CreateChunk
  <2> HIDE DEF S, e
  <2> QED BY <1>7, <2>1, <2>2, <2>3
<1>10. CASE ChooseName(q)
  <2>1. PICK m \in 0 .. MaxCopies :
           LET e == [q EXCEPT !.at = "chosen", !.dest = <<NameOf(q), m>>]
           IN /\ WellFormed(e) /\ Same(e, q) /\ e.dest = <<NameOf(q), m>>
              /\ \/ requests' = Disowned(requests \ {q}, {p \in requests : p.dest = e.dest}) \cup {e}
                 \/ requests' = (requests \ {q}) \cup {e}
    BY <1>10, ChooseNameSound
  <2> DEFINE e == [q EXCEPT !.at = "chosen", !.dest = <<NameOf(q), m>>]
             S == {p \in requests : p.dest = e.dest}
  <2>2. \/ requests' = Disowned(requests \ {q}, S) \cup {e}
        \/ requests' = (requests \ {q}) \cup {e}
    BY <2>1
  <2>3. Alone(t) => \A o \in requests \cap S : o.run[1] # t
    <3>1. e.dest = <<NameOf(q), m>> /\ e.dest \in Paths
      <4>1. e.dest = <<NameOf(q), m>>
        BY <2>1
      <4>2. NameOf(q) \in Names
        BY RequestTypes
      <4> HIDE DEF e
      <4> QED BY <4>1, <4>2 DEF Paths
    <3>2. e.dest # Nothing
      BY <3>1, NothingAssumption
    <3> HIDE DEF e
    <3> QED BY <3>1, <3>2, Apart
  <2>4. UNCHANGED <<task, run>> /\ Same(e, q)
    BY <1>10, <2>1 DEF ChooseName
  <2> HIDE DEF S, e
  <2>5. CASE requests' = Disowned(requests \ {q}, S) \cup {e}
    BY <1>7, <2>3, <2>4, <2>5
  <2>6. CASE requests' = (requests \ {q}) \cup {e}
    BY <1>8, <2>4, <2>6
  <2> QED BY <2>2, <2>5, <2>6
<1>11. CASE CreateFile(q)
  <2> DEFINE e == [q EXCEPT !.at = "copy", !.own = TRUE]
  <2>1. requests' = (requests \ {q}) \cup {e} /\ Same(e, q) /\ UNCHANGED <<task, run>>
    BY <1>11, CreateFileSound DEF CreateFile
  <2> HIDE DEF e
  <2> QED BY <1>8, <2>1
<1>12. CASE AppendChunk(q)
  <2>1. PICK e : requests' = (requests \ {q}) \cup {e} /\ Same(e, q)
    BY <1>12, AppendChunkSound
  <2>2. UNCHANGED <<task, run>>
    BY <1>12 DEF AppendChunk
  <2> QED BY <1>8, <2>1, <2>2
<1> QED BY <1>5, <1>6, <1>9, <1>10, <1>11, <1>12

(* The only request of a task that is left alone goes on.                  *)
LEMMA GoesOn ==
  ASSUME UploadInv, NEW q \in requests, NEW t, t = q.run[1], KeptNow(t), NEW e, Same(e, q),
         NEW S, requests' = S \cup {e}, \A o \in S : \E p \in requests \ {q} : o.run = p.run,
         UNCHANGED <<task, run>>,
         Alone(t) => Progressed(t, run, e, file') /\ Come(t, task, run, chunk')
  PROVE  KeptNext(t)
<1>1. Steady(t, task, run, requests) /\ t \in Tasks
  BY RequestTypes DEF KeptNow, Kept
<1>2. \A o \in requests : o.run[1] = t => o = q
  BY <1>1, InvFacts, SteadyFacts
<1>3. \A o \in S : o.run[1] # t
  BY <1>2
<1>4. ~q.cut /\ task[t].status = "running"
  BY <1>1, InvFacts, SteadyFacts
<1>5. Steady(t, task', run', requests')
  BY <1>1, <1>3, <1>4 DEF Steady, Same
<1>6. Alone(t) => Progress(t, run', requests', file')
  BY <1>3 DEF Progress
<1>7. Saved(t, task', file')
  BY <1>4 DEF Saved
<1> QED BY <1>5, <1>6, <1>7 DEF KeptNext, Kept

(* What is known of a task that is left alone while its request is with a  *)
(* handler.                                                                *)
LEMMA OwnFacts ==
  ASSUME UploadInv, NEW q \in requests, KeptNow(q.run[1])
  PROVE  LET t == q.run[1] IN
         /\ t \in Tasks /\ ~q.cut /\ run[q.run].at = q.kind /\ q.run \in Runs /\ WellFormed(q)
         /\ run[q.run] \in RunSet /\ task[t].status = "running"
         /\ Steady(t, task, run, requests \ {q}) /\ Steady(t, task, run, requests)
         /\ Sound(task, run, requests \ {q}) /\ Free(q.run, requests \ {q})
         /\ \A m \in 1 .. MaxRuns : run[<<t, m>>].at \in Active => <<t, m>> = q.run
         /\ Alone(t) => /\ Progressed(t, run, q, file) /\ Come(t, task, run, chunk)
                        /\ q.kind = "chunk" => /\ q.i = run[q.run].i
                                               /\ q.i < Size[job[t].file]
                                               /\ run[q.run].have = 0 .. q.i - 1
                                               /\ \A j \in 0 .. q.i - 1 : chunk[job[t].file][j] = "whole"
                        /\ q.kind = "merge" => \A j \in 0 .. Size[job[t].file] - 1 : chunk[job[t].file][j] = "whole"
<1> DEFINE t == q.run[1]
<1>1. t \in Tasks /\ q.run \in Runs /\ WellFormed(q) /\ Steady(t, task, run, requests)
  BY RequestTypes DEF KeptNow, Kept
<1>2. ~q.cut /\ run[q.run].at = q.kind /\ task[t].status = "running" /\ run[q.run] \in RunSet
      /\ q.run = <<t, task[t].runs>> /\ \A o \in requests : o.run[1] = t => o = q
  BY <1>1, InvFacts, SteadyFacts
<1>3. Steady(t, task, run, requests \ {q})
  BY <1>1 DEF Steady
<1>4. Sound(task, run, requests \ {q}) /\ Free(q.run, requests \ {q})
  BY <1>2, InvFacts, FewerSound DEF Free
<1>5. \A m \in 1 .. MaxRuns : run[<<t, m>>].at \in Active => <<t, m>> = q.run
  BY <1>1, <1>2 DEF Steady
<1>6. ASSUME Alone(t)
      PROVE  /\ Progressed(t, run, q, file) /\ Come(t, task, run, chunk)
             /\ q.kind = "chunk" => /\ q.i = run[q.run].i
                                    /\ q.i < Size[job[t].file]
                                    /\ run[q.run].have = 0 .. q.i - 1
                                    /\ \A j \in 0 .. q.i - 1 : chunk[job[t].file][j] = "whole"
             /\ q.kind = "merge" => \A j \in 0 .. Size[job[t].file] - 1 : chunk[job[t].file][j] = "whole"
  <2>1. Progressed(t, run, q, file) /\ Come(t, task, run, chunk)
    BY <1>6 DEF KeptNow, Kept, Progress
  <2>2. q.run = <<t, q.run[2]>> /\ q.run[2] \in 1 .. MaxRuns
    BY <1>1, RunFacts
  <2>3. /\ run[<<t, q.run[2]>>].at = "chunk" => /\ run[q.run].i < Size[job[t].file]
                                   /\ run[q.run].have = 0 .. run[q.run].i - 1
                                   /\ \A j \in 0 .. run[q.run].i - 1 : chunk[job[t].file][j] = "whole"
        /\ run[<<t, q.run[2]>>].at = "merge" =>
              \A j \in 0 .. Size[job[t].file] - 1 : chunk[job[t].file][j] = "whole"
    BY <2>1, <2>2 DEF Come
  <2> QED BY <1>2, <2>1, <2>2, <2>3 DEF Progressed
<1> QED BY <1>1, <1>2, <1>3, <1>4, <1>5, <1>6

(* The file of a request that is being written, part by part.              *)
LEMMA WrittenFacts ==
  ASSUME UploadInv, NEW q \in requests, q.kind # "chunk", q.at = "copy", q.own,
         q.i \in Chunks,
         file[q.dest] = [j \in Chunks |-> IF j < q.i THEN <<FileOf(q), TRUE>> ELSE Nothing],
         Written(q, q.i, TRUE)
  PROVE  file'[q.dest] = [j \in Chunks |-> IF j < q.i + 1 THEN <<FileOf(q), TRUE>> ELSE Nothing]
<1>1. q.dest \in Paths /\ file \in [Paths -> [Chunks -> Contents] \cup {Nothing}] /\ q.run[1] \in Tasks
  BY RequestTypes DEF UploadInv, DiskOK
<1>2. Chunks \subseteq Nat
  BY <1>1, InvFacts, JobFacts
<1>3. file' = [file EXCEPT ![q.dest][q.i] = <<FileOf(q), TRUE>>]
  BY DEF Written
<1>4. file'[q.dest] = [file[q.dest] EXCEPT ![q.i] = <<FileOf(q), TRUE>>]
  BY <1>1, <1>3
<1>5. \A j \in Chunks : (IF j = q.i THEN <<FileOf(q), TRUE>>
                         ELSE IF j < q.i THEN <<FileOf(q), TRUE>> ELSE Nothing)
                        = (IF j < q.i + 1 THEN <<FileOf(q), TRUE>> ELSE Nothing)
  <2>1. ASSUME NEW j \in Chunks PROVE j < q.i + 1 <=> (j = q.i \/ j < q.i)
    <3>1. j \in Nat /\ q.i \in Nat
      BY <1>2
    <3> DEFINE n == q.i
    <3> HIDE DEF n
    <3>2. j \in Nat /\ n \in Nat
      BY <3>1 DEF n
    <3>3. j < n + 1 <=> (j = n \/ j < n)
      BY <3>2
    <3> QED BY <3>3 DEF n
  <2> QED BY <2>1
<1>6. ASSUME NEW v, NEW g, g = [j \in Chunks |-> IF j < q.i THEN v ELSE Nothing]
      PROVE  [g EXCEPT ![q.i] = v] = [j \in Chunks |-> IF j = q.i THEN v ELSE IF j < q.i THEN v ELSE Nothing]
  BY <1>6
<1>7. file'[q.dest] = [j \in Chunks |-> IF j = q.i THEN <<FileOf(q), TRUE>>
                                       ELSE IF j < q.i THEN <<FileOf(q), TRUE>> ELSE Nothing]
  BY <1>4, <1>6
<1> QED BY <1>5, <1>7

(* The destination of a request that is done is a name of its task.        *)
LEMMA StoredFrom ==
  ASSUME UploadInv, NEW q \in requests, q.kind # "chunk", q.at = "copy", NEW w,
         w[q.dest] = [j \in Chunks |-> IF j < Size[FileOf(q)] THEN <<FileOf(q), TRUE>> ELSE Nothing]
  PROVE  Stored(q.run[1], w)
<1>1. PICK m \in 0 .. MaxCopies : q.dest = <<NameOf(q), m>>
  BY RequestTypes DEF WellFormed
<1> QED BY <1>1 DEF Stored, FileOf, NameOf

(* The handlers that go on: a chunk that is created, a name, a file, a     *)
(* part that is appended.                                                  *)
LEMMA GoingKept ==
  ASSUME UploadInv, NEW q \in requests, KeptNow(q.run[1]),
         CreateChunk(q) \/ ChooseName(q) \/ CreateFile(q) \/ AppendChunk(q)
  PROVE  KeptNext(q.run[1])
<1> DEFINE t == q.run[1]
<1>1. /\ t \in Tasks /\ ~q.cut /\ run[q.run].at = q.kind /\ q.run \in Runs /\ WellFormed(q)
      /\ run[q.run] \in RunSet /\ task[t].status = "running"
      /\ \A m \in 1 .. MaxRuns : run[<<t, m>>].at \in Active => <<t, m>> = q.run
      /\ q \in RequestSet
  BY OwnFacts DEF WellFormed
<1>2. ASSUME Alone(t)
      PROVE  /\ Progressed(t, run, q, file) /\ Come(t, task, run, chunk)
             /\ q.kind = "chunk" => /\ q.i = run[q.run].i
                                    /\ q.i < Size[job[t].file]
                                    /\ run[q.run].have = 0 .. q.i - 1
                                    /\ \A j \in 0 .. q.i - 1 : chunk[job[t].file][j] = "whole"
             /\ q.kind = "merge" => \A j \in 0 .. Size[job[t].file] - 1 : chunk[job[t].file][j] = "whole"
  BY <1>2, OwnFacts
<1>3. ASSUME NEW S PROVE \A o \in Disowned(requests \ {q}, S) : \E p \in requests \ {q} : o.run = p.run
  <2>1. \A p \in requests \ {q} : WellFormed(p)
    BY RequestTypes
  <2> QED BY <2>1, DescendsFacts DEF Descends
<1>4. \A o \in requests \ {q} : \E p \in requests \ {q} : o.run = p.run
  OBVIOUS
<1>5. CASE CreateChunk(q)
  <2> DEFINE S == {p \in requests : SameChunk(q, p)}
             e == [q EXCEPT !.at = "copy", !.own = TRUE]
  <2>1. requests' = Disowned(requests \ {q}, S) \cup {e} /\ Same(e, q)
        /\ e.at = "copy" /\ e.own /\ e.i = q.i /\ UNCHANGED <<task, run, file>>
        /\ q.kind = "chunk" /\ chunk' = [chunk EXCEPT ![job[t].file][q.i] = "part"]
    BY <1>5, CreateChunkSound DEF CreateChunk, FileOf
  <2> HIDE DEF S, e
  <2>2. ASSUME Alone(t) PROVE Progressed(t, run, e, file') /\ Come(t, task, run, chunk')
    <3>1. Progressed(t, run, e, file')
      BY <1>2, <2>1, <2>2 DEF Progressed, Same
    <3>2. \A j \in 0 .. q.i - 1 : chunk'[job[t].file][j] = chunk[job[t].file][j]
      <4>1. chunk \in [Files -> [Chunks -> {"part", "whole", Nothing}]] /\ job[t].file \in Files
            /\ Chunks \subseteq Nat /\ 0 .. Size[job[t].file] - 1 \subseteq Chunks
            /\ q.i < Size[job[t].file] /\ q.i \in Nat /\ Size[job[t].file] \in Nat
        BY <1>1, <1>2, <2>1, <2>2, InvFacts, JobFacts DEF UploadInv, DiskOK, RequestSet
      <4>2. \A j \in 0 .. q.i - 1 : j \in Chunks /\ j # q.i
        BY <4>1
      <4> QED BY <2>1, <4>1, <4>2
    <3>3. Come(t, task, run, chunk')
      <4>1. ASSUME NEW m \in 1 .. MaxRuns
            PROVE  LET v == run[<<t, m>>] IN
                   /\ v.at = "query" => \A j \in Chunks : chunk'[job[t].file][j] = Nothing
                   /\ v.at \in {"chunk", "wait"} =>
                         /\ v.i < Size[job[t].file] /\ v.have = 0 .. v.i - 1
                         /\ \A j \in 0 .. v.i - 1 : chunk'[job[t].file][j] = "whole"
                   /\ v.at = "merge" =>
                         \A j \in 0 .. Size[job[t].file] - 1 : chunk'[job[t].file][j] = "whole"
        <5>1. CASE <<t, m>> = q.run
          <6>1. /\ run[<<t, m>>].at = "chunk" /\ run[<<t, m>>].i = q.i
                /\ run[<<t, m>>].have = 0 .. run[<<t, m>>].i - 1 /\ run[<<t, m>>].i < Size[job[t].file]
            BY <1>1, <1>2, <2>1, <2>2, <5>1
          <6>2. \A j \in 0 .. q.i - 1 : chunk'[job[t].file][j] = "whole"
            BY <1>2, <2>1, <2>2, <3>2
          <6> QED BY <6>1, <6>2
        <5>2. CASE <<t, m>> # q.run
          BY <1>1, <5>2 DEF Active
        <5> QED BY <5>1, <5>2
      <4>2. Size[job[t].file] # 1 => task[t].status # "failed" /\ task[t].status # "pending"
        BY <1>1
      <4> QED BY <4>1, <4>2 DEF Come
    <3> QED BY <3>1, <3>3
  <2> DEFINE D == Disowned(requests \ {q}, S)
  <2>3. requests' = D \cup {e} /\ \A o \in D : \E p \in requests \ {q} : o.run = p.run
    BY <1>3, <2>1
  <2> HIDE DEF D
  <2> QED BY <2>1, <2>2, <2>3, GoesOn
<1>6. CASE ChooseName(q)
  <2>1. PICK m \in 0 .. MaxCopies :
           LET e == [q EXCEPT !.at = "chosen", !.dest = <<NameOf(q), m>>]
           IN /\ Same(e, q) /\ e.at = "chosen" /\ e.i = q.i /\ e.whole = q.whole
              /\ \/ requests' = Disowned(requests \ {q}, {p \in requests : p.dest = e.dest}) \cup {e}
                 \/ requests' = (requests \ {q}) \cup {e}
    BY <1>6, ChooseNameSound
  <2> DEFINE e == [q EXCEPT !.at = "chosen", !.dest = <<NameOf(q), m>>]
             S == {p \in requests : p.dest = e.dest}
             D == Disowned(requests \ {q}, S)
  <2>2. Same(e, q) /\ e.at = "chosen" /\ e.i = q.i /\ e.whole = q.whole
        /\ q.kind # "chunk" /\ q.at = "sent" /\ UNCHANGED <<task, run, chunk>>
    BY <1>6, <2>1 DEF ChooseName
  <2>3. requests' = D \cup {e} \/ requests' = (requests \ {q}) \cup {e}
    BY <2>1
  <2>4. \A o \in D : \E p \in requests \ {q} : o.run = p.run
    BY <1>3
  <2> HIDE DEF e, D
  <2>5. ASSUME Alone(t) PROVE Progressed(t, run, e, file') /\ Come(t, task, run, chunk')
    BY <1>2, <2>2, <2>5 DEF Progressed, Same, Come
  <2>6. PICK R : requests' = R \cup {e} /\ \A o \in R : \E p \in requests \ {q} : o.run = p.run
    BY <1>4, <2>3, <2>4
  <2> QED BY <2>2, <2>5, <2>6, GoesOn
<1>7. CASE CreateFile(q)
  <2> DEFINE e == [q EXCEPT !.at = "copy", !.own = TRUE]
             R == requests \ {q}
  <2>1. requests' = R \cup {e} /\ Same(e, q) /\ e.at = "copy" /\ e.own /\ e.i = q.i
        /\ e.whole = q.whole /\ e.dest = q.dest /\ q.kind # "chunk" /\ q.at = "chosen"
        /\ UNCHANGED <<task, run, chunk>> /\ file' = [file EXCEPT ![q.dest] = Empty]
    BY <1>7, CreateFileSound DEF CreateFile
  <2> HIDE DEF e, R
  <2>2. ASSUME Alone(t) PROVE Progressed(t, run, e, file') /\ Come(t, task, run, chunk')
    <3>1. q.i = 0 /\ q.whole
      BY <1>2, <2>1, <2>2 DEF Progressed
    <3>2. q.dest \in Paths /\ file'[q.dest] = Empty
      <4>1. q.dest \in Paths
        BY <2>1, RequestTypes
      <4> QED BY <2>1, <4>1 DEF UploadInv, DiskOK
    <3>3. Size[job[t].file] \in Nat /\ Chunks \subseteq Nat
      BY <1>1, InvFacts, JobFacts
    <3>4. Empty = [j \in Chunks |-> IF j < 0 THEN <<job[t].file, TRUE>> ELSE Nothing]
      <4>1. \A j \in Chunks : ~(j < 0)
        BY <3>3
      <4> QED BY <4>1 DEF Empty
    <3>5. Progressed(t, run, e, file')
      BY <2>1, <3>1, <3>2, <3>3, <3>4 DEF Progressed, Same
    <3> QED BY <1>2, <2>1, <2>2, <3>5 DEF Come
  <2>3. \A o \in R : \E p \in requests \ {q} : o.run = p.run
    BY DEF R
  <2> QED BY <2>1, <2>2, <2>3, GoesOn
<1>8. CASE AppendChunk(q)
  <2> DEFINE R == requests \ {q}
  <2>1. PICK e : /\ requests' = (requests \ {q}) \cup {e} /\ Same(e, q) /\ e.at = "copy" /\ e.i = q.i + 1
                 /\ e.whole = (q.whole /\ chunk[FileOf(q)][q.i] = "whole")
                 /\ e.dest = q.dest /\ e.own = q.own
    BY <1>8, AppendChunkSound
  <2>2. q.kind = "merge" /\ q.at = "copy" /\ q.i < Size[FileOf(q)] /\ UNCHANGED <<task, run, chunk>>
        /\ FileOf(q) = job[t].file /\ q.i \in Nat /\ Size[job[t].file] \in Nat
    BY <1>1, <1>8, InvFacts, JobFacts DEF AppendChunk, FileOf, RequestSet
  <2>3. ASSUME Alone(t) PROVE Progressed(t, run, e, file') /\ Come(t, task, run, chunk')
    <3>1. /\ q.own /\ q.whole
          /\ file[q.dest] = [j \in Chunks |-> IF j < q.i THEN <<job[t].file, TRUE>> ELSE Nothing]
          /\ chunk[FileOf(q)][q.i] = "whole"
      <4>1. Progressed(t, run, q, file) /\ \A j \in 0 .. Size[job[t].file] - 1 : chunk[job[t].file][j] = "whole"
        BY <1>2, <2>2, <2>3
      <4>2. q.i \in 0 .. Size[job[t].file] - 1
        BY <2>2
      <4> QED BY <2>2, <4>1, <4>2 DEF Progressed
    <3>2. Written(q, q.i, TRUE)
      BY <1>8, <3>1 DEF AppendChunk, Written
    <3>3. q.i \in Chunks
      BY <1>1, <2>2, InvFacts, JobFacts
    <3>4. file'[q.dest] = [j \in Chunks |-> IF j < q.i + 1 THEN <<FileOf(q), TRUE>> ELSE Nothing]
      BY <2>2, <3>1, <3>2, <3>3, WrittenFacts
    <3>5. e.kind = "merge" /\ e.own /\ e.whole /\ e.i <= Size[job[t].file]
      <4>1. e.kind = "merge" /\ e.i <= Size[job[t].file]
        BY <2>1, <2>2 DEF Same
      <4>2. (q.whole /\ chunk[FileOf(q)][q.i] = "whole") = TRUE /\ q.own = TRUE
        BY <1>1, <3>1 DEF RequestSet
      <4>3. e.whole = TRUE /\ e.own = TRUE
        BY <2>1, <4>2
      <4> QED BY <4>1, <4>3
    <3>6. Progressed(t, run, e, file')
      BY <2>1, <2>2, <3>4, <3>5 DEF Progressed
    <3> QED BY <1>2, <2>2, <2>3, <3>6 DEF Come
  <2>4. requests' = R \cup {e} /\ \A o \in R : \E p \in requests \ {q} : o.run = p.run
    BY <2>1
  <2> HIDE DEF R
  <2> QED BY <2>1, <2>2, <2>3, <2>4, GoesOn
<1> QED BY <1>5, <1>6, <1>7, <1>8

(* The handlers that answer: the run goes on from what they left on the    *)
(* disk.                                                                   *)
LEMMA AnsweredKept ==
  ASSUME UploadInv, NEW q \in requests, KeptNow(q.run[1]),
         \/ ChunkSaved(q) \/ ChunkBreaks(q) \/ DirectSaved(q) \/ DirectBreaks(q) \/ MergeBreaks(q)
         \/ MissingChunk(q) \/ CreateFails(q) \/ Merged(q)
  PROVE  KeptNext(q.run[1])
<1> DEFINE t == q.run[1]
           others == requests \ {q}
<1>1. /\ t \in Tasks /\ ~q.cut /\ run[q.run].at = q.kind /\ q.run \in Runs /\ WellFormed(q)
      /\ Steady(t, task, run, others) /\ Sound(task, run, others) /\ Free(q.run, others)
      /\ q \in RequestSet /\ FileOf(q) = job[t].file
  BY OwnFacts DEF WellFormed, FileOf
<1>2. ASSUME Alone(t)
      PROVE  /\ Progressed(t, run, q, file) /\ Come(t, task, run, chunk)
             /\ q.kind = "chunk" => /\ q.i = run[q.run].i
                                    /\ q.i < Size[job[t].file]
                                    /\ run[q.run].have = 0 .. q.i - 1
                                    /\ \A j \in 0 .. q.i - 1 : chunk[job[t].file][j] = "whole"
             /\ q.kind = "merge" => \A j \in 0 .. Size[job[t].file] - 1 : chunk[job[t].file][j] = "whole"
  BY <1>2, OwnFacts
<1>3. ASSUME Fails(q, others), Alone(t) => Come(t, task, run, chunk') PROVE KeptNext(t)
  <2> HIDE DEF others
  <2>1. Kept(t, task', run', requests', chunk', file')
    BY <1>1, <1>3, InvFacts, FailsOwn
  <2> QED BY <2>1 DEF KeptNext
<1>4. ASSUME NEW p, Succeeds(q, p), Sound(task, run, p), Free(q.run, p), Steady(t, task, run, p),
             Alone(t) => IF q.kind = "chunk"
                         THEN /\ run[q.run].i < Size[job[t].file]
                              /\ run[q.run].have = 0 .. run[q.run].i - 1
                              /\ \A j \in 0 .. run[q.run].i : chunk'[job[t].file][j] = "whole"
                         ELSE Stored(t, file')
      PROVE  KeptNext(t)
  <2>1. Kept(t, task', run', requests', chunk', file')
    BY <1>1, <1>4, InvFacts, SucceedsOwn
  <2> QED BY <2>1 DEF KeptNext
<1>5. CASE ChunkBreaks(q) \/ DirectBreaks(q) \/ MergeBreaks(q) \/ MissingChunk(q) \/ CreateFails(q)
  <2>1. Fails(q, others) /\ chunk' = chunk
    BY <1>5 DEF ChunkBreaks, DirectBreaks, MergeBreaks, MissingChunk, CreateFails
  <2> QED BY <1>2, <1>3, <2>1
<1>6. CASE ChunkSaved(q)
  <2>1. /\ q.kind = "chunk" /\ q.at = "copy" /\ Succeeds(q, others)
        /\ chunk' = IF q.own THEN [chunk EXCEPT ![job[t].file][q.i] = "whole"] ELSE chunk
    BY <1>1, <1>6 DEF ChunkSaved
  <2>2. ASSUME Alone(t)
        PROVE  /\ run[q.run].i < Size[job[t].file]
               /\ run[q.run].have = 0 .. run[q.run].i - 1
               /\ \A j \in 0 .. run[q.run].i : chunk'[job[t].file][j] = "whole"
    <3>1. /\ q.own /\ q.i = run[q.run].i /\ q.i < Size[job[t].file]
          /\ run[q.run].have = 0 .. q.i - 1
          /\ \A j \in 0 .. q.i - 1 : chunk[job[t].file][j] = "whole"
      BY <1>2, <2>1, <2>2 DEF Progressed
    <3>2. chunk \in [Files -> [Chunks -> {"part", "whole", Nothing}]] /\ job[t].file \in Files
          /\ q.i \in Chunks /\ q.i \in Nat
      BY <1>1, <2>1, InvFacts, JobFacts DEF UploadInv, DiskOK, WellFormed, RequestSet
    <3>3. chunk'[job[t].file] = [chunk[job[t].file] EXCEPT ![q.i] = "whole"]
      BY <2>1, <3>1, <3>2
    <3>4. \A j \in 0 .. q.i - 1 : j \in Chunks
      <4>1. Size[job[t].file] \in Nat /\ 0 .. Size[job[t].file] - 1 \subseteq Chunks
        BY <1>1, InvFacts, JobFacts
      <4>2. \A j \in 0 .. q.i - 1 : j \in 0 .. Size[job[t].file] - 1
        <5>1. q.i \in Nat /\ Size[job[t].file] \in Nat /\ q.i < Size[job[t].file]
          BY <3>1, <3>2, <4>1
        <5> QED BY <5>1, Before
      <4> QED BY <4>1, <4>2
    <3>5. \A j \in 0 .. q.i : chunk'[job[t].file][j] = "whole"
      <4>1. ASSUME NEW j \in 0 .. q.i PROVE chunk'[job[t].file][j] = "whole"
        <5>1. CASE j = q.i
          BY <3>2, <3>3, <5>1
        <5>2. CASE j # q.i
          <6>1. q.i \in Nat /\ j \in 0 .. q.i
            BY <3>2
          <6>2. j \in 0 .. q.i - 1
            BY <5>2, <6>1, Before
          <6> QED BY <3>1, <3>2, <3>3, <3>4, <5>2, <6>2
        <5> QED BY <5>1, <5>2
      <4> QED BY <4>1
    <3> QED BY <3>1, <3>5
  <2> HIDE DEF others
  <2> QED BY <1>1, <1>4, <2>1, <2>2
<1>7. CASE DirectSaved(q)
  <2>1. q.kind = "direct" /\ q.at = "copy" /\ Succeeds(q, others) /\ Written(q, 0, TRUE)
    BY <1>7 DEF DirectSaved
  <2>2. q.i = 0 /\ Size[FileOf(q)] = 1 /\ 0 \in Chunks
    BY <1>1, <2>1, InvFacts, JobFacts DEF WellFormed, Sound, RunsOK
  <2>3. ASSUME Alone(t) PROVE Stored(t, file')
    <3>1. /\ q.own
          /\ file[q.dest] = [j \in Chunks |-> IF j < q.i THEN <<FileOf(q), TRUE>> ELSE Nothing]
      BY <1>1, <1>2, <2>1, <2>3 DEF Progressed
    <3>2. Written(q, q.i, TRUE) /\ q.i \in Chunks /\ q.kind # "chunk"
      BY <2>1, <2>2
    <3>3. file'[q.dest] = [j \in Chunks |-> IF j < q.i + 1 THEN <<FileOf(q), TRUE>> ELSE Nothing]
      BY <2>1, <3>1, <3>2, WrittenFacts
    <3>4. file'[q.dest] = [j \in Chunks |-> IF j < Size[FileOf(q)] THEN <<FileOf(q), TRUE>> ELSE Nothing]
      BY <2>2, <3>3
    <3> QED BY <2>1, <3>2, <3>4, StoredFrom
  <2> HIDE DEF others
  <2> QED BY <1>1, <1>4, <2>1, <2>3
<1>8. CASE Merged(q)
  <2> DEFINE S == {o \in requests : o.kind = "chunk" /\ FileOf(o) = FileOf(q)}
             p == Disowned(requests \ {q}, S)
  <2>1. q.kind = "merge" /\ q.at = "copy" /\ q.i = Size[FileOf(q)] /\ file' = file /\ Succeeds(q, p)
    BY <1>8, MergedSound DEF Merged
  <2>2. Sound(task, run, p)
    BY <1>1, DisownSound
  <2>3. \A o \in p : \E v \in others : o.run = v.run /\ o.cut = v.cut
    <3>1. \A o \in requests \ {q} : WellFormed(o)
      BY RequestTypes
    <3> QED BY <3>1, DescendsFacts DEF Descends
  <2> HIDE DEF p
  <2>4. Free(q.run, p) /\ Steady(t, task, run, p)
    BY <1>1, <2>3 DEF Free, Steady
  <2>5. ASSUME Alone(t) PROVE Stored(t, file')
    <3>1. file'[q.dest] = [j \in Chunks |-> IF j < Size[FileOf(q)] THEN <<FileOf(q), TRUE>> ELSE Nothing]
      BY <1>1, <1>2, <2>1, <2>5 DEF Progressed
    <3> QED BY <2>1, <3>1, StoredFrom
  <2> QED BY <1>4, <2>1, <2>2, <2>4, <2>5
<1> QED BY <1>5, <1>6, <1>7, <1>8

(* Every step of a handler keeps every task that is left alone.            *)
LEMMA HandlerKept ==
  ASSUME UploadInv, NEW q \in requests, NEW t \in Tasks, KeptNow(t),
         \/ NeverArrives(q) \/ CreateChunk(q) \/ ChunkSaved(q) \/ ChunkBreaks(q)
         \/ ChooseName(q) \/ CreateFile(q) \/ DirectSaved(q) \/ DirectBreaks(q) \/ MergeBreaks(q)
         \/ AppendChunk(q) \/ MissingChunk(q) \/ CreateFails(q) \/ Merged(q)
  PROVE  KeptNext(t)
<1>1. CASE NeverArrives(q)
  BY <1>1, NeverArrivesKept
<1>2. CASE ~NeverArrives(q) /\ q.run[1] # t
  BY <1>2, HandlerOther
<1>3. CASE ~NeverArrives(q) /\ q.run[1] = t
  BY <1>3, GoingKept, AnsweredKept
<1> QED BY <1>1, <1>2, <1>3

(* Every step keeps every task that is still calm after it.                *)
LEMMA WholeStep == ASSUME UploadInv, WholeInv, UploadNext, NEW t \in calm' PROVE KeptNext(t)
<1>1. calm' \subseteq calm
  <2>1. ASSUME NEW r \in Runs, Listed(r) \/ WaitOver(r) PROVE calm' \subseteq calm
    BY <2>1 DEF Listed, WaitOver
  <2>2. ASSUME NEW s \in Tasks, PauseTask(s) \/ RemoveTask(s) \/ ResumeTask(s) \/ RetryTask(s)
        PROVE  calm' \subseteq calm
    BY <2>2 DEF PauseTask, RemoveTask, ResumeTask, RetryTask, Stop
  <2>3. ASSUME NEW q \in requests, LoseConnection(q) PROVE calm' \subseteq calm
    BY <2>3 DEF LoseConnection
  <2>4. CASE Add
    BY <2>4 DEF Add
  <2>5. ASSUME NEW q \in requests,
               \/ NeverArrives(q) \/ CreateChunk(q) \/ ChunkSaved(q) \/ ChunkBreaks(q)
               \/ ChooseName(q) \/ CreateFile(q) \/ DirectSaved(q) \/ DirectBreaks(q) \/ MergeBreaks(q)
               \/ AppendChunk(q) \/ MissingChunk(q) \/ CreateFails(q) \/ Merged(q)
        PROVE  calm' \subseteq calm
    BY <2>5 DEF NeverArrives, CreateChunk, ChunkSaved, ChunkBreaks, ChooseName, CreateFile,
       DirectSaved, DirectBreaks, MergeBreaks, AppendChunk, MissingChunk, CreateFails, Merged
  <2> QED BY <2>1, <2>2, <2>3, <2>4, <2>5 DEF UploadNext, Browser, Server
<1>2. t \in Tasks /\ KeptNow(t)
  BY <1>1, InvFacts DEF WholeInv, KeptNow
<1>3. ASSUME NEW s \in Tasks, PauseTask(s) \/ RemoveTask(s) PROVE KeptNext(t)
  <2>1. Stop(s, "paused", "paused") \/ Stop(s, "removed", "canceled")
    BY <1>3 DEF PauseTask, RemoveTask
  <2>2. t # s
    BY <2>1 DEF Stop
  <2> QED BY <1>2, <2>1, <2>2, StopKept
<1>4. ASSUME NEW q \in requests, LoseConnection(q) PROVE KeptNext(t)
  <2>1. t # q.run[1]
    BY <1>4 DEF LoseConnection
  <2> QED BY <1>2, <1>4, <2>1, LoseKept
<1>5. ASSUME NEW s \in Tasks, ResumeTask(s) \/ RetryTask(s) PROVE KeptNext(t)
  BY <1>2, <1>5, AgainKept
<1>6. CASE Browser
  BY <1>2, <1>6, AddKept, ListedKept, WaitOverKept DEF Browser
<1>7. CASE Server
  BY <1>2, <1>7, HandlerKept DEF Server
<1> QED BY <1>3, <1>4, <1>5, <1>6, <1>7 DEF UploadNext

(* At first every task is pending and nothing has been sent.               *)
LEMMA WholeInit == UploadInit => WholeInv
<1> SUFFICES ASSUME UploadInit, NEW t \in Tasks PROVE Kept(t, task, run, requests, chunk, file)
  BY DEF UploadInit, WholeInv
<1>1. JobType /\ task[t] = Added /\ (\A r \in Runs : run[r] = Idle) /\ requests = {}
  BY DEF UploadInit, JobType
<1>2. \A m \in 1 .. MaxRuns : run[<<t, m>>].at = "none"
  BY <1>1, RunFacts DEF Idle
<1>3. Steady(t, task, run, requests)
  BY <1>1, <1>2 DEF Steady, Added, Active
<1>4. Progress(t, run, requests, file) /\ Saved(t, task, file)
  BY <1>1 DEF Progress, Saved, Added
<1>5. \A j \in Chunks : chunk[job[t].file][j] = Nothing
  BY <1>1, JobFacts DEF UploadInit
<1>6. Come(t, task, run, chunk)
  BY <1>1, <1>2, <1>5 DEF Come, Added
<1> QED BY <1>3, <1>4, <1>6 DEF Kept

(* KeptNext is Kept of the next state.                                     *)
LEMMA KeptPrimed ==
  ASSUME job' = job, NEW t, KeptNext(t) PROVE Kept(t, task, run, requests, chunk, file)'
<1>1. Steady(t, task, run, requests)'
  BY DEF KeptNext, Kept, Steady
<1>2. Alone(t)' <=> Alone(t)
  BY DEF Alone
<1>3. ASSUME Alone(t)'
      PROVE  Progress(t, run, requests, file)' /\ Come(t, task, run, chunk)' /\ Saved(t, task, file)'
  <2>1. Progress(t, run', requests', file') /\ Come(t, task', run', chunk') /\ Saved(t, task', file')
    BY <1>2, <1>3 DEF KeptNext, Kept
  <2>2. Progress(t, run, requests, file)'
    BY <2>1 DEF Progress, Progressed
  <2>3. Come(t, task, run, chunk)'
    BY <2>1 DEF Come
  <2>4. Saved(t, task, file)'
    BY <2>1 DEF Saved
  <2> QED BY <2>2, <2>3, <2>4
<1> QED BY <1>1, <1>3 DEF Kept

(* WholeInv is inductive, with UploadInv.                                  *)
LEMMA WholeNext == UploadInv /\ WholeInv /\ [UploadNext]_uploadVars => WholeInv'
<1>1. ASSUME UploadInv, WholeInv, UploadNext PROVE WholeInv'
  <2>1. job' = job
    BY <1>1, NextCounts
  <2>2. ASSUME NEW t \in calm' PROVE KeptNext(t)
    BY <1>1, WholeStep
  <2>3. ASSUME NEW t \in calm' PROVE Kept(t, task, run, requests, chunk, file)'
    BY <2>1, <2>2, KeptPrimed
  <2> QED BY <2>3 DEF WholeInv
<1>2. ASSUME WholeInv, UNCHANGED uploadVars PROVE WholeInv'
  <2>1. job' = job /\ calm' = calm
    BY <1>2 DEF uploadVars
  <2>2. ASSUME NEW t \in calm PROVE KeptNext(t)
    <3>1. Kept(t, task, run, requests, chunk, file)
      BY <1>2 DEF WholeInv
    <3>2. UNCHANGED <<task, run, requests, chunk, file>>
      BY <1>2 DEF uploadVars
    <3> QED BY <3>1, <3>2 DEF KeptNext
  <2>3. ASSUME NEW t \in calm PROVE Kept(t, task, run, requests, chunk, file)'
    BY <2>1, <2>2, KeptPrimed
  <2> QED BY <2>1, <2>3 DEF WholeInv
<1> QED BY <1>1, <1>2

(* A task that the queue shows as completed, without an error, has its     *)
(* whole content in one file under its name, if the user did not stop it,  *)
(* its connections held and nobody else uploads the same content or name:  *)
(* however many attempts failed, in whatever order the handlers ran beside *)
(* those of the other uploads.                                             *)
THEOREM DoneIsWholeAlways == UploadSpec => []DoneIsWhole
<1>1. UploadInv /\ WholeInv => DoneIsWhole
  <2> SUFFICES ASSUME UploadInv, WholeInv, NEW t \in calm, task[t].status = "completed",
                      ~task[t].failed, Alone(t)
               PROVE  \E k \in 0 .. MaxCopies : Holds(<<job[t].name, k>>, job[t].file)
    BY DEF DoneIsWhole
  <2>1. PICK m \in 0 .. MaxCopies :
            file[<<job[t].name, m>>] = [i \in Chunks |-> IF i < Size[job[t].file]
                                                         THEN <<job[t].file, TRUE>> ELSE Nothing]
    BY DEF WholeInv, Kept, Saved
  <2>2. t \in Tasks /\ job[t].file \in Files
    BY InvFacts, JobFacts
  <2>3. [i \in Chunks |-> IF i < Size[job[t].file] THEN <<job[t].file, TRUE>> ELSE Nothing]
           \in [Chunks -> Contents]
    BY <2>2 DEF Contents
  <2>4. file[<<job[t].name, m>>] # Nothing
    BY <2>1, <2>3, NothingAssumption
  <2> QED BY <2>1, <2>4 DEF Holds
<1>2. UploadSpec => []WholeInv
  BY WholeInit, WholeNext, InvAlways, PTL DEF UploadSpec
<1> QED BY <1>1, <1>2, InvAlways, PTL
=============================================================================
