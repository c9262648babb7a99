------------------------------ MODULE CliQueue ------------------------------
(***************************************************************************)
(* The batching queue in front of command line tools                       *)
(* (internal/pkg/cliqueue/manager.go), through which thumbnails are made.  *)
(*                                                                         *)
(* A call of Submit puts its job, with a channel for the answer, into a    *)
(* bounded queue and waits for the answer or the end of its context.  Each *)
(* worker collects a batch, runs the batch function once for all of it and *)
(* answers the jobs one after the other.  A caller that has given up does  *)
(* not take its job back: the job is run and answered all the same.        *)
(*                                                                         *)
(* A job stands for one call of Submit, its request and its channel.       *)
(***************************************************************************)
EXTENDS Integers, FiniteSets, Sequences

CONSTANTS
    Jobs,
    Impatient,      \* jobs whose caller's context may end
    Workers,
    BatchSize,
    CfgQueueSize,   \* Config.QueueSize, before New adjusts it
    None

ASSUME WorkersAssumption == IsFiniteSet(Workers) /\ Workers # {}
ASSUME SizesAssumption == BatchSize \in Nat \ {0} /\ CfgQueueSize \in Int
ASSUME ImpatientAssumption == Impatient \subseteq Jobs
ASSUME NoneAssumption == None \notin Jobs

(* New: a queue that is not given a size holds four rounds of batches, any *)
(* queue holds one round.                                                  *)
Round == Cardinality(Workers) * BatchSize
QueueSize == IF CfgQueueSize <= 0 THEN Round * 4
             ELSE IF CfgQueueSize < Round THEN Round ELSE CfgQueueSize

VARIABLES
    call,       \* control point of each call of Submit
    expired,    \* calls whose context has ended
    answer,     \* what each call returned
    jobs,       \* the channel m.jobs
    resp,       \* content of each job's one-place channel respCh
    pc,         \* control point of each worker
    batch,      \* jobs a worker has collected and not answered yet
    results     \* their results, once the batch function has returned

calls == <<call, expired, answer>>
workers == <<pc, batch, results>>
vars == <<call, expired, answer, jobs, resp, pc, batch, results>>

State(c) == CASE c = "new" -> "new" [] c = "done" -> "closed"
              [] OTHER -> "open"

C == INSTANCE Calls WITH state <- [j \in Jobs |-> State(call[j])]

Outcomes == {C!Own(j) : j \in Jobs} \cup C!BatchErrors

TypeOK ==
    /\ call \in [Jobs -> {"new", "send", "wait", "done"}]
    /\ expired \in SUBSET Jobs
    /\ answer \in [Jobs -> Outcomes \cup {C!Cancelled, None}]
    /\ jobs \in Seq(Jobs) /\ Len(jobs) <= QueueSize
    /\ resp \in [Jobs -> Outcomes \cup {None}]
    /\ pc \in [Workers -> {"idle", "gather", "run", "answer"}]
    /\ batch \in [Workers -> Seq(Jobs)]
    /\ \A w \in Workers : Len(batch[w]) <= BatchSize
    /\ results \in [Workers -> Seq(Outcomes)]

Init ==
    /\ call = [j \in Jobs |-> "new"]
    /\ expired = {}
    /\ answer = [j \in Jobs |-> None]
    /\ jobs = << >>
    /\ resp = [j \in Jobs |-> None]
    /\ pc = [w \in Workers |-> "idle"]
    /\ batch = [w \in Workers |-> << >>]
    /\ results = [w \in Workers |-> << >>]

-----------------------------------------------------------------------------
(* Submit.                                                                 *)

Submit(j) ==
    /\ call[j] = "new"
    /\ call' = [call EXCEPT ![j] = "send"]
    /\ UNCHANGED <<expired, answer, jobs, resp, workers>>

Enqueue(j) ==
    /\ call[j] = "send"
    /\ Len(jobs) < QueueSize
    /\ jobs' = Append(jobs, j)
    /\ call' = [call EXCEPT ![j] = "wait"]
    /\ UNCHANGED <<expired, answer, resp, workers>>

Receive(j) ==
    /\ call[j] = "wait"
    /\ resp[j] # None
    /\ answer' = [answer EXCEPT ![j] = resp[j]]
    /\ resp' = [resp EXCEPT ![j] = None]
    /\ call' = [call EXCEPT ![j] = "done"]
    /\ UNCHANGED <<expired, jobs, workers>>

(* ctx.Done() in either select, whatever else is ready.                    *)
GiveUp(j) ==
    /\ call[j] \in {"send", "wait"}
    /\ j \in expired
    /\ answer' = [answer EXCEPT ![j] = C!Cancelled]
    /\ call' = [call EXCEPT ![j] = "done"]
    /\ UNCHANGED <<expired, jobs, resp, workers>>

(* The caller's context ends; before and after the call it makes no        *)
(* difference when.                                                        *)
Expire(j) ==
    /\ call[j] \in {"send", "wait"}
    /\ expired' = expired \cup {j}
    /\ UNCHANGED <<call, answer, jobs, resp, workers>>

-----------------------------------------------------------------------------
(* workerLoop.                                                             *)

Peeked == jobs
Received == Tail(jobs)

Take(w) ==
    /\ pc[w] = "idle"
    /\ jobs # << >>
    /\ jobs' = Received
    /\ batch' = [batch EXCEPT ![w] = <<Head(jobs)>>]
    /\ pc' = [pc EXCEPT ![w] = "gather"]
    /\ UNCHANGED <<calls, resp, results>>

RoomForOneTooMany(w) == Len(batch[w]) <= BatchSize
RoomInBatch(w) == Len(batch[w]) < BatchSize

Gather(w) ==
    /\ pc[w] = "gather"
    /\ RoomInBatch(w)
    /\ jobs # << >>
    /\ jobs' = Received
    /\ batch' = [batch EXCEPT ![w] = Append(@, Head(jobs))]
    /\ UNCHANGED <<calls, resp, pc, results>>

(* The batch is full or the deadline has passed.                           *)
Gathered(w) ==
    /\ pc[w] = "gather"
    /\ pc' = [pc EXCEPT ![w] = "run"]
    /\ UNCHANGED <<calls, jobs, resp, batch, results>>

-----------------------------------------------------------------------------
(* runBatch.                                                               *)

Succeeded(s) == [i \in 1..Len(s) |-> C!Own(s[i])]
Failed(s, k) == [i \in 1..Len(s) |-> C!Err(k)]

(* The batch function answers the requests in their order; it panics; or   *)
(* its results are not as many as the requests.                            *)
Run(w) ==
    /\ pc[w] = "run"
    /\ \E r \in {Succeeded(batch[w]), Failed(batch[w], "panicked"),
                 Failed(batch[w], "wrong length")} :
         results' = [results EXCEPT ![w] = r]
    /\ pc' = [pc EXCEPT ![w] = "answer"]
    /\ UNCHANGED <<calls, jobs, resp, batch>>

(* The channel has room for one answer, whether or not anybody waits.      *)
SomebodyWaits(j) == resp[j] = None /\ call[j] = "wait"
RoomForAnswer(j) == resp[j] = None

Answer(w) ==
    /\ pc[w] = "answer"
    /\ batch[w] # << >>
    /\ RoomForAnswer(Head(batch[w]))
    /\ resp' = [resp EXCEPT ![Head(batch[w])] = Head(results[w])]
    /\ batch' = [batch EXCEPT ![w] = Tail(@)]
    /\ results' = [results EXCEPT ![w] = Tail(@)]
    /\ UNCHANGED <<calls, jobs, pc>>

Answered(w) ==
    /\ pc[w] = "answer"
    /\ batch[w] = << >>
    /\ pc' = [pc EXCEPT ![w] = "idle"]
    /\ UNCHANGED <<calls, jobs, resp, batch, results>>

-----------------------------------------------------------------------------
Caller(j) == Enqueue(j) \/ Receive(j) \/ GiveUp(j)

workerLoop(w) == \/ Take(w) \/ Gather(w) \/ Gathered(w)
                 \/ Run(w) \/ Answer(w) \/ Answered(w)

Next == \/ \E j \in Jobs : Submit(j) \/ Caller(j)
        \/ \E j \in Impatient : Expire(j)
        \/ \E w \in Workers : workerLoop(w)

Spec == Init /\ [][Next]_vars

(* Goroutines that can go on do, the deadline of a batch passes, and a     *)
(* batch function returns: its commands are killed when the context that   *)
(* runBatch gives it times out.                                            *)
FairSpec == /\ Spec
            /\ \A j \in Jobs : WF_vars(Caller(j))
            /\ \A w \in Workers : WF_vars(workerLoop(w))

-----------------------------------------------------------------------------
(* Properties.                                                             *)

(* Submit keeps its promise: each call returns its own result, an error of *)
(* its batch or that of its context, and each one returns, even if other   *)
(* callers give up at any point and their answers are never taken.         *)
Promise == C!FairSpec

(* A worker never waits for a caller: the channel of the job it is about   *)
(* to answer is empty, because no job is run twice.                        *)
NeverBlocked ==
    \A w \in Workers : pc[w] = "answer" /\ batch[w] # << >>
                          => resp[Head(batch[w])] = None
=============================================================================
