---------------------------- MODULE CliQueueInv ----------------------------
(* Where the job of a call can be: the inductive invariant behind          *)
(* NeverBlocked and the refinement of Calls.                               *)
EXTENDS CliQueue

Elems(s) == {s[i] : i \in 1..Len(s)}
Distinct(s) == \A i, k \in 1..Len(s) : s[i] = s[k] => i = k

InFlight(j) == j \in Elems(jobs) \/ \E w \in Workers : j \in Elems(batch[w])

(* A job is in the queue or with one worker, and there once.               *)
OnlyOnce ==
    /\ Distinct(jobs)
    /\ \A w \in Workers : Distinct(batch[w])
    /\ \A w \in Workers : Elems(jobs) \cap Elems(batch[w]) = {}
    /\ \A v, w \in Workers :
         v # w => Elems(batch[v]) \cap Elems(batch[w]) = {}

(* Before it is sent and until it is answered its channel is empty.        *)
Unanswered ==
    /\ \A j \in Jobs : call[j] \in {"new", "send"} =>
         ~InFlight(j) /\ resp[j] = None
    /\ \A j \in Jobs : InFlight(j) => resp[j] = None

(* What is in a channel, or about to be sent to it, is meant for its job.  *)
Addressed ==
    /\ \A j \in Jobs : resp[j] \in C!Answers(j) \cup {None}
    /\ \A w \in Workers : pc[w] = "answer" =>
         /\ Len(results[w]) = Len(batch[w])
         /\ \A i \in 1..Len(batch[w]) : results[w][i] \in C!Answers(batch[w][i])

(* A job is run once, by one worker, and its result goes to its caller     *)
(* alone: the batches of the workers, the queue and the channels never mix *)
(* up two calls, even when callers have given up.                          *)
JobsInOrder == OnlyOnce /\ Unanswered /\ Addressed
=============================================================================
