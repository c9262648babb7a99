------------------------------- MODULE Calls -------------------------------
(* What Submit promises its callers (internal/pkg/cliqueue): every call    *)
(* returns, exactly once, with the result of its own request, with an      *)
(* error of the batch it was in, or, if its context has ended, with the    *)
(* context's error.                                                        *)

CONSTANTS Jobs, None

VARIABLES
    state,      \* of each call
    expired,    \* calls whose context has ended
    answer      \* what each call returned

Own(j) == [kind |-> "own", of |-> j]
Err(k) == [kind |-> k, of |-> None]

BatchErrors == {Err("panicked"), Err("wrong length")}
Cancelled == Err("cancelled")

(* What the batch runner may answer a job with.                            *)
Answers(j) == BatchErrors \cup {Own(j)}

Init ==
    /\ state = [j \in Jobs |-> "new"]
    /\ expired = {}
    /\ answer = [j \in Jobs |-> None]

Open(j) ==
    /\ state[j] = "new"
    /\ state' = [state EXCEPT ![j] = "open"]
    /\ UNCHANGED <<expired, answer>>

Close(j) ==
    /\ state[j] = "open"
    /\ state' = [state EXCEPT ![j] = "closed"]
    /\ \/ \E o \in Answers(j) : answer' = [answer EXCEPT ![j] = o]
       \/ j \in expired /\ answer' = [answer EXCEPT ![j] = Cancelled]
    /\ UNCHANGED expired

Expire(j) ==
    /\ expired' = expired \cup {j}
    /\ UNCHANGED <<state, answer>>

Next == \E j \in Jobs : Open(j) \/ Close(j) \/ Expire(j)

Spec == Init /\ [][Next]_<<state, expired, answer>>

FairSpec == Spec /\ \A j \in Jobs : WF_<<state, expired, answer>>(Close(j))
=============================================================================
