---------------------------- MODULE SearchProofs ----------------------------
(* Who looks for something: the discovery of renderers and the connections *)
(* that hear of them, for any number of connections, clients, requests,    *)
(* tasks and devices and any topics; and, in the second half, the search   *)
(* of media, for any records, queries, removals and restarts.  The two     *)
(* share neither names nor state.                                          *)
EXTENDS DlnaDiscovery, MediaSearch, FiniteSetTheorems, SequenceTheorems,
        TLAPS

(***************************************************************************)
(* The inductive invariants.                                               *)
(***************************************************************************)
(* A topic has as many handlers as subscribers, of which there are         *)
(* finitely many.                                                          *)
Subscribers(t) == {k \in Conns : Subscribed(k, t)}
Counted ==
    \A t \in TopicSet :
        IsFiniteSet(Subscribers(t)) /\ Len(handlers[t]) = Cardinality(Subscribers(t))

(* A task that publishes has found a renderer.                             *)
Sighted == \A t \in Tasks : tpc[t] \in {"snapshot", "publish"} => dev[t] \in Renderers

Typed == TypeOK /\ Counted /\ Sighted

(* Either no task is scanning or about to, or one is, and running says so. *)
NoTask == \A t \in Tasks : tpc[t] \notin Scanning
NoOwner == \A r \in Requests : ~owns[r]
OnlyTask(t) == tpc[t] \in Scanning /\ \A u \in Tasks \ {t} : tpc[u] \notin Scanning
OnlyOwner(r) == owns[r] /\ \A q \in Requests \ {r} : ~owns[q]
Window ==
    /\ \A r \in Requests : /\ pc[r] = "idle" => ~owns[r]
                           /\ pc[r] = "spawn" => owns[r]
    /\ \/ ~running /\ NoTask /\ NoOwner
       \/ running /\ NoOwner /\ \E t \in Tasks : OnlyTask(t)
       \/ running /\ NoTask /\ \E r \in Requests : OnlyOwner(r)

(* Who has been listening since its client asked is listening.             *)
Steady ==
    \A k \in steady : /\ k \in Range(handlers[Found])
                      /\ k \in Range(handlers[Done])
                      /\ link[k] = "up"

(***************************************************************************)
(* Types, and the number of handlers.                                      *)
(***************************************************************************)
(* The topics are a sequence of different strings.                         *)
LEMMA TopicFacts ==
  /\ Len(Topics) \in Nat
  /\ \A i \in 1..Len(Topics) : Topics[i] \in TopicSet
  /\ \A i, j \in 1..Len(Topics) : Topics[i] = Topics[j] => i = j
<1>1. Topics \in Seq(STRING) /\ Len(Topics) \in Nat /\ DOMAIN Topics = 1..Len(Topics)
  BY TopicsAssumption
<1> QED BY <1>1, TopicsAssumption DEF TopicSet, Range, IsInjective

(* The variables have their types in an initial state, and nobody          *)
(* subscribes.                                                             *)
LEMMA TypedInit == Init => Typed
<1> SUFFICES ASSUME Init PROVE Typed
    OBVIOUS
<1>1. BusTypeOK
  BY TopicFacts DEF Init, BusInit, BusTypeOK
<1>2. owns \in [Requests -> BOOLEAN] /\ running \in BOOLEAN
  BY Zenon DEF Init
<1>3. TypeOK
  BY <1>1, <1>2 DEF Init, TypeOK, Scanning
<1>4. \A t \in TopicSet : Subscribers(t) = {} /\ Len(handlers[t]) = 0
  BY DEF Init, BusInit, Subscribers, Subscribed
<1>5. Counted
  BY <1>4, FS_EmptySet DEF Counted
<1>6. Sighted
  BY DEF Init, Sighted
<1> QED BY <1>3, <1>5, <1>6 DEF Typed

(* A connection subscribes to the topics in their order, and leaves them   *)
(* in the opposite order: who does so at a topic is no subscriber of it    *)
(* before, or after.                                                       *)
LEMMA SubscribersStep ==
  ASSUME BusTypeOK, NEW k \in Conns, NEW n \in Nat, n < Len(Topics), NEW t \in TopicSet
  PROVE  /\ subs[k] = n /\ subs' = [subs EXCEPT ![k] = n + 1]
               => IF t = Topics[n + 1]
                  THEN k \notin Subscribers(t) /\ Subscribers(t)' = Subscribers(t) \cup {k}
                  ELSE Subscribers(t)' = Subscribers(t)
         /\ subs[k] = n + 1 /\ subs' = [subs EXCEPT ![k] = n]
               => IF t = Topics[n + 1]
                  THEN k \in Subscribers(t) /\ Subscribers(t)' = Subscribers(t) \ {k}
                  ELSE Subscribers(t)' = Subscribers(t)
<1>1. n + 1 \in 1..Len(Topics) /\ n \in 0..Len(Topics)
  BY TopicFacts
<1>2. \A i \in 1..n : i \in 1..Len(Topics) /\ i # n + 1 /\ Topics[i] # Topics[n + 1]
  BY <1>1, TopicFacts
<1>3. 1..(n + 1) = (1..n) \cup {n + 1}
  OBVIOUS
<1>4. \A m \in {n, n + 1} : subs' = [subs EXCEPT ![k] = m] =>
         /\ subs'[k] = m
         /\ \A j \in Conns \ {k} : subs'[j] = subs[j]
  BY DEF BusTypeOK
<1>5. ASSUME subs[k] = n, subs' = [subs EXCEPT ![k] = n + 1]
      PROVE  /\ Subscribed(k, t)' <=> Subscribed(k, t) \/ t = Topics[n + 1]
             /\ t = Topics[n + 1] => ~Subscribed(k, t)
  BY <1>2, <1>3, <1>4, <1>5 DEF Subscribed
<1>6. ASSUME subs[k] = n + 1, subs' = [subs EXCEPT ![k] = n]
      PROVE  /\ Subscribed(k, t) <=> Subscribed(k, t)' \/ t = Topics[n + 1]
             /\ t = Topics[n + 1] => ~Subscribed(k, t)'
  BY <1>2, <1>3, <1>4, <1>6 DEF Subscribed
<1>7. \A m \in {n, n + 1} : subs' = [subs EXCEPT ![k] = m] =>
         \A j \in Conns \ {k} : Subscribed(j, t)' <=> Subscribed(j, t)
  BY <1>4 DEF Subscribed
<1> QED BY <1>5, <1>6, <1>7 DEF Subscribers

(* A connection that subscribes, breaks or unsubscribes keeps the types of *)
(* the bus and the number of handlers.                                     *)
LEMMA BusStep == BusTypeOK /\ Counted /\ wsHandler => BusTypeOK' /\ Counted'
<1> SUFFICES ASSUME BusTypeOK, Counted, NEW k \in Conns,
                    Subscribe(k) \/ Disconnect(k) \/ Unsubscribe(k)
             PROVE  BusTypeOK' /\ Counted'
    BY DEF wsHandler
<1>0. subs[k] \in 0..Len(Topics) /\ subs \in [Conns -> 0..Len(Topics)]
      /\ handlers \in [TopicSet -> Seq(Conns)]
  BY DEF BusTypeOK
<1>1. CASE Subscribe(k)
  <2> DEFINE n == subs[k]
             t0 == Topics[n + 1]
  <2>1. n \in Nat /\ n < Len(Topics) /\ n + 1 \in 0..Len(Topics) /\ t0 \in TopicSet
    BY <1>0, <1>1, TopicFacts DEF Subscribe
  <2>2. subs' = [subs EXCEPT ![k] = n + 1] /\ subs'[k] = n + 1
    BY <1>0, <1>1 DEF Subscribe
  <2>3. handlers' = [handlers EXCEPT ![t0] = Append(@, k)] /\ UNCHANGED link
    BY <1>1, <2>2 DEF Subscribe
  <2>4. Append(handlers[t0], k) \in Seq(Conns)
        /\ Len(Append(handlers[t0], k)) = Len(handlers[t0]) + 1
    BY <1>0, <2>1
  <2>5. BusTypeOK'
    BY <1>0, <2>1, <2>2, <2>3, <2>4 DEF BusTypeOK
  <2>6. ASSUME NEW t \in TopicSet
        PROVE  IsFiniteSet(Subscribers(t)') /\ Len(handlers'[t]) = Cardinality(Subscribers(t)')
    <3>1. IsFiniteSet(Subscribers(t)) /\ Len(handlers[t]) = Cardinality(Subscribers(t))
      BY DEF Counted
    <3>2. CASE t = t0
      <4>1. k \notin Subscribers(t) /\ Subscribers(t)' = Subscribers(t) \cup {k}
        BY <2>1, <2>2, <3>2, SubscribersStep
      <4>2. Len(handlers'[t]) = Len(handlers[t]) + 1
        BY <1>0, <2>1, <2>3, <2>4, <3>2
      <4> QED BY <3>1, <4>1, <4>2, FS_AddElement
    <3>3. CASE t # t0
      <4>1. Subscribers(t)' = Subscribers(t)
        BY <2>1, <2>2, <3>3, SubscribersStep
      <4>2. handlers'[t] = handlers[t]
        BY <1>0, <2>1, <2>3, <3>3
      <4> QED BY <3>1, <4>1, <4>2
    <3> QED BY <3>2, <3>3
  <2> QED BY <2>5, <2>6 DEF Counted
<1>2. CASE Disconnect(k)
  BY <1>2 DEF Disconnect, BusTypeOK, Counted, Subscribers, Subscribed
<1>3. CASE Unsubscribe(k)
  <2> DEFINE n == subs[k] - 1
             t0 == Topics[n + 1]
  <2>1. n \in Nat /\ n < Len(Topics) /\ n \in 0..Len(Topics) /\ subs[k] = n + 1
    BY <1>0, <1>3, TopicFacts DEF Unsubscribe
  <2>2. subs' = [subs EXCEPT ![k] = n] /\ t0 = Topics[subs[k]] /\ t0 \in TopicSet
    BY <1>0, <1>3, <2>1, TopicFacts DEF Unsubscribe
  <2>3. handlers' = [handlers EXCEPT ![t0] = Tail(@)] /\ UNCHANGED link
    BY <1>3, <2>2 DEF Unsubscribe, Removed
  <2>4. t0 = Topics[n + 1]
    OBVIOUS
  <2> HIDE DEF n, t0
  <2>a. \A t \in TopicSet : t = t0
           => k \in Subscribers(t) /\ Subscribers(t)' = Subscribers(t) \ {k}
    BY <2>1, <2>2, <2>4, SubscribersStep
  <2>5. IsFiniteSet(Subscribers(t0)) /\ Len(handlers[t0]) = Cardinality(Subscribers(t0))
    BY <2>2 DEF Counted
  <2>7. handlers[t0] \in Seq(Conns) /\ handlers[t0] # << >>
    <3>1. handlers[t0] \in Seq(Conns)
      BY <1>0, <2>2
    <3>2. Cardinality(Subscribers(t0)) # 0
      BY <2>2, <2>a, <2>5, FS_EmptySet
    <3> QED BY <2>5, <3>1, <3>2
  <2>8. Tail(handlers[t0]) \in Seq(Conns)
        /\ Len(Tail(handlers[t0])) = Len(handlers[t0]) - 1
    BY <2>7
  <2>9. BusTypeOK'
    BY <1>0, <2>1, <2>2, <2>3, <2>8 DEF BusTypeOK
  <2>10. ASSUME NEW t \in TopicSet
         PROVE  IsFiniteSet(Subscribers(t)') /\ Len(handlers'[t]) = Cardinality(Subscribers(t)')
    <3>1. CASE t = t0
      <4>1. Len(handlers'[t]) = Len(handlers[t]) - 1
        BY <1>0, <2>2, <2>3, <2>8, <3>1
      <4>2. k \in Subscribers(t) /\ Subscribers(t)' = Subscribers(t) \ {k}
        BY <2>a, <3>1
      <4>3. IsFiniteSet(Subscribers(t)) /\ Len(handlers[t]) = Cardinality(Subscribers(t))
        BY DEF Counted
      <4> QED BY <3>1, <4>1, <4>2, <4>3, FS_RemoveElement
    <3>2. CASE t # t0
      <4>1. Subscribers(t)' = Subscribers(t)
        BY <2>1, <2>2, <2>4, <3>2, SubscribersStep
      <4>2. handlers'[t] = handlers[t]
        BY <1>0, <2>2, <2>3, <3>2
      <4> QED BY <4>1, <4>2 DEF Counted
    <3> QED BY <3>1, <3>2
  <2> QED BY <2>9, <2>10 DEF Counted
<1> QED BY <1>1, <1>2, <1>3

(* Only connections are reached.                                           *)
LEMMA ReachedFacts ==
  ASSUME BusTypeOK, NEW c
  PROVE  Reached(Found, c) \subseteq Conns /\ Reached(Done, c) \subseteq Conns
<1>1. \A t \in TopicSet : \A i \in DOMAIN handlers[t] : handlers[t][i] \in Conns
  BY DEF BusTypeOK
<1>2. Found \in TopicSet /\ Done \in TopicSet
  BY EventTopicsAssumption DEF TopicSet
<1> QED BY <1>1, <1>2 DEF Reached, Range

(* A publication keeps the type of what is heard.                          *)
LEMMA PublishType ==
  ASSUME TypeOK, NEW topic, NEW c, NEW what \in SUBSET (Renderers \cup {Done}),
         Publish(topic, c, what)
  PROVE  heard' \in [Conns -> SUBSET (Renderers \cup {Done})]
<1>1. heard \in [Conns -> SUBSET (Renderers \cup {Done})]
  BY DEF TypeOK
<1> QED BY <1>1 DEF Publish

(* Every step keeps the types of the variables and the number of handlers. *)
LEMMA TypedStep == Typed /\ [Next]_vars => Typed'
<1> SUFFICES ASSUME Typed, [Next]_vars PROVE Typed'
    OBVIOUS
<1>b. UNCHANGED bus => BusTypeOK' /\ Counted'
  BY DEF Typed, TypeOK, bus, BusTypeOK, Counted, Subscribers, Subscribed
<1>t. TypeOK /\ BusTypeOK /\ Counted /\ Sighted
  BY DEF Typed, TypeOK
<1>o. owns \in [Requests -> BOOLEAN] /\ running \in BOOLEAN
  BY DEF Typed, TypeOK
<1> USE <1>t, AskerAssumption DEF TypeOK, Sighted, Scanning, manager, requests, tasks
<1>1. CASE Browser
  <2>1. steady' \in SUBSET Conns
    BY <1>1 DEF Browser
  <2>2. heard' \in [Conns -> SUBSET (Renderers \cup {Done})]
    BY <1>1 DEF Browser
  <2>3. BusTypeOK' /\ Counted'
    BY <1>1, BusStep DEF Browser
  <2> QED BY <1>1, <2>1, <2>2, <2>3 DEF Typed, Browser
<1>2. ASSUME NEW r \in Requests, Register(r) PROVE Typed'
  <2>1. Listening(Asker[r]) \subseteq Conns
    BY ReachedFacts DEF Listening
  <2>2. heard' \in [Conns -> SUBSET (Renderers \cup {Done})]
    BY <1>2 DEF Register
  <2>3. running' \in BOOLEAN
    BY <1>2 DEF Register
  <2>4. owns' \in [Requests -> BOOLEAN]
    BY <1>2, <1>o, Zenon DEF Register, NotRunning
  <2> QED BY <1>2, <1>b, <2>1, <2>2, <2>3, <2>4 DEF Typed, Register
<1>3. ASSUME NEW r \in Requests, flushCachedToClient(r) PROVE Typed'
  <2>1. heard' \in [Conns -> SUBSET (Renderers \cup {Done})]
    BY <1>3, PublishType DEF flushCachedToClient, Cached
  <2> QED BY <1>3, <1>b, <2>1 DEF Typed, flushCachedToClient, Leave
<1>4. ASSUME NEW r \in Requests, NEW t \in Tasks, Spawn(r, t) PROVE Typed'
  BY <1>4, <1>b DEF Typed, Spawn, Leave
<1>5. ASSUME NEW t \in Tasks, NEW d \in Devices, onDevice(t, d) PROVE Typed'
  BY <1>5, <1>b DEF Typed, onDevice, IsRenderer
<1>6. ASSUME NEW t \in Tasks, Snapshot(t) PROVE Typed'
  BY <1>6, <1>b DEF Typed, Snapshot
<1>7. ASSUME NEW t \in Tasks, NEW c \in Clients, PublishFound(t, c) PROVE Typed'
  <2>1. {dev[t]} \in SUBSET (Renderers \cup {Done})
    BY <1>7 DEF PublishFound
  <2>2. heard' \in [Conns -> SUBSET (Renderers \cup {Done})]
    BY <1>7, <2>1, PublishType DEF PublishFound
  <2> QED BY <1>7, <1>b, <2>2 DEF Typed, PublishFound
<1>8. ASSUME NEW t \in Tasks, ScanOn(t) PROVE Typed'
  BY <1>8, <1>b DEF Typed, ScanOn
<1>9. ASSUME NEW t \in Tasks, EndWindow(t) PROVE Typed'
  BY <1>9, <1>b DEF Typed, EndWindow, Stopped
<1>10. ASSUME NEW t \in Tasks, NEW c \in Clients, PublishDone(t, c) PROVE Typed'
  <2>1. heard' \in [Conns -> SUBSET (Renderers \cup {Done})]
    BY <1>10, PublishType DEF PublishDone
  <2> QED BY <1>10, <1>b, <2>1 DEF Typed, PublishDone
<1>11. ASSUME NEW t \in Tasks, TaskReturns(t) PROVE Typed'
  BY <1>11, <1>b DEF Typed, TaskReturns
<1>12. CASE UNCHANGED vars
  BY <1>12, <1>b DEF Typed, vars
<1> QED
  BY <1>1, <1>2, <1>3, <1>4, <1>5, <1>6, <1>7, <1>8, <1>9, <1>10, <1>11, <1>12
     DEF Next, Request, Task

(* Variables keep their types.                                             *)
THEOREM TypedAlways == Spec => []Typed
BY TypedInit, TypedStep, PTL DEF Spec

(* The variables of the bus and of the discovery have their types.         *)
THEOREM TypeCorrect == Spec => []TypeOK
BY TypedAlways, PTL DEF Typed

(* No handler is leaked and none is removed twice: a topic has as many as  *)
(* it has subscribed connections, though Unsubscribe removes them by       *)
(* position.                                                               *)
THEOREM HandlersCountedAlways == Spec => []HandlersCounted
<1>1. Typed => HandlersCounted
  BY DEF Typed, Counted, HandlersCounted, Subscribers
<1> QED BY <1>1, TypedAlways, PTL

(***************************************************************************)
(* One window at a time.                                                   *)
(***************************************************************************)
(* Every step leaves at most one task, or one request about to start one.  *)
LEMMA WindowStep == TypeOK /\ Window /\ [Next]_vars => Window'
<1> SUFFICES ASSUME TypeOK, Window, [Next]_vars PROVE Window'
    OBVIOUS
<1>o. /\ pc \in [Requests -> {"idle", "flush", "spawn"}] /\ DOMAIN owns = Requests
      /\ tpc \in [Tasks -> {"idle", "notify"} \cup Scanning]
  BY DEF TypeOK
<1> USE <1>o DEF Window, NoTask, NoOwner, OnlyTask, OnlyOwner, Scanning, manager, requests,
                 tasks
<1>1. CASE UNCHANGED <<running, pc, owns, tpc>>
  BY <1>1
<1>2. ASSUME NEW r \in Requests, Register(r) PROVE Window'
  <2>1. CASE running
    BY <1>2, <2>1 DEF Register, NotRunning
  <2>2. CASE ~running
    <3>1. OnlyOwner(r)'
      BY <1>2, <2>2 DEF Register, NotRunning
    <3> QED BY <1>2, <2>2, <3>1 DEF Register, NotRunning
  <2> QED BY <2>1, <2>2
<1>3. ASSUME NEW r \in Requests, flushCachedToClient(r) PROVE Window'
  <2>1. CASE owns[r]
    BY <1>3, <2>1 DEF flushCachedToClient
  <2>2. CASE ~owns[r]
    BY <1>3, <2>2 DEF flushCachedToClient, Leave
  <2> QED BY <2>1, <2>2
<1>4. ASSUME NEW r \in Requests, NEW t \in Tasks, Spawn(r, t) PROVE Window'
  <2>1. running /\ NoTask /\ OnlyOwner(r)
    BY <1>4 DEF Spawn
  <2>2. OnlyTask(t)' /\ NoOwner' /\ running'
    BY <1>4, <2>1 DEF Spawn, Leave
  <2> QED BY <1>4, <2>2 DEF Spawn, Leave
<1>5. ASSUME NEW t \in Tasks, tpc[t] \in Scanning, tpc'[t] \in Scanning,
             \E p \in Scanning : tpc' = [tpc EXCEPT ![t] = p],
             UNCHANGED <<running, pc, owns>>
      PROVE  Window'
  <2>1. running /\ NoOwner /\ OnlyTask(t)
    BY <1>5
  <2>2. OnlyTask(t)'
    BY <1>5, <2>1
  <2> QED BY <1>5, <2>1, <2>2
<1>6. ASSUME NEW t \in Tasks, NEW d \in Devices, onDevice(t, d) PROVE Window'
  BY <1>5, <1>6 DEF onDevice
<1>7. ASSUME NEW t \in Tasks, Snapshot(t) PROVE Window'
  BY <1>5, <1>7 DEF Snapshot
<1>8. ASSUME NEW t \in Tasks, ScanOn(t) PROVE Window'
  BY <1>5, <1>8 DEF ScanOn
<1>9. ASSUME NEW t \in Tasks, EndWindow(t) PROVE Window'
  <2>1. NoOwner /\ OnlyTask(t)
    BY <1>9 DEF EndWindow
  <2> QED BY <1>9, <2>1 DEF EndWindow, Stopped
<1>10. ASSUME NEW t \in Tasks, TaskReturns(t) PROVE Window'
  BY <1>10 DEF TaskReturns
<1>11. ASSUME NEW t \in Tasks, NEW c \in Clients, PublishFound(t, c) \/ PublishDone(t, c)
       PROVE  Window'
  BY <1>1, <1>11 DEF PublishFound, PublishDone
<1>12. CASE Browser
  BY <1>1, <1>12 DEF Browser
<1>13. CASE UNCHANGED vars
  BY <1>1, <1>13 DEF vars
<1> QED
  BY <1>2, <1>3, <1>4, <1>6, <1>7, <1>8, <1>9, <1>10, <1>11, <1>12, <1>13
     DEF Next, Request, Task

(* There is at most one task that scans, or one request that is about to   *)
(* start it, and the manager knows.                                        *)
THEOREM OneWindowAlways == Spec => []OneWindow
<1>1. Init => Window
  BY DEF Init, Window, NoTask, NoOwner, Scanning
<1>2. ASSUME Window PROVE OneWindow
  <2> DEFINE T == {t \in Tasks : tpc[t] \in Scanning}
             R == {r \in Requests : owns[r]}
  <2>1. CASE ~running /\ NoTask /\ NoOwner
    <3>1. T = {} /\ R = {}
      BY <2>1 DEF NoTask, NoOwner
    <3> QED BY <2>1, <3>1, FS_EmptySet DEF OneWindow
  <2>2. ASSUME running, NoOwner, NEW t \in Tasks, OnlyTask(t) PROVE OneWindow
    <3>1. T = {t} /\ R = {}
      BY <2>2 DEF NoOwner, OnlyTask
    <3>2. Cardinality(T) = 1 /\ Cardinality(R) = 0
      BY <3>1, FS_EmptySet, FS_Singleton
    <3> QED BY <2>2, <3>2 DEF OneWindow
  <2>3. ASSUME running, NoTask, NEW r \in Requests, OnlyOwner(r) PROVE OneWindow
    <3>1. T = {} /\ R = {r}
      BY <2>3 DEF NoTask, OnlyOwner
    <3>2. Cardinality(T) = 0 /\ Cardinality(R) = 1
      BY <3>1, FS_EmptySet, FS_Singleton
    <3> QED BY <2>3, <3>2 DEF OneWindow
  <2> QED BY <1>2, <2>1, <2>2, <2>3 DEF Window
<1> QED BY <1>1, <1>2, TypedAlways, WindowStep, PTL DEF Spec, Typed

(***************************************************************************)
(* No renderer is missed.                                                  *)
(***************************************************************************)
(* Every step keeps the connections in steady listening.                   *)
LEMMA SteadyStep == Steady /\ [Next]_vars => Steady'
<1> SUFFICES ASSUME Steady, [Next]_vars PROVE Steady'
    OBVIOUS
<1>1. CASE Browser
  BY <1>1 DEF Browser, Steady
<1>2. ASSUME NEW r \in Requests, Register(r) PROVE Steady'
  BY <1>2 DEF Register, Steady, Listening, Reached, bus
<1>3. CASE UNCHANGED <<bus, steady>>
  BY <1>3 DEF Steady, bus
<1> QED
  BY <1>1, <1>2, <1>3
     DEF Next, Request, Task, vars, flushCachedToClient, Spawn, onDevice, Snapshot,
         PublishFound, ScanOn, EndWindow, PublishDone, TaskReturns

(* What is published for a client arrives where it has been listening, and *)
(* nobody forgets what was heard.                                          *)
LEMMA PublishArrives ==
  ASSUME TypeOK, Steady, NEW topic \in {Found, Done}, NEW c, NEW what,
         Publish(topic, c, what), NEW k \in steady
  PROVE  /\ heard[k] \subseteq heard'[k]
         /\ Owner[k] = c => what \subseteq heard'[k]
<1>1. k \in Conns
  BY DEF TypeOK
<1>2. Owner[k] = c => k \in Reached(topic, c)
  BY DEF Steady, Reached
<1> QED BY <1>1, <1>2 DEF Publish

(* Every step keeps renderers heard of, or on their way.                   *)
LEMMA NoRendererMissedStep ==
  Typed /\ Steady /\ NoRendererMissed /\ [Next]_vars => NoRendererMissed'
<1> SUFFICES ASSUME Typed, Steady, NoRendererMissed, [Next]_vars,
                    NEW k \in steady', NEW d \in cache', Owner[k] \in clients'
             PROVE  d \in heard'[k] \/ OnItsWay(d, Owner[k])'
    BY DEF NoRendererMissed
<1> DEFINE Told == d \in heard'[k] \/ OnItsWay(d, Owner[k])'
<1>t. /\ pc \in [Requests -> {"idle", "flush", "spawn"}]
      /\ tpc \in [Tasks -> {"idle", "notify"} \cup Scanning]
      /\ dev \in [Tasks -> Renderers \cup {None}]
      /\ to \in [Tasks -> SUBSET Clients]
      /\ steady \in SUBSET Conns
      /\ heard \in [Conns -> SUBSET (Renderers \cup {Done})]
  BY DEF Typed, TypeOK
<1>k. k \in steady /\ d \in cache /\ Owner[k] \in clients
         => d \in heard[k] \/ OnItsWay(d, Owner[k])
  BY DEF NoRendererMissed
<1> USE <1>t DEF Scanning, OnItsWay, manager, requests, tasks
<1>1. CASE Browser
  <2>1. k \in steady /\ heard'[k] = heard[k]
    BY <1>1 DEF Browser
  <2> QED BY <1>1, <1>k, <2>1 DEF Browser
<1>2. ASSUME NEW r \in Requests, Register(r) PROVE Told
  <2>1. CASE Owner[k] = Asker[r]
    BY <1>2, <2>1 DEF Register
  <2>2. CASE Owner[k] # Asker[r]
    <3>1. k \in steady /\ Owner[k] \in clients /\ d \in cache
      BY <1>2, <2>2 DEF Register, Listening, Reached
    <3>2. heard'[k] = heard[k]
      BY <1>2, <2>2, <3>1 DEF Register
    <3> QED BY <1>2, <1>k, <3>1, <3>2 DEF Register
  <2> QED BY <2>1, <2>2
<1>3. ASSUME NEW r \in Requests, flushCachedToClient(r) PROVE Told
  <2>1. k \in steady /\ d \in cache /\ Owner[k] \in clients
    BY <1>3 DEF flushCachedToClient
  <2>2. heard[k] \subseteq heard'[k] /\ (Owner[k] = Asker[r] => d \in heard'[k])
    BY <1>3, <2>1, PublishArrives DEF flushCachedToClient, Cached, Typed
  <2>3. CASE Owner[k] # Asker[r]
    BY <1>3, <1>k, <2>1, <2>2, <2>3 DEF flushCachedToClient, Leave
  <2> QED BY <2>2, <2>3
<1>4. ASSUME NEW r \in Requests, NEW t \in Tasks, Spawn(r, t) PROVE Told
  BY <1>4, <1>k DEF Spawn, Leave
<1>5. ASSUME NEW t \in Tasks, NEW e \in Devices, onDevice(t, e) PROVE Told
  BY <1>5, <1>k DEF onDevice
<1>6. ASSUME NEW t \in Tasks, Snapshot(t) PROVE Told
  BY <1>6, <1>k DEF Snapshot
<1>7. ASSUME NEW t \in Tasks, NEW c \in Clients, PublishFound(t, c) PROVE Told
  <2>1. k \in steady /\ d \in cache /\ Owner[k] \in clients
    BY <1>7 DEF PublishFound
  <2>2. heard[k] \subseteq heard'[k] /\ (Owner[k] = c => dev[t] \in heard'[k])
    BY <1>7, <2>1, PublishArrives DEF PublishFound, Typed
  <2> QED BY <1>7, <1>k, <2>1, <2>2 DEF PublishFound
<1>8. ASSUME NEW t \in Tasks, ScanOn(t) PROVE Told
  BY <1>8, <1>k DEF ScanOn
<1>9. ASSUME NEW t \in Tasks, EndWindow(t) PROVE Told
  BY <1>9 DEF EndWindow
<1>10. ASSUME NEW t \in Tasks, NEW c \in Clients, PublishDone(t, c) PROVE Told
  <2>1. k \in steady /\ d \in cache /\ Owner[k] \in clients
    BY <1>10 DEF PublishDone
  <2>2. heard[k] \subseteq heard'[k]
    BY <1>10, <2>1, PublishArrives DEF PublishDone, Typed
  <2> QED BY <1>10, <1>k, <2>1, <2>2 DEF PublishDone
<1>11. ASSUME NEW t \in Tasks, TaskReturns(t) PROVE Told
  BY <1>11, <1>k DEF TaskReturns
<1>12. CASE UNCHANGED vars
  BY <1>12, <1>k DEF vars
<1> QED
  BY <1>1, <1>2, <1>3, <1>4, <1>5, <1>6, <1>7, <1>8, <1>9, <1>10, <1>11, <1>12
     DEF Next, Request, Task

(* A connection that has been listening since its client asked has heard   *)
(* of every renderer in the cache or is about to.                          *)
THEOREM NoRendererMissedAlways == Spec => []NoRendererMissed
<1>1. Init => Steady /\ NoRendererMissed
  BY DEF Init, Steady, NoRendererMissed
<1> QED BY <1>1, TypedAlways, SteadyStep, NoRendererMissedStep, PTL DEF Spec

-----------------------------------------------------------------------------
(***************************************************************************)
(* The search of media.                                                    *)
(***************************************************************************)
(* The indexes by name, and what the last build has planned for a file.    *)
KindSet == {Kinds[k] : k \in 1 .. 3}
PlanOf(f) == Plan(f[1], indexed)[f[2]]
Planned(n) == Whole(PlanOf(File(n)))

(* The records that variables are.                                         *)
Shaped ==
    /\ records \in Layouts /\ indexed \in Layouts
    /\ docs \subseteq Ids /\ altered \subseteq Ids /\ unseen \subseteq Ids /\ touched \subseteq Ids
    /\ halved \in BOOLEAN /\ mixed \in BOOLEAN
    /\ disk = [f \in Files |-> disk[f]]
    /\ builder = [at |-> builder.at, n |-> builder.n, contents |-> builder.contents, ids |-> builder.ids]
    /\ reset = [at |-> reset.at, files |-> reset.files, ids |-> reset.ids, docs |-> reset.docs]
    /\ search = [at |-> search.at, query |-> search.query, index |-> search.index,
                 ids |-> search.ids, found |-> search.found]
    /\ search.at # "none" => search.query \in Queries

SearchTyped == SearchTypeOK /\ Shaped

(* The files that a build has put in place, unless a removal has taken     *)
(* them again, and the one it is writing.                                  *)
Gone(i) == disk[File(i)] = Absent /\ (halved \/ ~folder)
Building ==
    /\ builder.at # "ids" => builder.ids = {}
    /\ builder.at = "ids" => builder.n = 1
    /\ builder.at \in {"ids", "create", "write"} =>
           builder.contents = [kind \in KindSet |-> Plan(kind, indexed)]
    /\ builder.at \in {"create", "write"} =>
           \A i \in 1 .. 9 : i < builder.n => disk[File(i)] = Planned(i) \/ Gone(i)
    /\ builder.at = "write" => disk[File(builder.n)] = Part \/ Gone(builder.n)

(* Of a build that has not begun among what a removal had left: the sixth  *)
(* file is there only after the five before it, and is not there while     *)
(* they are being replaced; the files after it are the same build's.       *)
Early ==
    \/ builder.at = "ids"
    \/ builder.at = "create" /\ builder.n <= 6
    \/ builder.at = "write" /\ builder.n < 6
Sealed ==
    /\ mixed => halved
    /\ ~mixed =>
          /\ disk[File(6)] # Absent =>
                 /\ \A i \in 1 .. 5 : disk[File(i)] = Planned(i) \/ (halved /\ disk[File(i)] = Absent)
                 /\ disk[File(6)] \in {Part, Planned(6)}
          /\ \A i \in 7 .. 9 : /\ disk[File(i)] \in {Absent, Part, Planned(i)}
                               /\ disk[File(6)] = Absent => disk[File(i)] = Absent \/ halved
          /\ builder.at = "read" => disk[File(6)] = Absent \/ halved
          /\ Early => \A i \in 6 .. 9 : disk[File(i)] = Absent

FilesInv == SearchTyped /\ Building /\ Sealed

(* What the index has of records that have not changed: what a build that  *)
(* goes on leads to or is about to, and what a search can be led to.       *)
Kept(d) == indexed[d] = records[d] /\ (records[d] # NoRecord => d \in docs \cup builder.ids)
Fresh(d) == indexed[d] = records[d] /\ (records[d] # NoRecord => d \in docs)
Searching == search.at \in {"name", "path", "gram", "look"}
Known ==
    /\ builder.at \in {"ids", "create", "write"} \/ (~mixed /\ disk[File(6)] # Absent) =>
           \A d \in Ids \ altered : Kept(d)
    /\ Searching => \A d \in Ids \ (unseen \cup touched) : Fresh(d)
    /\ Searching /\ mixed => unseen = Ids

(* While a search opens indexes, no file of an earlier build is left.      *)
Intact ==
    search.at \in {"name", "path"} /\ ~mixed =>
        /\ \A i \in 1 .. 5 : disk[File(i)] \in {Absent, Part, Planned(i)}
        /\ builder.at \in {"check", "read"} =>
               halved \/ MediaIndexExists \/ \A i \in 1 .. 9 : disk[File(i)] = Absent

(* What a search owes, and where it has it on its way.                     *)
Owed(d) == /\ records[d] # NoRecord /\ d \notin unseen \cup touched
           /\ Matches(records[d], search.query)
Carried == unseen # Ids =>
    /\ search.at = "path" => \A t \in DOMAIN Grams :
           /\ Posting(search.index.name, t) \in Seq(Ids)
           /\ \A d \in Ids : Owed(d) /\ t \in ToSet(records[d].name)
                             => d \in ToSet(Posting(search.index.name, t))
    /\ search.at \in {"gram", "look"} =>
           /\ search.ids \in Seq(Ids)
           /\ \A d \in Ids : Owed(d) => d \in ToSet(search.ids) \cup search.found

-----------------------------------------------------------------------------
(* The nine files, by number.                                              *)
LEMMA FileNames ==
  /\ File(1) = <<"name", "dat">> /\ File(2) = <<"name", "idx">> /\ File(3) = <<"name", "dict">>
  /\ File(4) = <<"path", "dat">> /\ File(5) = <<"path", "idx">> /\ File(6) = <<"path", "dict">>
  /\ File(7) = <<"gram", "dat">> /\ File(8) = <<"gram", "idx">> /\ File(9) = <<"gram", "dict">>
BY DEF File, Kinds, Parts

(* The set of files, by kind and part.                                     *)
LEMMA FileSet ==
  /\ KindSet = {"name", "path", "gram"}
  /\ Files = KindSet \X {"dat", "idx", "dict"}
<1>1. KindSet = {"name", "path", "gram"}
  BY DEF KindSet, Kinds
<1>2. {Parts[p] : p \in 1 .. 3} = {"dat", "idx", "dict"}
  BY DEF Parts
<1> QED BY <1>1, <1>2 DEF Files, KindSet

(* Each file has a number, and each number is that of a file of its own.   *)
LEMMA FileFacts ==
  /\ \A n \in 1 .. 9 : File(n) \in Files /\ File(n)[1] \in KindSet /\ File(n)[2] \in {"dat", "idx", "dict"}
  /\ \A m, n \in 1 .. 9 : File(m) = File(n) => m = n
  /\ \A f \in Files : \E n \in 1 .. 9 : f = File(n)
<1>1. \A n \in 1 .. 9 : n = 1 \/ n = 2 \/ n = 3 \/ n = 4 \/ n = 5 \/ n = 6 \/ n = 7 \/ n = 8 \/ n = 9
  OBVIOUS
<1>2. \A n \in 1 .. 9 : File(n) \in Files /\ File(n)[1] \in KindSet /\ File(n)[2] \in {"dat", "idx", "dict"}
  BY <1>1, FileNames, FileSet
<1>3. \A m, n \in 1 .. 9 : File(m) = File(n) => m = n
  BY <1>1, FileNames
<1>4. \A f \in Files : \/ f = File(1) \/ f = File(2) \/ f = File(3) \/ f = File(4) \/ f = File(5)
                       \/ f = File(6) \/ f = File(7) \/ f = File(8) \/ f = File(9)
  BY FileNames, FileSet
<1> QED BY <1>2, <1>3, <1>4

(* The stages of a file are different.                                     *)
LEMMA Stages == \A v : Absent # Part /\ Absent # Whole(v) /\ Part # Whole(v)
                       /\ Absent.st = "absent" /\ Part.st = "part" /\ Whole(v).st = "whole"
                       /\ Absent.val = <<>> /\ Part.val = <<>> /\ Whole(v).val = v
BY DEF Absent, Part, Whole

(* The variables have their types in an initial state.                     *)
LEMMA SearchTypedInit == SearchInit => SearchTyped
<1> SUFFICES ASSUME SearchInit PROVE SearchTyped
  OBVIOUS
<1>1. SearchTypeOK
  BY BoundsAssumption, Stages DEF SearchInit, SearchTypeOK, NoSearch, NoBuild, NoReset
<1>2. records \in Layouts /\ indexed \in Layouts
  BY DEF SearchInit, Layouts
<1>3. disk = [f \in Files |-> disk[f]]
  BY Zenon DEF SearchInit
<1> QED BY <1>1, <1>2, <1>3 DEF SearchInit, SearchTyped, Shaped, NoSearch, NoBuild, NoReset

(* Every step keeps the types.                                             *)
LEMMA SearchTypedStep == SearchTyped /\ [SearchNext]_searchVars => SearchTyped'
<1> SUFFICES ASSUME SearchTyped, [SearchNext]_searchVars PROVE SearchTyped'
  OBVIOUS
<1> USE BoundsAssumption, Stages DEF SearchTyped, SearchTypeOK, Shaped, index, bounds, history, remains
<1>1. CASE Check
  BY <1>1 DEF Check, Ended, NoBuild
<1>2. CASE Read
  BY <1>2 DEF Read, Live, During
<1>3. CASE SetDocId
  BY <1>3 DEF SetDocId
<1>4. CASE CreateFile
  <2>1. disk' = disk \/ (disk' = [disk EXCEPT ![File(builder.n)] = Part] /\ folder)
    BY <1>4, Zenon DEF CreateFile
  <2>2. disk' = [f \in Files |-> disk'[f]]
    BY <2>1
  <2>3. \A f \in Files : disk'[f] = disk[f] \/ (disk'[f] = Part /\ folder)
    BY <2>1
  <2> QED BY <1>4, <2>2, <2>3 DEF CreateFile, Ended, NoBuild
<1>5. CASE WriteFile
  <2> DEFINE f == File(builder.n)
             w == Whole(builder.contents[f[1]][f[2]])
  <2>1. disk' = disk \/ (disk' = [disk EXCEPT ![f] = w] /\ disk[f] # Absent)
    BY <1>5, Zenon DEF WriteFile
  <2>2. disk' = [g \in Files |-> disk'[g]]
    BY <2>1
  <2>3. w.st = "whole" /\ f \in Files
    BY FileFacts
  <2>4. \A g \in Files : disk'[g] = disk[g] \/ (disk'[g] = w /\ disk[f] # Absent)
    BY <2>1
  <2>5. builder' = Ended
        \/ (builder.n # 9 /\ builder' = [builder EXCEPT !.at = "create", !.n = @ + 1])
    BY <1>5, Zenon DEF WriteFile
  <2>6. UNCHANGED <<records, docs, folder, reset, search, bounds, indexed, altered, unseen, touched>>
    BY <1>5 DEF WriteFile
  <2>7. halved' \in BOOLEAN /\ mixed' \in BOOLEAN
    BY <1>5 DEF WriteFile
  <2> HIDE DEF w, f
  <2>8. \A g \in Files : disk'[g].st \in {"absent", "part", "whole"}
    BY <2>3, <2>4
  <2>9. ~folder' => \A g \in Files : disk'[g] = Absent
    BY <2>3, <2>4, <2>6
  <2>10. /\ builder'.at \in {"create", "stopped"} /\ builder'.n \in 1 .. 9 /\ builder'.ids \subseteq Ids
         /\ builder' = [at |-> builder'.at, n |-> builder'.n, contents |-> builder'.contents,
                        ids |-> builder'.ids]
    <3>1. CASE builder' = Ended
      <4>1. builder' = [at |-> "stopped", n |-> 1, contents |-> <<>>, ids |-> {}]
        BY <3>1 DEF Ended, NoBuild
      <4> QED BY <4>1
    <3>2. CASE builder.n # 9 /\ builder' = [builder EXCEPT !.at = "create", !.n = @ + 1]
      <4>1. builder.n + 1 \in 1 .. 9
        BY <3>2
      <4>2. builder' = [at |-> "create", n |-> builder.n + 1, contents |-> builder.contents,
                        ids |-> builder.ids]
        BY <3>2
      <4> QED BY <4>1, <4>2
    <3> QED BY <2>5, <3>1, <3>2
  <2> QED BY <2>2, <2>6, <2>7, <2>8, <2>9, <2>10
<1>6. CASE Begin
  BY <1>6 DEF Begin, NoSearch
<1>7. CASE OpenNames
  BY <1>7 DEF OpenNames
<1>8. CASE OpenPaths
  <2>1. \/ search' = NoSearch
        \/ /\ search'.at \in {"scan", "look", "gram"} /\ search'.query = search.query
           /\ search'.found = search.found
           /\ search' = [at |-> search'.at, query |-> search'.query, index |-> search'.index,
                         ids |-> search'.ids, found |-> search'.found]
    BY <1>8 DEF OpenPaths
  <2> QED BY <1>8, <2>1 DEF OpenPaths, NoSearch
<1>9. CASE OpenGrams
  <2>1. \/ search' = NoSearch
        \/ /\ search'.at = "look" /\ search'.query = search.query /\ search'.found = search.found
           /\ search' = [at |-> search'.at, query |-> search'.query, index |-> search'.index,
                         ids |-> search'.ids, found |-> search'.found]
    BY <1>9 DEF OpenGrams
  <2> QED BY <1>9, <2>1 DEF OpenGrams, NoSearch
<1>10. CASE Look
  BY <1>10 DEF Look
<1>11. CASE Looked
  BY <1>11 DEF Looked, Otherwise
<1>12. CASE Scan
  BY <1>12 DEF Scan
<1>13. ASSUME NEW d \in Ids, Change(d) PROVE SearchTyped'
  BY <1>13 DEF Change, Layouts, During
<1>14. CASE ListFiles
  <2>1. reset'.files \subseteq Files /\ reset'.at \in {"unlink", "records"}
        /\ reset'.ids = reset.ids /\ reset'.docs = reset.docs
        /\ reset' = [at |-> reset'.at, files |-> reset'.files, ids |-> reset'.ids, docs |-> reset'.docs]
    BY <1>14 DEF ListFiles
  <2> QED BY <1>14, <2>1 DEF ListFiles
<1>15. CASE Unlink
  <2>1. PICK f \in reset.files : reset' = [reset EXCEPT !.files = @ \ {f}] /\ disk' = [disk EXCEPT ![f] = Absent]
    BY <1>15, Zenon DEF Unlink
  <2>2. disk' = [g \in Files |-> disk'[g]] /\ \A g \in Files : disk'[g] \in {disk[g], Absent}
    BY <2>1
  <2> QED BY <1>15, <2>1, <2>2 DEF Unlink
<1>16. CASE RemoveFolder
  <2>1. /\ reset' \in {NoReset, [reset EXCEPT !.at = "records"]}
        /\ UNCHANGED <<records, docs, disk, builder, search, bounds, indexed, altered, unseen, touched>>
        /\ halved' \in BOOLEAN /\ mixed' \in BOOLEAN
    BY <1>16 DEF RemoveFolder
  <2>2. ~folder' => \A f \in Files : disk'[f] = Absent
    BY <1>16 DEF RemoveFolder
  <2>3. NoReset.at = "none" /\ NoReset.files = {} /\ NoReset.ids = {} /\ NoReset.docs = {}
        /\ NoReset = [at |-> NoReset.at, files |-> NoReset.files, ids |-> NoReset.ids, docs |-> NoReset.docs]
    BY DEF NoReset
  <2> QED BY <2>1, <2>2, <2>3
<1>17. CASE ListRecords
  BY <1>17 DEF ListRecords, Live
<1>18. CASE ListDocs
  BY <1>18 DEF ListDocs
<1>19. CASE DeleteBatch
  <2>1. records' \in Layouts
    BY <1>19 DEF DeleteBatch, Layouts
  <2>2. docs' \subseteq Ids /\ altered' \subseteq Ids /\ touched' \subseteq Ids /\ unseen' \subseteq Ids
    BY <1>19 DEF DeleteBatch, During
  <2>3. /\ reset'.at \in {"none", "docs", "rest"} /\ reset'.files \subseteq Files
        /\ reset'.ids \subseteq Ids /\ reset'.docs \subseteq Ids
        /\ reset' = [at |-> reset'.at, files |-> reset'.files, ids |-> reset'.ids, docs |-> reset'.docs]
    BY <1>19 DEF DeleteBatch, NoReset
  <2>4. /\ disk' = disk /\ folder' = folder /\ builder' = builder /\ search' = search /\ indexed' = indexed
        /\ changes' = changes /\ resets' = resets /\ restarts' = restarts
        /\ halved' = halved /\ mixed' = mixed
    BY <1>19 DEF DeleteBatch
  <2>5. \A d \in Ids : records'[d] \in Values \cup {NoRecord}
    BY <2>1 DEF Layouts
  <2>6. records' \in [Ids -> Values \cup {NoRecord}]
    BY <2>1 DEF Layouts
  <2>7. SearchTypeOK'
    BY <2>2, <2>3, <2>4, <2>6
  <2>8. Shaped'
    BY <2>1, <2>2, <2>3, <2>4
  <2> QED BY <2>7, <2>8
<1>20. CASE Restart
  BY <1>20 DEF Restart, NoSearch, NoBuild, NoReset
<1>21. CASE UNCHANGED searchVars
  BY <1>21 DEF searchVars
<1> QED BY <1>1, <1>2, <1>3, <1>4, <1>5, <1>6, <1>7, <1>8, <1>9, <1>10, <1>11, <1>12, <1>13, <1>14, <1>15,
           <1>16, <1>17, <1>18, <1>19, <1>20, <1>21 DEF SearchNext

(***************************************************************************)
(* The files.                                                              *)
(***************************************************************************)
LEMMA PlannedFacts == \A n : Planned(n) # Absent /\ Planned(n) # Part /\ Planned(n).st = "whole"
BY Stages DEF Planned

(* Who leaves files and builder alone leaves the order of the files.       *)
LEMMA FilesKept ==
  ASSUME Building, Sealed, UNCHANGED <<disk, folder, builder, indexed, halved, mixed>>
  PROVE  Building' /\ Sealed'
<1>1. \A n : Planned(n)' = Planned(n) /\ Gone(n)' = Gone(n)
  BY DEF Planned, PlanOf, Gone
<1>2. \A kind : Plan(kind, indexed)' = Plan(kind, indexed)
  OBVIOUS
<1>3. Early' = Early
  BY DEF Early
<1> QED BY <1>1, <1>2, <1>3 DEF Building, Sealed

(* There are no files yet.                                                 *)
LEMMA FilesInit == SearchInit => Building /\ Sealed
BY FileFacts, Stages DEF SearchInit, Building, Sealed, Early, NoBuild

(* An index exists when the dictionary of paths does, as long as no file   *)
(* of it has been taken; it exists at most then.                           *)
LEMMA Exists ==
  ASSUME Sealed, ~mixed
  PROVE  /\ disk[File(6)] # Absent => MediaIndexExists \/ halved
         /\ MediaIndexExists => \A i \in 1 .. 5 : disk[File(i)] = Planned(i)
         /\ MediaIndexExists => disk[File(6)] # Absent
BY PlannedFacts DEF Sealed, MediaIndexExists

(* Builds that are broken off or begun again over their files, and files   *)
(* that are removed beside them, keep the order of the files.              *)
LEMMA FilesStep == FilesInv /\ [SearchNext]_searchVars => Building' /\ Sealed'
<1> SUFFICES ASSUME FilesInv, [SearchNext]_searchVars PROVE Building' /\ Sealed'
  OBVIOUS
<1>0. SearchTyped /\ Building /\ Sealed /\ SearchTyped'
  BY SearchTypedStep DEF FilesInv
<1>s. builder.n \in 1 .. 9 /\ disk = [f \in Files |-> disk[f]]
      /\ (~folder => \A n \in 1 .. 9 : disk[File(n)] = Absent)
      /\ halved \in BOOLEAN /\ mixed \in BOOLEAN
      /\ builder = [at |-> builder.at, n |-> builder.n, contents |-> builder.contents, ids |-> builder.ids]
  BY <1>0, FileFacts DEF SearchTyped, SearchTypeOK, Shaped
<1>p. ASSUME UNCHANGED indexed PROVE \A n : Planned(n)' = Planned(n)
  BY <1>p DEF Planned, PlanOf
<1>b. builder' = Ended => builder'.at = "stopped" /\ builder'.ids = {}
  BY DEF Ended, NoBuild
<1>1. CASE Check
  <2>1. /\ builder'.at \in {"stopped", "read"} /\ (builder'.at = "read" => ~MediaIndexExists)
        /\ builder'.ids = {}
    BY <1>0, <1>1, <1>s, <1>b DEF Check, Building
  <2>2. UNCHANGED <<disk, indexed, halved, mixed>>
    BY <1>1 DEF Check, history, remains, index
  <2>3. Building'
    BY <2>1 DEF Building
  <2>4. \A n : Planned(n)' = Planned(n)
    BY <1>p, <2>2
  <2>5. builder'.at = "read" /\ ~mixed => disk[File(6)] = Absent \/ halved
    BY <1>0, <2>1, Exists
  <2>6. ~Early'
    BY <2>1 DEF Early
  <2> QED BY <1>0, <2>2, <2>3, <2>4, <2>5, <2>6 DEF Sealed
<1>2. CASE Read
  <2>1. ~halved => ~mixed /\ disk[File(6)] = Absent /\ \A n \in 7 .. 9 : disk[File(n)] = Absent
    BY <1>0, <1>2 DEF Read, Sealed
  <2>2. builder'.at = "ids" /\ builder'.n = 1 /\ disk' = disk /\ mixed' = halved /\ halved' = halved
        /\ builder'.contents = [kind \in KindSet |-> Contents(kind)] /\ indexed' = records
    BY <1>2, Zenon DEF Read, KindSet
  <2>3. \A kind : Plan(kind, indexed)' = Contents(kind)
    BY <2>2 DEF Plan, Contents, Live
  <2>4. Building'
    BY <2>2, <2>3 DEF Building
  <2>5. ASSUME ~mixed' PROVE \A i \in 6 .. 9 : disk'[File(i)] = Absent
    BY <2>1, <2>2, <2>5
  <2>6. Sealed'
    BY <2>2, <2>5 DEF Sealed
  <2> QED BY <2>4, <2>6
<1>3. CASE SetDocId
  <2>1. UNCHANGED <<disk, folder, indexed, halved, mixed>> /\ builder.at = "ids"
    BY <1>3 DEF SetDocId, history, remains
  <2>2. /\ builder'.at \in {"ids", "create"} /\ builder'.n = builder.n
        /\ builder'.contents = builder.contents /\ (builder'.at = "create" => builder'.ids = {})
    BY <1>3, <1>s DEF SetDocId
  <2>3. builder.n = 1
    BY <1>0, <2>1 DEF Building
  <2>4. \A n : Planned(n)' = Planned(n)
    BY <1>p, <2>1
  <2>5. Early
    BY <2>1 DEF Early
  <2>6. Building'
    BY <1>0, <2>1, <2>2, <2>3 DEF Building
  <2> QED BY <1>0, <2>1, <2>2, <2>4, <2>5, <2>6 DEF Sealed
<1>4. CASE CreateFile
  <2>1. builder.at = "create" /\ UNCHANGED <<folder, indexed, halved, mixed>>
    BY <1>4 DEF CreateFile, history, remains
  <2>2. \A n : Planned(n)' = Planned(n)
    BY <1>p, <2>1
  <2>3. CASE folder
    <3>1. builder'.at = "write" /\ disk' = [disk EXCEPT ![File(builder.n)] = Part]
          /\ builder'.n = builder.n /\ builder'.contents = builder.contents /\ builder'.ids = builder.ids
      BY <1>4, <1>s, <2>3 DEF CreateFile
    <3>2. \A i \in 1 .. 9 : disk'[File(i)] = IF i = builder.n THEN Part ELSE disk[File(i)]
      BY <1>s, <3>1, FileFacts
    <3>3. \A i \in 1 .. 9 : i # builder.n => Gone(i)' = Gone(i)
      BY <2>1, <3>2 DEF Gone
    <3>4. Building'
      BY <1>0, <2>1, <2>2, <3>1, <3>2, <3>3, <1>s DEF Building
    <3>5. \A i \in 1 .. 9 : i < builder.n => disk[File(i)] = Planned(i) \/ (halved /\ disk[File(i)] = Absent)
      BY <1>0, <2>1, <2>3 DEF Building, Gone
    <3>6. SUFFICES ASSUME ~mixed PROVE Sealed'
      BY <1>0, <2>1, <3>4 DEF Sealed
    <3>7. builder.n <= 6 => \A i \in 6 .. 9 : disk[File(i)] = Absent
      BY <1>0, <2>1, <3>6 DEF Sealed, Early
    <3>8. CASE builder.n < 6
      <4>1. \A i \in 6 .. 9 : disk'[File(i)] = Absent
        BY <1>s, <3>2, <3>7, <3>8
      <4>2. builder'.at # "read"
        BY <3>1
      <4> QED BY <1>0, <2>1, <4>1, <4>2 DEF Sealed
    <3>9. CASE builder.n = 6
      <4>1. disk'[File(6)] = Part /\ \A i \in 7 .. 9 : disk'[File(i)] = Absent
        BY <3>2, <3>7, <3>9
      <4>2. \A i \in 1 .. 5 : disk'[File(i)] = Planned(i)' \/ (halved' /\ disk'[File(i)] = Absent)
        BY <2>1, <2>2, <3>2, <3>5, <3>9
      <4>3. ~Early' /\ builder'.at # "read"
        BY <3>1, <3>9 DEF Early
      <4> QED BY <1>0, <2>1, <4>1, <4>2, <4>3 DEF Sealed
    <3>10. CASE builder.n > 6
      <4>1. \A i \in 1 .. 6 : disk'[File(i)] = disk[File(i)]
        BY <3>2, <3>10
      <4>2. \A i \in 7 .. 9 : /\ disk'[File(i)] \in {Absent, Part, Planned(i)}
                              /\ disk'[File(6)] = Absent => disk'[File(i)] = Absent \/ halved
        BY <1>0, <3>2, <3>5, <3>6, <3>10, PlannedFacts DEF Sealed
      <4>3. ~Early' /\ builder'.at # "read"
        BY <1>s, <3>1, <3>10 DEF Early
      <4>4. disk'[File(6)] # Absent =>
               /\ \A i \in 1 .. 5 : disk'[File(i)] = Planned(i)' \/ (halved' /\ disk'[File(i)] = Absent)
               /\ disk'[File(6)] \in {Part, Planned(6)'}
        BY <1>0, <2>1, <2>2, <3>6, <4>1 DEF Sealed
      <4>5. \A i \in 7 .. 9 : /\ disk'[File(i)] \in {Absent, Part, Planned(i)'}
                              /\ disk'[File(6)] = Absent => disk'[File(i)] = Absent \/ halved'
        BY <2>1, <2>2, <4>2
      <4>6. ~mixed' /\ halved' = halved
        BY <2>1, <3>6
      <4> QED BY <4>3, <4>4, <4>5, <4>6 DEF Sealed
    <3> QED BY <1>s, <3>8, <3>9, <3>10
  <2>4. CASE ~folder
    <3>1. builder'.at = "stopped" /\ builder'.ids = {} /\ disk' = disk
      BY <1>4, <1>b, <2>4 DEF CreateFile
    <3>2. ~Early'
      BY <3>1 DEF Early
    <3> QED BY <1>0, <2>1, <2>2, <3>1, <3>2 DEF Building, Sealed
  <2> QED BY <2>3, <2>4
<1>5. CASE WriteFile
  <2> DEFINE n == builder.n
  <2>1. builder.at = "write" /\ UNCHANGED <<folder, indexed>>
    BY <1>5 DEF WriteFile
  <2>2. \A i : Planned(i)' = Planned(i)
    BY <1>p, <2>1
  <2>3. \/ n = 9 /\ builder'.at = "stopped" /\ builder'.ids = {}
        \/ n # 9 /\ builder'.at = "create" /\ builder'.n = n + 1
                 /\ builder'.contents = builder.contents /\ builder'.ids = builder.ids
    BY <1>5, <1>s, <1>b DEF WriteFile
  <2>4. LET through == n = 9 /\ \A f \in Files : disk[f] # Absent
        IN mixed' = (mixed /\ ~through) /\ halved' = (halved /\ ~(through /\ reset.at # "unlink"))
    BY <1>5 DEF WriteFile
  <2>5. (disk[File(n)] = Part \/ Gone(n)) /\ builder.contents = [kind \in KindSet |-> Plan(kind, indexed)]
    BY <1>0, <2>1 DEF Building
  <2>6. builder.contents[File(n)[1]][File(n)[2]] = PlanOf(File(n))
    BY <1>s, <2>5, FileFacts DEF PlanOf
  <2>7. disk' = IF disk[File(n)] = Absent THEN disk ELSE [disk EXCEPT ![File(n)] = Planned(n)]
    BY <1>5, <2>6 DEF WriteFile, Planned
  <2>8. \A i \in 1 .. 9 : disk'[File(i)] = IF i = n /\ disk[File(n)] # Absent THEN Planned(n) ELSE disk[File(i)]
    BY <1>s, <2>7, FileFacts
  <2>9. \A i \in 1 .. 9 : i < n => disk[File(i)] = Planned(i) \/ Gone(i)
    BY <1>0, <2>1 DEF Building
  <2>10. CASE n = 9 /\ \A f \in Files : disk[f] # Absent
    <3>1. \A i \in 1 .. 9 : disk[File(i)] # Absent
      BY <2>10, FileFacts
    <3>2. \A i \in 1 .. 9 : disk'[File(i)] = Planned(i)
      BY <2>8, <2>9, <2>10, <3>1 DEF Gone
    <3>3. ~mixed'
      BY <2>4, <2>10
    <3>4. builder'.at = "stopped" /\ builder'.ids = {}
      BY <2>3, <2>10
    <3>5. ~Early'
      BY <3>4 DEF Early
    <3> QED BY <2>2, <3>2, <3>3, <3>4, <3>5, PlannedFacts DEF Building, Sealed
  <2>11. CASE ~(n = 9 /\ \A f \in Files : disk[f] # Absent)
    <3>1. mixed' = mixed /\ halved' = halved
      BY <1>s, <2>4, <2>11
    <3>2. \A i \in 1 .. 9 : disk[File(i)] # Absent => disk'[File(i)] # Absent
      BY <2>8, PlannedFacts
    <3>3. \A i \in 1 .. 9 : i <= n => disk'[File(i)] = Planned(i) \/ Gone(i)'
      BY <1>s, <2>1, <2>5, <2>8, <2>9, <3>1, Stages DEF Gone
    <3>4. Building'
      BY <1>0, <1>s, <2>1, <2>2, <2>3, <2>5, <3>3 DEF Building
    <3>5. SUFFICES ASSUME ~mixed PROVE Sealed'
      BY <1>0, <3>1, <3>4 DEF Sealed
    <3>6. builder.n < 6 => \A i \in 6 .. 9 : disk[File(i)] = Absent
      BY <1>0, <2>1, <3>5 DEF Sealed, Early
    <3>7. CASE n < 6
      <4>1. \A i \in 6 .. 9 : disk'[File(i)] = Absent
        BY <2>8, <3>6, <3>7
      <4>2. builder'.at # "read"
        BY <2>3
      <4> QED BY <1>0, <3>1, <4>1, <4>2 DEF Sealed
    <3>8. CASE n >= 6
      <4>1. ~Early' /\ builder'.at # "read"
        BY <1>s, <2>3, <3>8 DEF Early
      <4>2. \A i \in 1 .. 5 : disk'[File(i)] = disk[File(i)]
        BY <2>8, <3>8
      <4>3. disk'[File(6)] # Absent => disk[File(6)] # Absent /\ disk'[File(6)] \in {Part, Planned(6)}
        BY <1>0, <1>s, <2>8, <3>5, <3>8 DEF Sealed
      <4>4. \A i \in 7 .. 9 : /\ disk'[File(i)] \in {Absent, Part, Planned(i)}
                              /\ disk'[File(6)] = Absent => disk'[File(i)] = Absent \/ halved
        BY <1>0, <2>8, <3>2, <3>5, PlannedFacts DEF Sealed
      <4>5. disk'[File(6)] # Absent =>
               /\ \A i \in 1 .. 5 : disk'[File(i)] = Planned(i)' \/ (halved' /\ disk'[File(i)] = Absent)
               /\ disk'[File(6)] \in {Part, Planned(6)'}
        BY <1>0, <2>2, <3>1, <3>5, <4>2, <4>3 DEF Sealed
      <4>6. \A i \in 7 .. 9 : /\ disk'[File(i)] \in {Absent, Part, Planned(i)'}
                              /\ disk'[File(6)] = Absent => disk'[File(i)] = Absent \/ halved'
        BY <2>2, <3>1, <4>4
      <4>7. ~mixed'
        BY <3>1, <3>5
      <4> QED BY <4>1, <4>5, <4>6, <4>7 DEF Sealed
    <3> QED BY <1>s, <3>7, <3>8
  <2> QED BY <2>10, <2>11
<1>6. CASE Unlink
  <2>1. /\ halved' /\ UNCHANGED <<folder, builder, indexed, mixed>>
        /\ \E f \in reset.files : disk' = [disk EXCEPT ![f] = Absent]
    BY <1>6, Zenon DEF Unlink
  <2>2. \A i \in 1 .. 9 : disk'[File(i)] \in {disk[File(i)], Absent}
    BY <1>s, <2>1, FileFacts
  <2>3. \A n : Planned(n)' = Planned(n)
    BY <1>p, <2>1
  <2>4. Early' = Early
    BY <2>1 DEF Early
  <2>5. \A i \in 1 .. 9 : (disk[File(i)] = Planned(i) => disk'[File(i)] = Planned(i)' \/ Gone(i)')
                         /\ (Gone(i) => Gone(i)')
    BY <2>1, <2>2, <2>3 DEF Gone
  <2>6. \A i \in 1 .. 9 : disk[File(i)] = Part => disk'[File(i)] = Part \/ Gone(i)'
    BY <2>1, <2>2 DEF Gone
  <2>7. Building'
    BY <1>0, <1>s, <2>1, <2>5, <2>6 DEF Building
  <2>8. SUFFICES ASSUME ~mixed PROVE Sealed'
    BY <2>1, <2>7 DEF Sealed
  <2>9. disk'[File(6)] # Absent =>
           /\ \A i \in 1 .. 5 : disk'[File(i)] = Planned(i)' \/ disk'[File(i)] = Absent
           /\ disk'[File(6)] \in {Part, Planned(6)'}
    BY <1>0, <2>2, <2>3, <2>8 DEF Sealed
  <2>10. \A i \in 7 .. 9 : disk'[File(i)] \in {Absent, Part, Planned(i)'}
    BY <1>0, <2>2, <2>3, <2>8 DEF Sealed
  <2>11. Early => \A i \in 6 .. 9 : disk'[File(i)] = Absent
    BY <1>0, <2>2, <2>8 DEF Sealed
  <2> QED BY <2>1, <2>4, <2>7, <2>9, <2>10, <2>11 DEF Sealed
<1>7. CASE RemoveFolder
  <2>1. UNCHANGED <<disk, builder, indexed>>
    BY <1>7 DEF RemoveFolder
  <2>2. CASE \A f \in Files : disk[f] = Absent
    <3>1. ~folder' /\ ~halved' /\ ~mixed'
      BY <1>7, <2>2 DEF RemoveFolder
    <3>2. \A i \in 1 .. 9 : disk'[File(i)] = Absent /\ Gone(i)'
      BY <2>1, <2>2, <3>1, FileFacts DEF Gone
    <3>3. \A kind : Plan(kind, indexed)' = Plan(kind, indexed)
      BY <2>1
    <3>4. Building'
      BY <1>0, <1>s, <2>1, <3>2, <3>3 DEF Building
    <3> QED BY <3>1, <3>2, <3>4 DEF Sealed
  <2>3. CASE ~\A f \in Files : disk[f] = Absent
    BY <1>0, <1>7, <2>1, <2>3, FilesKept DEF RemoveFolder, remains
  <2> QED BY <2>2, <2>3
<1>8. CASE Restart
  <2>1. builder'.at = "check" /\ builder'.ids = {} /\ UNCHANGED <<disk, folder, indexed, halved, mixed>>
    BY <1>8 DEF Restart, NoBuild, index, remains
  <2>2. \A n : Planned(n)' = Planned(n)
    BY <1>p, <2>1
  <2>3. ~Early'
    BY <2>1 DEF Early
  <2> QED BY <1>0, <2>1, <2>2, <2>3 DEF Building, Sealed
<1>9. ASSUME UNCHANGED <<disk, folder, builder, indexed, halved, mixed>> PROVE Building' /\ Sealed'
  BY <1>0, <1>9, FilesKept
<1>10. CASE Begin \/ OpenNames \/ OpenPaths \/ OpenGrams \/ Look \/ Looked \/ Scan
  BY <1>9, <1>10 DEF Begin, OpenNames, OpenPaths, OpenGrams, Look, Looked, Scan, index, history, remains
<1>11. ASSUME NEW d \in Ids, Change(d) PROVE Building' /\ Sealed'
  BY <1>9, <1>11 DEF Change, index, remains
<1>12. CASE ListFiles \/ ListRecords \/ ListDocs \/ DeleteBatch
  BY <1>9, <1>12 DEF ListFiles, ListRecords, ListDocs, DeleteBatch, index, history, remains
<1>13. CASE UNCHANGED searchVars
  BY <1>9, <1>13 DEF searchVars, index, history, remains
<1> QED BY <1>1, <1>2, <1>3, <1>4, <1>5, <1>6, <1>7, <1>8, <1>10, <1>11, <1>12, <1>13 DEF SearchNext

(* Files are always in order.                                              *)
LEMMA FilesAlways == SearchSpec => []FilesInv
<1>1. SearchInit => FilesInv
  BY SearchTypedInit, FilesInit DEF FilesInv
<1>2. FilesInv /\ [SearchNext]_searchVars => FilesInv'
  BY SearchTypedStep, FilesStep DEF FilesInv
<1> QED BY <1>1, <1>2, PTL DEF SearchSpec

(* The variables of a search and of the build have their types; without    *)
(* the index's folder there are no files.                                  *)
THEOREM SearchTypeCorrect == SearchSpec => []SearchTypeOK
<1>1. FilesInv => SearchTypeOK
  BY DEF FilesInv, SearchTyped
<1> QED BY <1>1, FilesAlways, PTL

(* What a search that can open an index has opened.                        *)
LEMMA OpenedPlan ==
  ASSUME NEW kind \in KindSet, Opens(kind),
         \A p \in {"dat", "idx", "dict"} :
             disk[<<kind, p>>] \in {Absent, Part, Whole(PlanOf(<<kind, p>>))}
  PROVE  Opened(kind) = Plan(kind, indexed)
<1>1. \A p \in {"dat", "idx", "dict"} : disk[<<kind, p>>] = Whole(PlanOf(<<kind, p>>))
  BY Stages DEF Opens
<1>2. \A p \in {"dat", "idx", "dict"} : Opened(kind)[p] = Plan(kind, indexed)[p]
  BY <1>1, Stages DEF Opened, PlanOf
<1>3. \A terms : Layout(terms) = [p \in {"dat", "idx", "dict"} |-> Layout(terms)[p]]
  BY DEF Layout
<1>4. Plan(kind, indexed) = [p \in {"dat", "idx", "dict"} |-> Plan(kind, indexed)[p]]
  BY <1>3 DEF Plan
<1> HIDE DEF Plan
<1> QED BY <1>2, <1>4 DEF Opened

(* An index that exists and opens is the one that was built last, from     *)
(* records as they were then: builds that are broken off and begun again   *)
(* over their files, and a removal beside them, never make up an index of  *)
(* files of two builds.  Only the index of a build that has begun among    *)
(* files which a removal had left is not spoken of.                        *)
THEOREM ExistsIsWholeAlways ==
  ASSUME PostingsRight PROVE SearchSpec => []ExistsIsWhole
<1>1. ASSUME FilesInv PROVE ExistsIsWhole
  <2> SUFFICES ASSUME ~mixed, MediaIndexExists, Opens("name"), Opens("path"),
                      NEW k \in 1 .. 2, NEW t \in DOMAIN Grams
               PROVE  ToSet(Posting(Opened(Kinds[k]), t)) =
                          {d \in Ids : indexed[d] # NoRecord /\ t \in ToSet(TermsOf(Kinds[k], indexed[d]))}
    BY DEF ExistsIsWhole, IndexIsWhole, Kinds
  <2>1. \A i \in 1 .. 6 : disk[File(i)] \in {Absent, Part, Planned(i)}
    BY <1>1, Exists DEF FilesInv, Sealed
  <2>2. Kinds[k] \in {"name", "path"} /\ Kinds[k] \in KindSet /\ Opens(Kinds[k])
    BY FileSet DEF Kinds
  <2>3. \A p \in {"dat", "idx", "dict"} :
            disk[<<Kinds[k], p>>] \in {Absent, Part, Whole(PlanOf(<<Kinds[k], p>>))}
    BY <2>1, <2>2, FileNames DEF Planned
  <2>4. Opened(Kinds[k]) = Plan(Kinds[k], indexed)
    BY <2>2, <2>3, OpenedPlan
  <2>5. indexed \in Layouts /\ t \in Terms /\ k \in 1 .. 3
    BY <1>1 DEF FilesInv, SearchTyped, Shaped, Terms
  <2> QED BY <2>4, <2>5 DEF PostingsRight
<1> QED BY <1>1, FilesAlways, PTL

(***************************************************************************)
(* A search that finds nothing.                                            *)
(***************************************************************************)
(* What matches is found when all records are read.                        *)
LEMMA MatchResembles ==
  ASSUME NEW r, NEW q, Matches(r, q) PROVE r.ok /\ Resembles(r, q)
BY DEF Matches, Resembles

(* Where the steps of a search lead that do not end it.                    *)
LEMMA Elsewhere ==
  ASSUME Shaped
  PROVE  /\ Begin => search'.at \in {"name", "scan"}
         /\ OpenNames => search'.at \in {"path", "scan"}
         /\ OpenPaths => search'.at \in {"look", "gram", "scan", "none"}
         /\ OpenGrams => search'.at \in {"look", "none"}
         /\ Look => search'.at = "look"
         /\ Looked \/ Scan => search'.at \in {"scan", "done"}
         /\ Restart => search'.at = "none"
<1>t. search = [at |-> search.at, query |-> search.query, index |-> search.index,
                ids |-> search.ids, found |-> search.found]
  BY DEF Shaped
<1>1. Begin => search'.at \in {"name", "scan"}
  BY DEF Begin, NoSearch
<1>2. OpenNames => search'.at \in {"path", "scan"}
  BY <1>t DEF OpenNames
<1>3. OpenPaths => search'.at \in {"look", "gram", "scan", "none"}
  BY <1>t DEF OpenPaths, NoSearch
<1>4. OpenGrams => search'.at \in {"look", "none"}
  BY <1>t DEF OpenGrams, NoSearch
<1>5. Look => search'.at = "look"
  BY <1>t DEF Look
<1>6. Looked \/ Scan => search'.at \in {"scan", "done"}
  BY <1>t DEF Looked, Scan, Otherwise
<1>7. Restart => search'.at = "none"
  BY DEF Restart, NoSearch
<1> QED BY <1>1, <1>2, <1>3, <1>4, <1>5, <1>6, <1>7

(* Every step keeps it that who finds nothing has read the records.        *)
LEMMA NothingStep == SearchTyped /\ NothingIsTrue /\ [SearchNext]_searchVars => NothingIsTrue'
<1> SUFFICES ASSUME SearchTyped, NothingIsTrue, [SearchNext]_searchVars,
                    search'.at = "done", search'.found = {},
                    NEW d \in Ids, records'[d] # NoRecord, d \notin touched'
             PROVE  ~Matches(records'[d], search'.query)
  BY DEF NothingIsTrue, Live
<1>t. records \in Layouts /\ touched \subseteq Ids
      /\ search = [at |-> search.at, query |-> search.query, index |-> search.index,
                   ids |-> search.ids, found |-> search.found]
  BY DEF SearchTyped, Shaped
<1>1. ASSUME UNCHANGED <<records, touched, search>> PROVE ~Matches(records'[d], search'.query)
  BY <1>1 DEF NothingIsTrue, Live
<1>2. CASE Check \/ SetDocId \/ CreateFile \/ WriteFile \/ UNCHANGED searchVars
  BY <1>1, <1>2 DEF Check, SetDocId, CreateFile, WriteFile, searchVars, history
<1>3. CASE ListFiles \/ Unlink \/ RemoveFolder \/ ListRecords \/ ListDocs \/ Read
  BY <1>1, <1>3 DEF ListFiles, Unlink, RemoveFolder, ListRecords, ListDocs, Read, history
<1>4. CASE Begin \/ OpenNames \/ OpenPaths \/ OpenGrams \/ Look \/ Restart
  BY <1>4, Elsewhere DEF SearchTyped
<1>5. CASE Looked
  BY <1>t, <1>5 DEF Looked, Otherwise
<1>6. CASE Scan
  <2>1. search'.found = {e \in Ids : Passes(e) /\ Resembles(records[e], search.query)}
        /\ search'.query = search.query /\ records' = records
    BY <1>t, <1>6 DEF Scan
  <2> QED BY <2>1, MatchResembles DEF Passes
<1>7. ASSUME NEW e \in Ids, Change(e) PROVE ~Matches(records'[d], search'.query)
  BY <1>t, <1>7 DEF Change, NothingIsTrue, Live, Layouts, During
<1>8. CASE DeleteBatch
  <2>1. search' = search /\ touched' = touched \cup reset.ids
    BY <1>8 DEF DeleteBatch, During
  <2>2. records'[d] = records[d]
    BY <1>8 DEF DeleteBatch
  <2> QED BY <2>1, <2>2 DEF NothingIsTrue, Live
<1> QED BY <1>2, <1>3, <1>4, <1>5, <1>6, <1>7, <1>8 DEF SearchNext

(* A search that ends with nothing has read the records themselves: no     *)
(* record matched that was there, unchanged, while it ran, however old the *)
(* index is.                                                               *)
THEOREM NothingIsTrueAlways == SearchSpec => []NothingIsTrue
<1>1. SearchInit => NothingIsTrue
  BY DEF SearchInit, NothingIsTrue, NoSearch
<1>2. FilesInv => SearchTyped
  BY DEF FilesInv
<1> QED BY <1>1, <1>2, FilesAlways, NothingStep, PTL DEF SearchSpec

(***************************************************************************)
(* A search that an index leads.                                           *)
(***************************************************************************)
(* A record that differs from what the index was built of is known to have *)
(* changed.                                                                *)
LEMMA KnownStep == FilesInv /\ Known /\ [SearchNext]_searchVars => Known'
<1> SUFFICES ASSUME FilesInv, Known, [SearchNext]_searchVars PROVE Known'
  OBVIOUS
<1>t. /\ records \in Layouts /\ indexed \in Layouts /\ reset.docs \subseteq Ids
      /\ altered \subseteq Ids /\ unseen \subseteq Ids /\ touched \subseteq Ids
      /\ mixed \in BOOLEAN /\ halved \in BOOLEAN /\ builder.n \in 1 .. 9
      /\ disk = [f \in Files |-> disk[f]]
      /\ builder = [at |-> builder.at, n |-> builder.n, contents |-> builder.contents, ids |-> builder.ids]
      /\ Shaped /\ Building /\ Sealed
  BY DEF FilesInv, SearchTyped, SearchTypeOK, Shaped
<1> DEFINE Active == builder.at \in {"ids", "create", "write"}
           Counts == ~mixed /\ disk[File(6)] # Absent
<1>k. /\ Active \/ Counts => \A d \in Ids \ altered : Kept(d)
      /\ Searching => \A d \in Ids \ (unseen \cup touched) : Fresh(d)
      /\ Searching /\ mixed => unseen = Ids
  BY DEF Known
<1>1. ASSUME UNCHANGED <<records, docs, indexed, altered, unseen, touched>>,
             builder'.ids = builder.ids, Active' \/ Counts' => Active \/ Counts,
             mixed' => mixed, Searching' => Searching
      PROVE  Known'
  <2>1. \A d : Kept(d)' = Kept(d) /\ Fresh(d)' = Fresh(d)
    BY <1>1 DEF Kept, Fresh
  <2> QED BY <1>1, <1>k, <2>1 DEF Known
<1>2. CASE Check
  BY <1>1, <1>2, <1>t DEF Check, index, history, remains, Ended, NoBuild, Searching, Building
<1>3. CASE Read
  <2>1. /\ \A d \in Ids : Kept(d)'
        /\ \A d \in Ids : Fresh(d) => Fresh(d)'
    BY <1>3 DEF Read, Kept, Fresh, Live
  <2>2. touched' = touched /\ search' = search /\ mixed' = halved
        /\ unseen' = IF halved THEN During(Ids) ELSE unseen
    BY <1>3 DEF Read
  <2>3. Searching' = Searching /\ (Searching => During(Ids) = Ids)
    BY <2>2 DEF Searching, During
  <2>4. Searching' /\ mixed' => unseen' = Ids
    BY <2>2, <2>3
  <2>5. Searching' => \A d \in Ids \ (unseen' \cup touched') : Fresh(d)'
    BY <1>k, <2>1, <2>2, <2>3
  <2> QED BY <2>1, <2>4, <2>5 DEF Known
<1>4. CASE SetDocId
  <2>1. UNCHANGED <<records, disk, search, indexed, altered, unseen, touched, halved, mixed>> /\ Active
    BY <1>4 DEF SetDocId, history, remains
  <2>2. docs \cup builder.ids = docs' \cup builder'.ids /\ docs \subseteq docs'
    BY <1>4, <1>t DEF SetDocId
  <2>3. \A d : (Kept(d) => Kept(d)') /\ (Fresh(d) => Fresh(d)')
    BY <2>1, <2>2 DEF Kept, Fresh
  <2>4. Searching' = Searching
    BY <2>1 DEF Searching
  <2> QED BY <1>k, <2>1, <2>3, <2>4 DEF Known
<1>5. CASE CreateFile
  <2>1. UNCHANGED <<records, docs, search, indexed, altered, unseen, touched, mixed>> /\ Active
    BY <1>5 DEF CreateFile, history, remains
  <2>2. builder'.ids = builder.ids
    BY <1>5, <1>t DEF CreateFile, Ended, NoBuild, Building
  <2> QED BY <1>1, <2>1, <2>2 DEF Searching
<1>6. CASE WriteFile
  <2>1. UNCHANGED <<records, docs, search, indexed, altered, unseen, touched>> /\ Active
        /\ (mixed' => mixed)
    BY <1>6 DEF WriteFile
  <2>2. builder'.ids = builder.ids
    BY <1>6, <1>t DEF WriteFile, Ended, NoBuild, Building
  <2> QED BY <1>1, <2>1, <2>2 DEF Searching
<1>7. CASE Begin
  <2>1. UNCHANGED <<records, docs, disk, builder, indexed, altered, mixed>>
    BY <1>7 DEF Begin, index, remains
  <2>2. \A d : Kept(d)' = Kept(d) /\ Fresh(d)' = Fresh(d)
    BY <2>1 DEF Kept, Fresh
  <2>3. CASE ~MediaIndexExists
    <3>1. ~Searching'
      BY <1>7, <2>3 DEF Begin, NoSearch, Searching
    <3> QED BY <1>k, <2>1, <2>2, <3>1 DEF Known
  <2>4. CASE MediaIndexExists /\ mixed
    <3>1. unseen' = Ids
      BY <1>7, <2>4 DEF Begin
    <3> QED BY <1>k, <2>1, <2>2, <3>1 DEF Known
  <2>5. CASE MediaIndexExists /\ ~mixed
    <3>1. unseen' = altered
      BY <1>7, <2>5 DEF Begin
    <3>2. disk[File(6)] # Absent
      BY <1>t, <2>5, Exists
    <3>3. builder.ids = {}
      BY <1>t, <2>5, <3>2 DEF Sealed, Early, Building
    <3>4. \A d \in Ids \ altered : Fresh(d)
      BY <1>k, <2>5, <3>2, <3>3 DEF Kept, Fresh
    <3> QED BY <1>k, <2>1, <2>2, <2>5, <3>1, <3>4 DEF Known
  <2> QED BY <2>3, <2>4, <2>5
<1>8. CASE OpenNames \/ OpenPaths \/ OpenGrams \/ Look \/ Looked \/ Scan
  <2>1. UNCHANGED <<records, docs, disk, builder, indexed, altered, unseen, touched, mixed>>
    BY <1>8 DEF OpenNames, OpenPaths, OpenGrams, Look, Looked, Scan, index, history, remains
  <2>2. Searching' => Searching
    BY <1>8, <1>t, Elsewhere DEF Searching, OpenNames, OpenPaths, OpenGrams, Look
  <2> QED BY <1>1, <2>1, <2>2
<1>9. ASSUME NEW e \in Ids, Change(e) PROVE Known'
  <2>1. UNCHANGED <<docs, disk, builder, search, indexed, unseen, mixed>> /\ altered' = altered \cup {e}
        /\ touched' = During(touched \cup {e})
    BY <1>9 DEF Change, index, remains
  <2>2. \A d \in Ids \ {e} : records'[d] = records[d]
    BY <1>9, <1>t DEF Change, Layouts
  <2>3. \A d \in Ids \ {e} : Kept(d)' = Kept(d) /\ Fresh(d)' = Fresh(d)
    BY <2>1, <2>2 DEF Kept, Fresh
  <2>4. Searching' = Searching /\ (Searching => touched' = touched \cup {e})
    BY <2>1 DEF Searching, During
  <2> QED BY <1>k, <2>1, <2>3, <2>4 DEF Known
<1>10. CASE ListFiles \/ ListRecords \/ ListDocs
  BY <1>1, <1>10 DEF ListFiles, ListRecords, ListDocs, index, history, remains, Searching
<1>11. CASE Unlink
  <2>1. UNCHANGED <<records, docs, builder, search, indexed, altered, unseen, touched, mixed>>
        /\ \E f \in reset.files : disk' = [disk EXCEPT ![f] = Absent]
    BY <1>11, Zenon DEF Unlink
  <2>2. disk'[File(6)] \in {disk[File(6)], Absent}
    BY <1>t, <2>1, FileFacts
  <2> QED BY <1>1, <2>1, <2>2 DEF Searching
<1>12. CASE RemoveFolder
  <2>1. UNCHANGED <<records, docs, disk, builder, search, indexed, altered, unseen, touched>>
    BY <1>12 DEF RemoveFolder
  <2>2. mixed' = mixed \/ (~mixed' /\ disk[File(6)] = Absent)
    BY <1>12, FileFacts DEF RemoveFolder, remains
  <2> QED BY <1>1, <2>1, <2>2 DEF Searching
<1>13. CASE DeleteBatch
  <2>1. /\ UNCHANGED <<disk, builder, search, indexed, mixed>>
        /\ docs' = docs \ reset.docs /\ altered' = altered \cup reset.ids \cup reset.docs
        /\ touched' = During(touched \cup reset.ids) /\ unseen' = During(unseen \cup reset.docs)
        /\ \A d \in Ids \ reset.ids : records'[d] = records[d]
    BY <1>13 DEF DeleteBatch, remains
  <2>2. \A d \in Ids \ (reset.ids \cup reset.docs) : (Kept(d) => Kept(d)') /\ (Fresh(d) => Fresh(d)')
    BY <2>1 DEF Kept, Fresh
  <2>3. Searching' = Searching
        /\ (Searching => touched' = touched \cup reset.ids /\ unseen' = unseen \cup reset.docs)
    BY <2>1 DEF Searching, During
  <2>4. Searching' /\ mixed' => unseen' = Ids
    BY <1>k, <1>t, <2>1, <2>3
  <2>5. Searching' => \A d \in Ids \ (unseen' \cup touched') : Fresh(d)'
    BY <1>k, <2>2, <2>3
  <2>6. (Active \/ Counts)' => \A d \in Ids \ altered' : Kept(d)'
    BY <1>k, <2>1, <2>2
  <2> QED BY <2>4, <2>5, <2>6 DEF Known
<1>14. CASE Restart
  <2>1. UNCHANGED <<records, docs, disk, indexed, altered, mixed>>
        /\ builder'.at = "check" /\ builder'.ids = {} /\ ~Searching'
    BY <1>14 DEF Restart, NoBuild, NoSearch, index, remains, Searching
  <2>2. Counts => builder.ids = {}
    BY <1>t DEF Sealed, Early, Building
  <2>3. Counts => \A d \in Ids \ altered : Kept(d)'
    BY <1>k, <2>1, <2>2 DEF Kept
  <2> QED BY <2>1, <2>3 DEF Known
<1>15. CASE UNCHANGED searchVars
  BY <1>1, <1>15 DEF searchVars, index, history, remains, Searching
<1> QED BY <1>2, <1>3, <1>4, <1>5, <1>6, <1>7, <1>8, <1>9, <1>10, <1>11, <1>12, <1>13, <1>14, <1>15
        DEF SearchNext

(* No build replaces files of an index that a search has met by those of   *)
(* an earlier reading.                                                     *)
LEMMA IntactStep == FilesInv /\ Intact /\ [SearchNext]_searchVars => Intact'
<1> SUFFICES ASSUME FilesInv, Intact, [SearchNext]_searchVars, search'.at \in {"name", "path"}, ~mixed'
             PROVE  Intact'
  BY DEF Intact
<1>t. /\ Shaped /\ Building /\ Sealed /\ builder.n \in 1 .. 9
      /\ builder = [at |-> builder.at, n |-> builder.n, contents |-> builder.contents, ids |-> builder.ids]
      /\ mixed \in BOOLEAN /\ halved \in BOOLEAN
      /\ disk = [f \in Files |-> disk[f]]
  BY DEF FilesInv, SearchTyped, SearchTypeOK, Shaped
<1>p. ASSUME UNCHANGED indexed PROVE \A n : Planned(n)' = Planned(n)
  BY <1>p DEF Planned, PlanOf
<1>1. ASSUME UNCHANGED <<disk, builder, indexed, halved, mixed>>, search.at \in {"name", "path"}
      PROVE  Intact'
  BY <1>1, <1>p DEF Intact, MediaIndexExists
<1>2. CASE Check
  <2>1. UNCHANGED <<disk, indexed, search, halved, mixed>> /\ builder.at = "check"
    BY <1>2 DEF Check, index, history, remains
  <2> QED BY <1>p, <2>1 DEF Intact, MediaIndexExists
<1>3. CASE Read
  <2>1. UNCHANGED <<disk, search>> /\ builder.at = "read" /\ builder'.at = "ids" /\ mixed' = halved
    BY <1>3 DEF Read
  <2>2. ~halved /\ ~mixed
    BY <1>t, <2>1 DEF Sealed
  <2>3. ~MediaIndexExists
    BY <1>t, <2>1, <2>2, Exists DEF Sealed
  <2>4. \A i \in 1 .. 9 : disk[File(i)] = Absent
    BY <2>1, <2>2, <2>3 DEF Intact
  <2> QED BY <2>1, <2>4 DEF Intact
<1>4. CASE SetDocId
  <2>1. UNCHANGED <<disk, indexed, search, mixed>> /\ builder'.at \notin {"check", "read"}
    BY <1>4, <1>t DEF SetDocId, history, remains
  <2> QED BY <1>p, <2>1 DEF Intact
<1>5. CASE CreateFile
  <2>1. UNCHANGED <<indexed, search, mixed>> /\ builder'.at \notin {"check", "read"}
        /\ (disk' = disk \/ disk' = [disk EXCEPT ![File(builder.n)] = Part])
    BY <1>t, <1>5 DEF CreateFile, Ended, NoBuild, history, remains
  <2>2. \A i \in 1 .. 5 : disk'[File(i)] \in {disk[File(i)], Part}
    BY <1>t, <2>1, FileFacts
  <2> QED BY <1>p, <2>1, <2>2 DEF Intact
<1>6. CASE WriteFile
  <2>1. UNCHANGED <<indexed, search>> /\ builder'.at \notin {"check", "read"} /\ builder.at = "write"
    BY <1>t, <1>6 DEF WriteFile, Ended, NoBuild
  <2>2. builder.contents[File(builder.n)[1]][File(builder.n)[2]] = PlanOf(File(builder.n))
    BY <1>t, <2>1, FileFacts DEF Building, PlanOf
  <2>3. disk' \in {disk, [disk EXCEPT ![File(builder.n)] = Planned(builder.n)]}
    BY <1>6, <2>2 DEF WriteFile, Planned
  <2>4. \A i \in 1 .. 5 : disk'[File(i)] \in {disk[File(i)], Planned(i)}
    BY <1>t, <2>3, FileFacts
  <2>5. CASE mixed
    <3>1. builder.n = 9 /\ \A f \in Files : disk[f] # Absent
      BY <1>6, <2>5 DEF WriteFile
    <3>2. \A i \in 1 .. 5 : disk[File(i)] # Absent
      BY <3>1, FileFacts
    <3>3. \A i \in 1 .. 5 : disk[File(i)] = Planned(i)
      BY <1>t, <2>1, <3>1, <3>2 DEF Building, Gone
    <3> QED BY <1>p, <2>1, <2>4, <3>3 DEF Intact
  <2>6. CASE ~mixed
    BY <1>p, <2>1, <2>4, <2>6 DEF Intact
  <2> QED BY <2>5, <2>6
<1>7. CASE Begin
  <2>1. MediaIndexExists /\ UNCHANGED <<disk, builder, indexed, mixed>>
    BY <1>7 DEF Begin, NoSearch, index, remains
  <2>2. MediaIndexExists'
    BY <2>1 DEF MediaIndexExists
  <2>3. \A i \in 1 .. 5 : disk[File(i)] = Planned(i)
    BY <1>t, <2>1, Exists
  <2> QED BY <1>p, <2>1, <2>2, <2>3 DEF Intact
<1>8. CASE OpenNames
  BY <1>1, <1>8 DEF OpenNames, index, history, remains
<1>9. CASE OpenPaths \/ OpenGrams \/ Look \/ Looked \/ Scan \/ Restart
  BY <1>9, <1>t, Elsewhere
<1>10. ASSUME NEW e \in Ids, Change(e) PROVE Intact'
  BY <1>1, <1>10 DEF Change, index, remains
<1>11. CASE Unlink
  <2>1. /\ halved' /\ UNCHANGED <<builder, search, indexed, mixed>>
        /\ \E f \in reset.files : disk' = [disk EXCEPT ![f] = Absent]
    BY <1>11, Zenon DEF Unlink
  <2>2. \A i \in 1 .. 9 : disk'[File(i)] \in {disk[File(i)], Absent}
    BY <1>t, <2>1, FileFacts
  <2> QED BY <1>p, <2>1, <2>2 DEF Intact
<1>12. CASE RemoveFolder
  <2>1. UNCHANGED <<disk, builder, search, indexed>>
    BY <1>12 DEF RemoveFolder
  <2>2. CASE \A f \in Files : disk[f] = Absent
    <3>1. \A i \in 1 .. 9 : disk'[File(i)] = Absent
      BY <2>1, <2>2, FileFacts
    <3> QED BY <3>1 DEF Intact
  <2>3. CASE ~\A f \in Files : disk[f] = Absent
    BY <1>1, <1>12, <2>1, <2>3 DEF RemoveFolder, remains
  <2> QED BY <2>2, <2>3
<1>13. CASE ListFiles \/ ListRecords \/ ListDocs \/ DeleteBatch
  BY <1>1, <1>13 DEF ListFiles, ListRecords, ListDocs, DeleteBatch, index, history, remains
<1>14. CASE UNCHANGED searchVars
  BY <1>1, <1>14 DEF searchVars, index, history, remains
<1> QED BY <1>2, <1>3, <1>4, <1>5, <1>6, <1>7, <1>8, <1>9, <1>10, <1>11, <1>12, <1>13, <1>14 DEF SearchNext

(* What is read from an opened index, if no file is left of another build. *)
LEMMA OpenedRight ==
  ASSUME PostingsRight, FilesInv, NEW k \in 1 .. 3, Opens(Kinds[k]),
         \A i \in 3 * k - 2 .. 3 * k : disk[File(i)] \in {Absent, Part, Planned(i)},
         NEW t \in Terms
  PROVE  /\ Posting(Opened(Kinds[k]), t) \in Seq(Ids)
         /\ ToSet(Posting(Opened(Kinds[k]), t)) =
                {d \in Ids : indexed[d] # NoRecord /\ t \in ToSet(TermsOf(Kinds[k], indexed[d]))}
<1>1. Kinds[k] \in KindSet
  BY DEF KindSet
<1>2. ASSUME NEW p \in {"dat", "idx", "dict"}
      PROVE  disk[<<Kinds[k], p>>] \in {Absent, Part, Whole(PlanOf(<<Kinds[k], p>>))}
  <2>1. \E i \in 3 * k - 2 .. 3 * k : File(i) = <<Kinds[k], p>>
    <3>1. File(3 * k - 2) = <<Kinds[k], "dat">> /\ File(3 * k - 1) = <<Kinds[k], "idx">>
          /\ File(3 * k) = <<Kinds[k], "dict">>
      BY FileNames DEF Kinds
    <3> QED BY <3>1
  <2> QED BY <2>1 DEF Planned
<1>3. Opened(Kinds[k]) = Plan(Kinds[k], indexed)
  BY <1>1, <1>2, OpenedPlan
<1>4. indexed \in Layouts
  BY DEF FilesInv, SearchTyped, Shaped
<1> QED BY <1>3, <1>4 DEF PostingsRight

(* The first of a sequence and the others.                                 *)
LEMMA HeadTail ==
  ASSUME NEW s \in Seq(Ids), s # <<>>
  PROVE  Head(s) \in Ids /\ Tail(s) \in Seq(Ids) /\ ToSet(s) = {Head(s)} \cup ToSet(Tail(s))
<1>1. Len(s) \in Nat \ {0} /\ Tail(s) \in Seq(Ids) /\ Len(Tail(s)) = Len(s) - 1 /\ Head(s) = s[1]
  OBVIOUS
<1>2. \A i \in DOMAIN Tail(s) : Tail(s)[i] = s[i + 1] /\ i + 1 \in DOMAIN s
  OBVIOUS
<1>3. \A i \in DOMAIN s : i = 1 \/ (i - 1 \in DOMAIN Tail(s) /\ Tail(s)[i - 1] = s[i])
  BY <1>1
<1>4. ToSet(s) \subseteq {Head(s)} \cup ToSet(Tail(s))
  BY <1>1, <1>3 DEF ToSet
<1>5. {Head(s)} \cup ToSet(Tail(s)) \subseteq ToSet(s)
  BY <1>1, <1>2 DEF ToSet
<1> QED BY <1>1, <1>4, <1>5

(* The union of two lists of ids.                                          *)
LEMMA Gathered ==
  ASSUME ListsRight, NEW a \in Seq(Ids), NEW b \in Seq(Ids)
  PROVE  Union(a, b) \in Sorted /\ Union(a, b) \in Seq(Ids)
         /\ ToSet(Union(a, b)) = ToSet(a) \cup ToSet(b)
<1>1. ToSet(a) \cup ToSet(b) \in SUBSET Ids
  BY DEF ToSet
<1> QED BY <1>1 DEF Union, Sorted, ListsRight

(* Whose record and query stay is owed as before.                          *)
LEMMA OwedKept ==
  ASSUME UNCHANGED <<records, unseen, touched>>, search'.query = search.query, NEW d
  PROVE  Owed(d)' = Owed(d)
BY DEF Owed

(* What a search owes is never dropped between an index and the lookup.    *)
LEMMA CarriedStep ==
  ASSUME PostingsRight, ListsRight
  PROVE  FilesInv /\ Known /\ Intact /\ Carried /\ [SearchNext]_searchVars => Carried'
<1> SUFFICES ASSUME FilesInv, Known, Intact, Carried, [SearchNext]_searchVars PROVE Carried'
  OBVIOUS
<1> SUFFICES ASSUME unseen' # Ids PROVE Carried'
  BY DEF Carried
<1>t. /\ records \in Layouts /\ indexed \in Layouts /\ Shaped
      /\ altered \subseteq Ids /\ unseen \subseteq Ids /\ touched \subseteq Ids
      /\ reset.docs \subseteq Ids
      /\ search = [at |-> search.at, query |-> search.query, index |-> search.index,
                   ids |-> search.ids, found |-> search.found]
      /\ search.at # "none" => search.query \in Queries
  BY DEF FilesInv, SearchTyped, SearchTypeOK, Shaped
<1>u. ASSUME unseen' = unseen, Searching
      PROVE  ~mixed /\ \A d \in Ids \ (unseen \cup touched) : Fresh(d)
  BY <1>u DEF Known
<1>1. ASSUME UNCHANGED <<records, unseen, touched, search>> PROVE Carried'
  BY <1>1, OwedKept DEF Carried
<1>2. CASE Check \/ SetDocId \/ CreateFile \/ WriteFile \/ UNCHANGED searchVars
  BY <1>1, <1>2 DEF Check, SetDocId, CreateFile, WriteFile, searchVars, history
<1>l. CASE ListFiles \/ Unlink \/ RemoveFolder \/ ListRecords \/ ListDocs
  BY <1>1, <1>l DEF ListFiles, Unlink, RemoveFolder, ListRecords, ListDocs, history
<1>r. CASE Read
  <2>1. UNCHANGED <<records, search, touched>> /\ unseen' = IF halved THEN During(Ids) ELSE unseen
    BY <1>r DEF Read
  <2>2. CASE search.at = "none"
    BY <2>1, <2>2 DEF Carried
  <2>3. CASE search.at # "none"
    BY <1>1, <2>1, <2>3 DEF During
  <2> QED BY <2>2, <2>3
<1>3. CASE Begin
  BY <1>3 DEF Begin, Carried, NoSearch
<1>4. CASE OpenNames
  <2>1. UNCHANGED <<records, unseen, touched>> /\ search'.query = search.query
    BY <1>4, <1>t DEF OpenNames, history
  <2>2. CASE ~Opens("name")
    BY <1>4, <1>t, <2>2 DEF OpenNames, Carried
  <2>3. CASE Opens("name")
    <3>1. search'.at = "path" /\ search'.index.name = Opened("name")
      BY <1>4, <1>t, <2>3 DEF OpenNames
    <3>2. \A i \in 1 .. 3 : disk[File(i)] \in {Absent, Part, Planned(i)}
      BY <1>4, <1>u, <2>1 DEF OpenNames, Intact, Searching
    <3>3. ASSUME NEW t \in DOMAIN Grams
          PROVE  /\ Posting(Opened("name"), t) \in Seq(Ids)
                 /\ ToSet(Posting(Opened("name"), t)) =
                       {d \in Ids : indexed[d] # NoRecord /\ t \in ToSet(TermsOf("name", indexed[d]))}
      <4>1. Kinds[1] = "name" /\ t \in Terms /\ 3 * 1 - 2 = 1 /\ 3 * 1 = 3
        BY DEF Kinds, Terms
      <4> QED BY <2>3, <3>2, <4>1, OpenedRight
    <3>4. ASSUME NEW d \in Ids, Owed(d) PROVE indexed[d] = records[d] /\ records[d] # NoRecord
      BY <1>4, <1>u, <2>1, <3>4 DEF Fresh, Owed, OpenNames, Searching
    <3>5. ASSUME NEW t \in DOMAIN Grams, NEW d \in Ids, Owed(d), t \in ToSet(records[d].name)
          PROVE  d \in ToSet(Posting(Opened("name"), t))
      BY <3>3, <3>4, <3>5 DEF TermsOf
    <3> QED BY <2>1, <3>1, <3>3, <3>5, OwedKept DEF Carried
  <2> QED BY <2>2, <2>3
<1>5. CASE OpenPaths
  <2> DEFINE q == search.query
             found(t) == Postings(search.index.name, Opened("path"), t)
             exact == IntersectAll([i \in DOMAIN q |-> found(q[i])])
             ends == Panics(search.index.name, q) \/ Panics(Opened("path"), q)
  <2>1. UNCHANGED <<records, unseen, touched>>
    BY <1>5 DEF OpenPaths, history
  <2>2. CASE ~Opens("path") \/ ends
    <3>1. search'.at \in {"scan", "none"}
      BY <1>5, <1>t, <2>2 DEF OpenPaths, NoSearch
    <3> QED BY <3>1 DEF Carried
  <2>3. CASE Opens("path") /\ ~ends
    <3>1. search'.at \in {"look", "gram"} /\ search'.ids = exact /\ search'.found = search.found
          /\ search'.query = search.query
      BY <1>5, <1>t, <2>3 DEF OpenPaths
    <3>2. \A i \in 4 .. 6 : disk[File(i)] \in {Absent, Part, Planned(i)}
      BY <1>5, <1>u, <2>1 DEF OpenPaths, Intact, FilesInv, Sealed, Searching
    <3>3. ASSUME NEW t \in DOMAIN Grams
          PROVE  /\ Posting(Opened("path"), t) \in Seq(Ids)
                 /\ ToSet(Posting(Opened("path"), t)) =
                       {d \in Ids : indexed[d] # NoRecord /\ t \in ToSet(TermsOf("path", indexed[d]))}
      <4>1. Kinds[2] = "path" /\ t \in Terms /\ 3 * 2 - 2 = 4 /\ 3 * 2 = 6
        BY DEF Kinds, Terms
      <4> QED BY <2>3, <3>2, <4>1, OpenedRight
    <3>4. \A t \in DOMAIN Grams :
             /\ Posting(search.index.name, t) \in Seq(Ids)
             /\ \A d \in Ids : Owed(d) /\ t \in ToSet(records[d].name)
                               => d \in ToSet(Posting(search.index.name, t))
      BY <1>5, <2>1 DEF OpenPaths, Carried
    <3>5. ASSUME NEW t \in DOMAIN Grams
          PROVE  /\ found(t) \in Sorted
                 /\ \A d \in Ids : Owed(d) /\ t \in Tokens(records[d]) => d \in ToSet(found(t))
      <4>1. /\ found(t) \in Sorted
            /\ ToSet(found(t)) = ToSet(Posting(search.index.name, t)) \cup ToSet(Posting(Opened("path"), t))
        BY <3>3, <3>4, Gathered DEF Postings
      <4>2. ASSUME NEW d \in Ids, Owed(d) PROVE indexed[d] = records[d] /\ records[d] # NoRecord
        BY <1>5, <1>u, <2>1, <4>2 DEF Fresh, Owed, OpenPaths, Searching
      <4>3. TermsOf("path", indexed) = indexed.path /\ \A r : TermsOf("path", r) = r.path
        BY DEF TermsOf
      <4> QED BY <3>3, <3>4, <4>1, <4>2, <4>3 DEF Tokens
    <3>6. q \in Queries /\ \A i \in DOMAIN q : q[i] \in DOMAIN Grams
      BY <1>5, <1>t, QueriesAssumption DEF OpenPaths
    <3> DEFINE lists == [i \in DOMAIN q |-> found(q[i])]
    <3>7. lists \in [DOMAIN q -> Sorted]
      BY <3>5, <3>6
    <3> HIDE DEF found
    <3>8. IntersectAll(lists) \in Seq(Ids)
          /\ ToSet(IntersectAll(lists)) = {d \in Ids : \A i \in DOMAIN q : d \in ToSet(lists[i])}
      BY <3>6, <3>7 DEF ListsRight
    <3>9. exact = IntersectAll(lists)
      OBVIOUS
    <3>10. ASSUME NEW d \in Ids, Owed(d) PROVE d \in ToSet(exact)
      <4>1. \A i \in DOMAIN q : q[i] \in Tokens(records[d])
        BY <3>10 DEF Owed, Matches
      <4>2. \A i \in DOMAIN q : d \in ToSet(lists[i])
        BY <3>5, <3>6, <3>10, <4>1
      <4> HIDE DEF lists
      <4> QED BY <3>8, <3>9, <4>2
    <3> HIDE DEF lists, exact, q
    <3> QED BY <2>1, <3>1, <3>8, <3>9, <3>10, OwedKept DEF Carried
  <2> QED BY <2>2, <2>3
<1>6. CASE OpenGrams
  <2> DEFINE grams == GramsOf(search.query)
             found(t) == Union(Posting(Opened("gram"), t), <<>>)
             lists == [i \in DOMAIN grams |-> found(grams[i])]
             fuzzy == IntersectAll(NonEmpty(lists))
  <2>1. UNCHANGED <<records, unseen, touched>> /\ search.at = "gram" /\ search.query \in Queries
    BY <1>6, <1>t DEF OpenGrams, history
  <2>2. search.ids \in Seq(Ids) /\ \A d \in Ids : Owed(d) => d \in ToSet(search.ids) \cup search.found
    BY <2>1 DEF Carried
  <2>3. CASE ~Opens("gram")
    <3>1. search'.ids = search.ids /\ search'.query = search.query /\ search'.at = "look"
          /\ search'.found = search.found
      BY <1>6, <1>t, <2>3 DEF OpenGrams
    <3> QED BY <2>1, <2>2, <3>1, OwedKept DEF Carried
  <2>4. CASE Opens("gram") /\ Panics(Opened("gram"), grams)
    BY <1>6, <2>4 DEF OpenGrams, Carried, NoSearch
  <2>5. CASE Opens("gram") /\ ~Panics(Opened("gram"), grams)
    <3>1. search'.ids = Union(search.ids, fuzzy) /\ search'.query = search.query
          /\ search'.at = "look" /\ search'.found = search.found
      BY <1>6, <1>t, <2>5 DEF OpenGrams
    <3>2. \A i \in 7 .. 9 : disk[File(i)] \in {Absent, Part, Planned(i)}
      BY <1>u, <2>1 DEF FilesInv, Sealed, Searching
    <3>3. ASSUME NEW t \in Terms
          PROVE  Posting(Opened("gram"), t) \in Seq(Ids)
      <4>1. Kinds[3] = "gram" /\ 3 * 3 - 2 = 7 /\ 3 * 3 = 9
        BY DEF Kinds
      <4> QED BY <2>5, <3>2, <4>1, OpenedRight
    <3>4. \A t \in Terms : found(t) \in Sorted
      <4>1. <<>> \in Seq(Ids)
        OBVIOUS
      <4> QED BY <3>3, <4>1, Gathered
    <3>5. \A i \in DOMAIN grams : grams[i] \in Terms
      BY <2>1 DEF Terms, ToSet
    <3>6. lists \in [DOMAIN grams -> Sorted]
      BY <3>4, <3>5
    <3>7. fuzzy \in Seq(Ids)
      BY <2>1, <3>6 DEF ListsRight
    <3> HIDE DEF fuzzy
    <3>8. search'.ids \in Seq(Ids) /\ ToSet(search.ids) \subseteq ToSet(search'.ids)
      BY <2>2, <3>1, <3>7, Gathered
    <3> QED BY <2>1, <2>2, <3>1, <3>8, OwedKept DEF Carried
  <2> QED BY <2>3, <2>4, <2>5
<1>7. CASE Look
  <2> DEFINE d == Head(search.ids)
  <2>1. UNCHANGED <<records, unseen, touched>> /\ search'.query = search.query /\ search'.at = "look"
        /\ search'.ids = Tail(search.ids)
        /\ search'.found = search.found \cup {e \in {d} : e \in docs /\ Passes(e)}
    BY <1>7, <1>t DEF Look, history
  <2>2. search.ids \in Seq(Ids) /\ \A e \in Ids : Owed(e) => e \in ToSet(search.ids) \cup search.found
    BY <1>7, <2>1 DEF Look, Carried
  <2>3. search'.ids \in Seq(Ids) /\ ToSet(search.ids) = {d} \cup ToSet(search'.ids)
    BY <1>7, <2>1, <2>2, HeadTail DEF Look
  <2>4. ASSUME NEW e \in Ids, Owed(e) PROVE e \in docs /\ Passes(e)
    BY <1>7, <1>u, <2>1, <2>4 DEF Look, Fresh, Owed, Passes, Matches, Searching
  <2> HIDE DEF d
  <2>5. ASSUME NEW e \in Ids, Owed(e) PROVE e \in ToSet(search'.ids) \cup search'.found
    BY <2>1, <2>2, <2>3, <2>4, <2>5
  <2> QED BY <2>1, <2>3, <2>5, OwedKept DEF Carried
<1>8. CASE Looked \/ Scan
  BY <1>8, <1>t DEF Looked, Scan, Otherwise, Carried
<1>9. ASSUME NEW e \in Ids, Change(e) PROVE Carried'
  <2>1. search' = search /\ unseen' = unseen
    BY <1>9 DEF Change
  <2>2. CASE search.at = "none"
    BY <2>1, <2>2 DEF Carried
  <2>3. CASE search.at # "none"
    <3>1. \A d \in Ids : Owed(d)' => Owed(d) /\ records'[d] = records[d]
      BY <1>9, <1>t, <2>3 DEF Change, Owed, Layouts, During
    <3> QED BY <2>1, <3>1 DEF Carried
  <2> QED BY <2>2, <2>3
<1>10. CASE DeleteBatch
  <2>1. search' = search
    BY <1>10 DEF DeleteBatch
  <2>2. CASE search.at = "none"
    BY <2>1, <2>2 DEF Carried
  <2>3. CASE search.at # "none"
    <3>1. unseen' = unseen \cup reset.docs /\ touched' = touched \cup reset.ids
          /\ \A d \in Ids \ reset.ids : records'[d] = records[d]
      BY <1>10, <2>3 DEF DeleteBatch, During
    <3>2. unseen # Ids
      BY <1>t, <3>1
    <3>3. \A d \in Ids : Owed(d)' => Owed(d) /\ records'[d] = records[d]
      BY <2>1, <3>1 DEF Owed
    <3> QED BY <2>1, <3>2, <3>3 DEF Carried
  <2> QED BY <2>2, <2>3
<1>11. CASE Restart
  BY <1>11 DEF Restart, NoSearch, Carried
<1> QED BY <1>2, <1>l, <1>r, <1>3, <1>4, <1>5, <1>6, <1>7, <1>8, <1>9, <1>10, <1>11 DEF SearchNext

(* A search that ends has found what it owes.                              *)
LEMMA FindsStep == FilesInv /\ Carried /\ FindsIndexed /\ [SearchNext]_searchVars => FindsIndexed'
<1> SUFFICES ASSUME FilesInv, Carried, FindsIndexed, [SearchNext]_searchVars,
                    search'.at = "done", NEW d \in Ids, Owed(d)'
             PROVE  d \in search'.found
  BY DEF FindsIndexed, Owed, Live
<1>t. /\ records \in Layouts /\ unseen \subseteq Ids /\ touched \subseteq Ids
      /\ search = [at |-> search.at, query |-> search.query, index |-> search.index,
                   ids |-> search.ids, found |-> search.found]
  BY DEF FilesInv, SearchTyped, Shaped
<1>h. search.at = "done" /\ Owed(d) => d \in search.found
  BY DEF FindsIndexed, Owed, Live
<1>1. ASSUME UNCHANGED <<records, unseen, touched, search>> PROVE d \in search'.found
  BY <1>1, <1>h, OwedKept
<1>2. CASE Begin \/ OpenNames \/ OpenPaths \/ OpenGrams \/ Look \/ Restart
  BY <1>2, Elsewhere DEF FilesInv, SearchTyped
<1>b. CASE Check \/ SetDocId \/ CreateFile \/ WriteFile \/ UNCHANGED searchVars
  BY <1>1, <1>b DEF Check, SetDocId, CreateFile, WriteFile, searchVars, history
<1>l. CASE ListFiles \/ Unlink \/ RemoveFolder \/ ListRecords \/ ListDocs
  BY <1>1, <1>l DEF ListFiles, Unlink, RemoveFolder, ListRecords, ListDocs, history
<1>r. CASE Read
  <2>1. UNCHANGED <<records, search, touched>> /\ (unseen' = unseen \/ unseen' = Ids)
    BY <1>r DEF Read, During
  <2>2. unseen' # Ids
    BY DEF Owed
  <2> QED BY <1>1, <2>1, <2>2
<1>3. CASE Looked
  <2>1. UNCHANGED <<records, unseen, touched>> /\ search'.query = search.query
        /\ search'.found = search.found /\ search.ids = <<>> /\ search.at = "look"
    BY <1>3, <1>t DEF Looked, history
  <2>2. Owed(d)
    BY <2>1, OwedKept
  <2>3. d \in ToSet(search.ids) \cup search.found
    BY <2>1, <2>2 DEF Carried, Owed
  <2>4. ToSet(search.ids) = {}
    BY <2>1 DEF ToSet
  <2> QED BY <2>1, <2>3, <2>4
<1>4. CASE Scan
  <2>1. UNCHANGED <<records, unseen, touched>> /\ search'.query = search.query
        /\ search'.found = {e \in Ids : Passes(e) /\ Resembles(records[e], search.query)}
    BY <1>4, <1>t DEF Scan, history
  <2>2. Owed(d)
    BY <2>1, OwedKept
  <2> QED BY <2>1, <2>2, MatchResembles DEF Owed, Passes
<1>5. ASSUME NEW e \in Ids, Change(e) PROVE d \in search'.found
  <2>1. Owed(d) /\ search' = search
    BY <1>5, <1>t DEF Change, Owed, Layouts, During
  <2> QED BY <1>h, <2>1
<1>6. CASE DeleteBatch
  <2>1. search' = search /\ unseen' = unseen \cup reset.docs /\ touched' = touched \cup reset.ids
        /\ (d \notin reset.ids => records'[d] = records[d])
    BY <1>6 DEF DeleteBatch, During
  <2>2. Owed(d)
    BY <2>1 DEF Owed
  <2> QED BY <1>h, <2>1, <2>2
<1> QED BY <1>2, <1>b, <1>l, <1>r, <1>3, <1>4, <1>5, <1>6 DEF SearchNext

(* A search finds what matches and has changed neither since the build it  *)
(* met had read the records nor while it ran, whichever way it took: names *)
(* and paths, n-grams, or all records.  Excused are records whose document *)
(* id a reset has deleted since it was set, and a search that has run      *)
(* while the index was that of a build begun among what a removal had left.*)
THEOREM FindsIndexedAlways ==
  ASSUME PostingsRight, ListsRight PROVE SearchSpec => []FindsIndexed
<1>1. SearchInit => Known /\ Intact /\ Carried /\ FindsIndexed
  BY DEF SearchInit, Known, Intact, Carried, FindsIndexed, NoSearch, Searching
<1>2. FilesInv /\ Known /\ Intact /\ Carried /\ FindsIndexed /\ [SearchNext]_searchVars
      => (Known /\ Intact /\ Carried /\ FindsIndexed)'
  BY KnownStep, IntactStep, CarriedStep, FindsStep
<1> QED BY <1>1, <1>2, FilesAlways, PTL DEF SearchSpec
=============================================================================
