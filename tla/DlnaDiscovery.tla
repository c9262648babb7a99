--------------------------- MODULE DlnaDiscovery ---------------------------
(***************************************************************************)
(* The discovery of DLNA renderers (internal/dlna/discovery_async.go) and  *)
(* its events' way to the browsers (EventBus).                             *)
(*                                                                         *)
(* A request registers its client, starts a discovery task unless one is   *)
(* running, and sends the client the renderers in the cache.  The task     *)
(* scans the network for a minute, publishes each renderer that is new to  *)
(* the cache to the clients registered at that moment, and tells all of    *)
(* them when the window is over.  The list of clients and the cache have a *)
(* lock each, and nothing is published under the former.                   *)
(***************************************************************************)
EXTENDS EventBus

CONSTANTS
    Requests,   \* request handlers
    Asker,      \* client id of each request
    Tasks,      \* bound on the tasks alive: one scans, others notify
    Devices,    \* what may answer a search
    Renderers,  \* devices with a UDN and an AVTransport service
    None

ASSUME AskerAssumption == Asker \in [Requests -> Clients]
ASSUME RendererAssumption == Renderers \subseteq Devices /\ None \notin Devices

Found == "found"
Done == "done"

ASSUME EventTopicsAssumption == {Found, Done} \subseteq Range(Topics)

VARIABLES
    clients, running,   \* rendererDiscoveryManager
    cache,              \* rendererCache
    pc, owns,           \* requests: control point, starts the task
    tpc, dev, to,       \* tasks: control point, renderer, clients to tell
    steady,     \* history: connections listening since their client asked
    heard       \* history: what those heard since

manager == <<clients, running>>
requests == <<pc, owns>>
tasks == <<tpc, dev, to>>
vars == <<bus, manager, cache, requests, tasks, steady, heard>>

Scanning == {"scan", "snapshot", "publish"}

TypeOK ==
    /\ BusTypeOK
    /\ clients \in SUBSET Clients
    /\ running \in BOOLEAN
    /\ cache \in SUBSET Renderers
    /\ pc \in [Requests -> {"idle", "flush", "spawn"}]
    /\ owns \in [Requests -> BOOLEAN]
    /\ tpc \in [Tasks -> {"idle", "notify"} \cup Scanning]
    /\ dev \in [Tasks -> Renderers \cup {None}]
    /\ to \in [Tasks -> SUBSET Clients]
    /\ steady \in SUBSET Conns
    /\ heard \in [Conns -> SUBSET (Renderers \cup {Done})]

Init ==
    /\ BusInit
    /\ clients = {}
    /\ running = FALSE
    /\ cache = {}
    /\ pc = [r \in Requests |-> "idle"]
    /\ owns = [r \in Requests |-> FALSE]
    /\ tpc = [t \in Tasks |-> "idle"]
    /\ dev = [t \in Tasks |-> None]
    /\ to = [t \in Tasks |-> {}]
    /\ steady = {}
    /\ heard = [k \in Conns |-> {}]

Publish(topic, c, what) ==
    heard' = [k \in Conns |-> IF k \in steady \cap Reached(topic, c)
                              THEN heard[k] \cup what ELSE heard[k]]

-----------------------------------------------------------------------------
(* StartRendererDiscovery.                                                 *)

AlwaysOwner == TRUE
NotRunning == ~running

Listening(c) == Reached(Found, c) \cap Reached(Done, c)

Register(r) ==
    /\ pc[r] = "idle"
    /\ pc' = [pc EXCEPT ![r] = "flush"]
    /\ owns' = [owns EXCEPT ![r] = NotRunning]
    /\ clients' = clients \cup {Asker[r]}
    /\ running' = TRUE
    /\ steady' = {k \in steady : Owner[k] # Asker[r]} \cup Listening(Asker[r])
    /\ heard' = [k \in Conns |-> IF Owner[k] = Asker[r] THEN {} ELSE heard[k]]
    /\ UNCHANGED <<bus, cache, tasks>>

NewcomersCache(r) == IF owns[r] THEN cache ELSE {}
Cached(r) == cache

Leave(r) ==
    /\ pc' = [pc EXCEPT ![r] = "idle"]
    /\ owns' = [owns EXCEPT ![r] = FALSE]

(* The cache is locked for reading while its content is published.         *)
flushCachedToClient(r) ==
    /\ pc[r] = "flush"
    /\ Publish(Found, Asker[r], Cached(r))
    /\ IF owns[r] THEN pc' = [pc EXCEPT ![r] = "spawn"] /\ UNCHANGED owns
                  ELSE Leave(r)
    /\ UNCHANGED <<bus, manager, cache, tasks, steady>>

Spawn(r, t) ==
    /\ pc[r] = "spawn"
    /\ tpc[t] = "idle"
    /\ tpc' = [tpc EXCEPT ![t] = "scan"]
    /\ Leave(r)
    /\ UNCHANGED <<bus, manager, cache, dev, to, steady, heard>>

-----------------------------------------------------------------------------
(* runRendererDiscoveryTask.                                               *)

IsRenderer(d) == d \in Renderers

(* A renderer answers that is not in the cache; one that is there is       *)
(* written again and not published.                                        *)
onDevice(t, d) ==
    /\ tpc[t] = "scan"
    /\ IsRenderer(d)
    /\ d \notin cache
    /\ cache' = cache \cup {d}
    /\ dev' = [dev EXCEPT ![t] = d]
    /\ tpc' = [tpc EXCEPT ![t] = "snapshot"]
    /\ UNCHANGED <<bus, manager, requests, to, steady, heard>>

Snapshot(t) ==
    /\ tpc[t] = "snapshot"
    /\ to' = [to EXCEPT ![t] = clients]
    /\ tpc' = [tpc EXCEPT ![t] = "publish"]
    /\ UNCHANGED <<bus, manager, cache, requests, dev, steady, heard>>

PublishFound(t, c) ==
    /\ tpc[t] = "publish"
    /\ c \in to[t]
    /\ Publish(Found, c, {dev[t]})
    /\ to' = [to EXCEPT ![t] = @ \ {c}]
    /\ UNCHANGED <<bus, manager, cache, requests, tpc, dev, steady>>

ScanOn(t) ==
    /\ tpc[t] = "publish"
    /\ to[t] = {}
    /\ tpc' = [tpc EXCEPT ![t] = "scan"]
    /\ dev' = [dev EXCEPT ![t] = None]
    /\ UNCHANGED <<bus, manager, cache, requests, to, steady, heard>>

StillRunning == running
Stopped == FALSE

(* The minute is over: the clients are taken and the next request may      *)
(* start a task, all under the manager's lock.                             *)
EndWindow(t) ==
    /\ tpc[t] = "scan"
    /\ tpc' = [tpc EXCEPT ![t] = "notify"]
    /\ to' = [to EXCEPT ![t] = clients]
    /\ clients' = {}
    /\ running' = Stopped
    /\ UNCHANGED <<bus, cache, requests, dev, steady, heard>>

PublishDone(t, c) ==
    /\ tpc[t] = "notify"
    /\ c \in to[t]
    /\ Publish(Done, c, {Done})
    /\ to' = [to EXCEPT ![t] = @ \ {c}]
    /\ UNCHANGED <<bus, manager, cache, requests, tpc, dev, steady>>

TaskReturns(t) ==
    /\ tpc[t] = "notify"
    /\ to[t] = {}
    /\ tpc' = [tpc EXCEPT ![t] = "idle"]
    /\ UNCHANGED <<bus, manager, cache, requests, dev, to, steady, heard>>

-----------------------------------------------------------------------------
Browser ==
    /\ wsHandler
    /\ steady' = {k \in steady : k \in Range(handlers'[Found])
                                 /\ k \in Range(handlers'[Done])
                                 /\ link'[k] = "up"}
    /\ heard' = [k \in Conns |-> IF k \in steady' THEN heard[k] ELSE {}]
    /\ UNCHANGED <<manager, cache, requests, tasks>>

Request(r) == \/ flushCachedToClient(r)
              \/ \E t \in Tasks : Spawn(r, t)

Task(t) == \/ Snapshot(t) \/ ScanOn(t) \/ EndWindow(t) \/ TaskReturns(t)
           \/ \E c \in Clients : PublishFound(t, c) \/ PublishDone(t, c)

Next == \/ Browser
        \/ \E r \in Requests : Register(r) \/ Request(r)
        \/ \E t \in Tasks : Task(t) \/ \E d \in Devices : onDevice(t, d)

Spec == Init /\ [][Next]_vars

(* Request handlers and tasks are goroutines that wait for nothing but     *)
(* short locks, and the context of a task ends after a minute.             *)
FairSpec == /\ Spec
            /\ \A r \in Requests : WF_vars(Request(r))
            /\ \A t \in Tasks : WF_vars(Task(t))

-----------------------------------------------------------------------------
(* Properties.                                                             *)

(* One task at most is scanning or about to, and running says so.          *)
OneWindow ==
    Cardinality({t \in Tasks : tpc[t] \in Scanning})
        + Cardinality({r \in Requests : owns[r]}) = IF running THEN 1 ELSE 0

(* d is on its way to client c.                                            *)
OnItsWay(d, c) ==
    \/ \E r \in Requests : pc[r] = "flush" /\ Asker[r] = c
    \/ \E t \in Tasks : dev[t] = d /\ \/ tpc[t] = "snapshot"
                                      \/ tpc[t] = "publish" /\ c \in to[t]

(* A browser misses no renderer: a connection that has been listening      *)
(* since its client asked has heard of every renderer in the cache, or is  *)
(* about to, as long as the client is registered.                          *)
NoRendererMissed ==
    \A k \in steady, d \in cache :
        Owner[k] \in clients => d \in heard[k] \/ OnItsWay(d, Owner[k])

(* A browser that keeps listening learns that the window is over.          *)
DoneArrives ==
    \A k \in Conns : k \in steady /\ Owner[k] \in clients
                        ~> Done \in heard[k] \/ k \notin steady
=============================================================================
