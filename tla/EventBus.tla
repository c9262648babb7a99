------------------------------ MODULE EventBus ------------------------------
(***************************************************************************)
(* The event bus (internal/pkg/eventbus/bus.go) as the websocket           *)
(* connections use it (cmd/services/api/ws.go).                            *)
(*                                                                         *)
(* For each connection a goroutine subscribes one closure per topic, waits *)
(* until the connection breaks, and unsubscribes them in reverse order.    *)
(* Publish calls the handlers of a topic one after the other under the     *)
(* bus's lock, so that a publication is one step.  The bus recognises a    *)
(* handler by its code pointer, which is the same for the closures that    *)
(* all connections make of one function literal.                           *)
(*                                                                         *)
(* Only the topics of this instance are modelled: those of other topics    *)
(* are handled alike and separately.  The module is composed with the      *)
(* publishers; it has no specification of its own.                         *)
(***************************************************************************)
EXTENDS Naturals, FiniteSets, Sequences, SequencesExt

CONSTANTS
    Conns,      \* websocket connections, established when they subscribe
    Clients,    \* client ids
    Owner,      \* client id of each connection
    Topics      \* the topics in the order in which wsHandler subscribes

ASSUME OwnerAssumption == Owner \in [Conns -> Clients]
ASSUME TopicsAssumption == Topics \in Seq(STRING) /\ IsInjective(Topics)

VARIABLES
    handlers,   \* connections whose closures are subscribed to each topic
    link,       \* state of each connection
    subs        \* number of topics it has subscribed to and not yet left

bus == <<handlers, link, subs>>

TopicSet == Range(Topics)

BusTypeOK ==
    /\ handlers \in [TopicSet -> Seq(Conns)]
    /\ link \in [Conns -> {"up", "down"}]
    /\ subs \in [Conns -> 0..Len(Topics)]

BusInit ==
    /\ handlers = [t \in TopicSet |-> << >>]
    /\ link = [k \in Conns |-> "up"]
    /\ subs = [k \in Conns |-> 0]

-----------------------------------------------------------------------------
(* The goroutine of wsHandler, once the connection is authenticated.       *)
Subscribe(k) ==
    /\ link[k] = "up"
    /\ subs[k] < Len(Topics)
    /\ subs' = [subs EXCEPT ![k] = @ + 1]
    /\ handlers' = [handlers EXCEPT ![Topics[subs'[k]]] = Append(@, k)]
    /\ UNCHANGED link

(* ReadMessage returns an error.                                           *)
Disconnect(k) ==
    /\ link[k] = "up"
    /\ subs[k] = Len(Topics)
    /\ link' = [link EXCEPT ![k] = "down"]
    /\ UNCHANGED <<handlers, subs>>

(* findHandlerIdx and removeHandler: all handlers of a topic have the code *)
(* pointer that is looked for, so the first one is removed.                *)
RemovedNone(s, k) == s
Removed(s, k) == Tail(s)

Unsubscribe(k) ==
    /\ link[k] = "down"
    /\ subs[k] > 0
    /\ LET t == Topics[subs[k]] IN
         handlers' = [handlers EXCEPT ![t] = Removed(@, k)]
    /\ subs' = [subs EXCEPT ![k] = @ - 1]
    /\ UNCHANGED link

(* The connections at which an event for a client arrives: writing to one  *)
(* that is broken fails, and the error is ignored.                         *)
Reached(t, c) == {k \in Range(handlers[t]) : Owner[k] = c /\ link[k] = "up"}

wsHandler == \E k \in Conns : Subscribe(k) \/ Disconnect(k) \/ Unsubscribe(k)

-----------------------------------------------------------------------------
Subscribed(k, t) == \E i \in 1..subs[k] : Topics[i] = t

(* A topic has as many handlers as connections that subscribed to it and   *)
(* did not leave: none is leaked and none is removed twice.                *)
HandlersCounted ==
    \A t \in TopicSet :
        Len(handlers[t]) = Cardinality({k \in Conns : Subscribed(k, t)})

(* "Unsubscribe removes callback defined for a topic" (bus.go): the one it *)
(* is given, so a connection that is up keeps what it subscribed to.       *)
StillSubscribed ==
    \A k \in Conns, t \in TopicSet :
        link[k] = "up" /\ Subscribed(k, t) => k \in Range(handlers[t])
=============================================================================
