-------------------------- MODULE GatewayInvariant --------------------------
(***************************************************************************)
(* The inductive invariant of Gateway: what every task may rely on at each *)
(* of its steps, and why two tasks never disturb each other's session      *)
(* while it is being created.                                              *)
(***************************************************************************)
EXTENDS Gateway

RouteOps == {"inbound", "action", "tool"}

(* Steps of handle_channel_inbound that have only its route to go by. *)
RouteSteps == {"read_route", "check_owner", "s_route", "s_index", "f_route",
               "f_index", "f_outbox", "f_response", "f_priority", "f_owner",
               "f_runner", "route", "index"}

(* Steps before which the session's id is known only to its creator. *)
CreateSteps == {"own", "own_response", "own_priority", "route"}

(* Steps of a task that deals with the session its route maps to. *)
MappedSteps == CreateSteps \cup (RouteSteps \ {"read_route"})

SessionSteps == PCs \ {"idle", "new_session", "read_route"}

TerminatingSteps == {"t_routes", "t_index", "t_outbox", "t_runner", "f_runner"}

(* The locals of a handler: who it works for and on what. *)
LocalsAt(t) ==
  /\ At(t, "idle") <=> task[t] = IdleTask
  /\ ~At(t, "idle") => Me(t) \in Principals
  /\ ~At(t, "idle") /\ t \in Conns => conn[t].status = "open"
  /\ IF task[t].op \in RouteOps
     THEN Key(t) \in Keys /\ Key(t).principal = Me(t)
     ELSE Key(t) = None
  /\ task[t].pc \in RouteSteps => task[t].op \in {"inbound", "action"}
  /\ task[t].pc \in CreateSteps \cup {"new_session"} =>
       task[t].op \in {"create", "inbound", "action"}
  /\ task[t].pc \in SessionSteps => Sid(t) \in Sessions
  /\ Sid(t) # None => creator[Sid(t)] # None
  /\ task[t].pc \in MappedSteps =>
       origin[Sid(t)] = Key(t) /\ creator[Sid(t)] = Me(t)

Locals == \A t \in Tasks : LocalsAt(t)

(* A session under creation belongs to one task and nobody else can name it.*)
Exclusive ==
  /\ \A t \in Tasks : task[t].pc \in CreateSteps =>
       /\ Sid(t) \notin announced
       /\ \A k \in Keys : channel_routes[k] # Sid(t)
       /\ \A u \in Tasks \ {t} : Sid(u) # Sid(t)
  /\ \A s \in announced : creator[s] # None

(* The runner's table against the registry. *)
Ownership ==
  /\ OwnedIsLive
  /\ Cancellable = {} => NoOrphans
  /\ \A s \in Sessions : live[s] # None => live[s] = creator[s]
  /\ \A t \in Tasks :
       /\ At(t, "own") => live[Sid(t)] = Me(t)
       /\ task[t].pc \in TerminatingSteps => session_owners[Sid(t)] = None

(* Routes and outboxes hold sessions that were created, each for its own   *)
(* route; the forwarder is about to push into the right outbox.            *)
Isolation ==
  /\ RoutesIsolated
  /\ OutboxIsolated
  /\ \A s \in Sessions : creator[s] = None => origin[s] = None
  /\ forwarder.pc = "push" => origin[forwarder.sid] = forwarder.key
  /\ forwarder.pc # "recv" => creator[forwarder.sid] # None
  /\ \A k \in Keys : \A i \in DOMAIN channel_outbox[k] :
       creator[channel_outbox[k][i].session] # None

IInv == TypeOK /\ Locals /\ Exclusive /\ Ownership /\ Isolation

----------------------------------------------------------------------------
(* What a task owns was created for a principal it has been. *)
OwnedByKnown ==
  \A t \in Tasks : \A s \in conn[t].owned : Knows(t, s)

(* It has been who it is; a connection that is new has been nobody. *)
Identified ==
  \A t \in Tasks :
    /\ Me(t) # None => Me(t) \in conn[t].known
    /\ t \in Conns /\ conn[t].status = "new" => conn[t].known = {}

AccessInv == OwnedByKnown /\ Identified /\ AccessWasGranted /\ DeliveryWasGranted
----------------------------------------------------------------------------
(* Why the maps agree: a task unindexes a session only after it has taken  *)
(* the routes to it out, and nobody puts one back.                         *)
Unrouted ==
  \A t \in Tasks : task[t].pc \in {"t_index", "f_index", "s_index"} =>
    \A k \in Keys : channel_routes[k] # Sid(t)

(* Without requests that can be dropped between the route and its index.   *)
RoutesInv == Unrouted /\ (Cancellable = {} => RoutesIndexed)

(* The steps of a termination after which neither map of senders holds the *)
(* session.                                                                *)
Unanswered == {"t_priority", "t_owner", "t_routes", "t_index", "t_outbox", "t_runner"}

(* Close finds every sender of the connection through owned_sessions: the  *)
(* ones it does not find yet belong to a handler that is not done.         *)
SendersAt(c) ==
  /\ \A s \in Sessions :
       /\ ws_response_senders[s] = c =>
            /\ conn[c].status = "open"
            /\ s \in conn[c].owned \/ (At(c, "own_priority") /\ Sid(c) = s)
       /\ ws_priority_senders[s] = c =>
            conn[c].status = "open" /\ s \in conn[c].owned
  /\ task[c].pc \in {"bind", "bind_priority"} => Sid(c) \in conn[c].owned
  /\ task[c].pc \in Unanswered => ws_response_senders[Sid(c)] # c
  /\ task[c].pc \in Unanswered \ {"t_priority"} => ws_priority_senders[Sid(c)] # c

SendersInv == \A c \in Conns : SendersAt(c)

(* What an outbox holds was received before what is on its way into it.    *)
OutboxInv ==
  /\ OutboxOrdered
  /\ \A k \in Keys : \A i \in DOMAIN channel_outbox[k] :
       /\ channel_outbox[k][i].number <= finals
       /\ forwarder.pc # "recv" => channel_outbox[k][i].number < finals

MapsInv == RoutesInv /\ SendersInv /\ OutboxInv
=============================================================================
