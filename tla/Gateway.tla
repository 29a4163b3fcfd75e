------------------------------ MODULE Gateway -------------------------------
(***************************************************************************)
(* The gateway server: every task of it, and what must hold of its maps.   *)
(***************************************************************************)
EXTENDS GatewayChannels

HandlerStep(t) ==
  \/ AuthorizeOwned(t)
  \/ AuthorizeByOwner(t)
  \/ BindResponses(t)
  \/ BindPriority(t)
  \/ NewSession(t)
  \/ NewSessionFails(t)
  \/ InsertOwner(t)
  \/ InsertResponseSender(t)
  \/ InsertPrioritySender(t)
  \/ RemoveResponseSender(t)
  \/ RemovePrioritySender(t)
  \/ RemoveOwner(t)
  \/ RetainRoutes(t)
  \/ UnindexTerminated(t)
  \/ DiscardOutboxes(t)
  \/ EndTerminated(t)
  \/ ReadRoute(t)
  \/ RemoveRoute(t)
  \/ UnindexReplaced(t)
  \/ DiscardOutbox(t)
  \/ EndReplaced(t)
  \/ CheckOwner(t)
  \/ InsertRoute(t)
  \/ InsertIndex(t)
  \/ ToolCall(t)

ClientStep(c) ==
  \/ Open(c)
  \/ Pair(c)
  \/ Authenticate(c)
  \/ Close(c)
  \/ BeginCreate(c)
  \/ \E s \in Sessions : BeginUse(c, s) \/ BeginTerminate(c, s)
  \/ \E e \in Externals : ConnInbound(c, e)

ForwarderStep == SendFinal \/ LookUpRoute \/ PushOutbound

Next ==
  \/ \E c \in Conns : ClientStep(c)
  \/ \E r \in Reqs, e \in Externals : Request(r, e)
  \/ \E r \in Cancellable : Cancel(r)
  \/ \E t \in Tasks : HandlerStep(t)
  \/ \E s \in Sessions : ReceiveFinal(s)
  \/ ForwarderStep
  \/ \E k \in Keys, n \in 1..MaxFinals : Poll(k, n)

Spec == Init /\ [][Next]_vars

(* The executor runs every task that can run, and the locks of tokio are   *)
(* handed out first come, first served: a handler that waits for one gets  *)
(* it.  Clients need not do anything, and the mailbox of a connection may  *)
(* stay full for good: its task may wait for its client, or for the very   *)
(* lock the forwarder holds.  The mailbox of a tool call has room for four *)
(* and nobody reads it, so more transcripts than that wait for the return  *)
(* of the handler, which needs no lock by then.                            *)
Fairness ==
  /\ \A t \in Tasks : WF_vars(HandlerStep(t))
  /\ WF_vars(ForwarderStep /\ ~AwaitsConnection)

FairSpec == Spec /\ Fairness

----------------------------------------------------------------------------
(* Types *)

PCs == {"idle", "authorize", "bind", "bind_priority", "new_session", "own",
        "own_response", "own_priority", "route", "index", "t_response",
        "t_priority", "t_owner", "t_routes", "t_index", "t_outbox", "t_runner",
        "read_route", "check_owner", "s_route", "s_index", "f_route",
        "f_index", "f_outbox", "f_response", "f_priority", "f_owner",
        "f_runner", "tool_call"}

Ops == {"none", "create", "use", "terminate", "inbound", "action", "tool"}

Items == [session : Sessions, number : Nat]

HandlerState == [pc : PCs, op : Ops, sid : Sessions \cup {None},
                 key : Keys \cup {None}, force : BOOLEAN,
                 removed : SUBSET Keys]

ConnectionState == [status : {"new", "open", "closed"},
                    principal : Principals \cup {None},
                    owned : SUBSET Sessions, auths : Nat,
                    known : SUBSET Principals]

ForwarderState == [pc : {"recv"}, sid : {None}, key : {None}]
             \cup [pc : {"send", "look"}, sid : Sessions, key : {None}]
             \cup [pc : {"push"}, sid : Sessions, key : Keys]

TypeOK ==
  /\ session_owners \in [Sessions -> Principals \cup {None}]
  /\ ws_response_senders \in [Sessions -> Mailboxes \cup {None}]
  /\ ws_priority_senders \in [Sessions -> Mailboxes \cup {None}]
  /\ channel_routes \in [Keys -> Sessions \cup {None}]
  /\ session_channel_routes \in [Sessions -> Keys \cup {None}]
  /\ channel_outbox \in [Keys -> Seq(Items)]
  /\ live \in [Sessions -> Principals \cup {None}]
  /\ tokens \subseteq Principals
  /\ conn \in [Tasks -> ConnectionState]
  /\ task \in [Tasks -> HandlerState]
  /\ forwarder \in ForwarderState
  /\ finals \in Nat
  /\ creator \in [Sessions -> Principals \cup {None}]
  /\ origin \in [Sessions -> Keys \cup {None}]
  /\ announced \subseteq Sessions

----------------------------------------------------------------------------
(* Safety *)

(* A handler between runner.create_session and the record of its owner, or *)
(* between the removal of the owner and runner.terminate_session.          *)
Creating(t, s)    == Sid(t) = s /\ At(t, "own")
Terminating(t, s) ==
  Sid(t) = s /\ task[t].pc \in {"t_routes", "t_index", "t_outbox", "t_runner",
                                "f_runner"}

(* session_owners never names a session the runner has let go of, and      *)
(* never another principal than the runner's user: two terminations, a     *)
(* forced replacement and a reconnect may overlap on one session.          *)
OwnedIsLive ==
  \A s \in Sessions : session_owners[s] # None => session_owners[s] = live[s]

(* No session runs on in the runner that nobody can terminate any more.    *)
NoOrphans ==
  \A s \in Sessions :
    live[s] # None =>
      \/ session_owners[s] # None
      \/ \E t \in Tasks : Creating(t, s) \/ Terminating(t, s)

(* handle_channel_inbound keeps routes apart: what the four maps and the   *)
(* outboxes hold for a session is what it was created for, whoever used,   *)
(* replaced or terminated it since.  No two routes ever share a session.   *)
RoutesIsolated ==
  \A s \in Sessions, k \in Keys :
    /\ channel_routes[k] = s => origin[s] = k /\ creator[s] = k.principal
    /\ session_channel_routes[s] = k => origin[s] = k

OutboxIsolated ==
  \A k \in Keys : \A i \in DOMAIN channel_outbox[k] :
    origin[channel_outbox[k][i].session] = k

(* Whoever acts on a session works for a connection that has proved to be  *)
(* the principal the session was created for: the grant is steps away from *)
(* the act, may come from owned_sessions alone, and Authenticate changes   *)
(* the principal and leaves owned_sessions as it is (server.rs:1768).  A   *)
(* connection that identifies itself once has known one principal: itself. *)
Knows(t, s) == creator[s] \in conn[t].known

AccessSteps == {"bind", "bind_priority", "t_response", "t_priority",
                "t_owner", "t_routes", "t_index", "t_outbox", "t_runner",
                "tool_call"}

AccessWasGranted ==
  \A t \in Tasks : task[t].pc \in AccessSteps => Knows(t, Sid(t))

(* Pushed output reaches only connections that have proved to be the       *)
(* principal the session belongs to, however often they authenticated.     *)
DeliveryWasGranted ==
  \A s \in Sessions :
    /\ ws_response_senders[s] \in Conns => Knows(ws_response_senders[s], s)
    /\ ws_priority_senders[s] \in Conns => Knows(ws_priority_senders[s], s)

(* A closed connection leaves no sender behind, whatever was in flight     *)
(* when it closed.                                                         *)
BoundIsOpen ==
  \A s \in Sessions :
    LET Bound(m) == m \in Conns => conn[m].status = "open"
    IN Bound(ws_response_senders[s]) /\ Bound(ws_priority_senders[s])

(* A routed session is in the reverse index, so its transcripts find their *)
(* outbox: the two maps are updated under different locks, in different    *)
(* orders, by inbound messages, replacements and terminations.             *)
RoutesIndexed ==
  \A k \in Keys, s \in Sessions :
    channel_routes[k] = s =>
      \/ session_channel_routes[s] = k
      \/ \E t \in Tasks : At(t, "index") /\ Sid(t) = s /\ Key(t) = k

(* The maps follow what comes and goes: routed sessions are indexed, and   *)
(* bound connections are open.                                             *)
MapsAgree == RoutesIndexed /\ BoundIsOpen

(* An outbox is a queue: items wait in the order the transcripts arrived,  *)
(* none twice.                                                             *)
OutboxOrdered ==
  \A k \in Keys : \A i, j \in DOMAIN channel_outbox[k] :
    i < j => channel_outbox[k][i].number < channel_outbox[k][j].number

----------------------------------------------------------------------------
(* The abstract specification *)

Status(s) ==
  CASE creator[s] = None -> "unborn"
    [] creator[s] # None /\ live[s] = None -> "closed"
    [] live[s] # None /\ session_owners[s] # None -> "published"
    [] live[s] # None /\ session_owners[s] = None /\ \E t \in Tasks : Creating(t, s)
         -> "started"
    [] live[s] # None /\ session_owners[s] = None /\ \E t \in Tasks : Terminating(t, s)
         -> "hidden"
    [] OTHER -> "abandoned"

Lifecycle == INSTANCE SessionLifecycle WITH
  status <- [s \in Sessions |-> Status(s)], user <- creator,
  Droppable <- Cancellable # {}

(* The gateway implements SessionLifecycle. *)
ImplementsLifecycle == Lifecycle!Spec

----------------------------------------------------------------------------
(* Liveness *)

(* A handler that is about to write ws_response_senders while the          *)
(* forwarder waits for a connection.                                       *)
WaitsForMailbox(t) ==
  /\ AwaitsConnection
  /\ task[t].pc \in {"bind", "own_response", "t_response", "f_response"}


(* A termination that has been granted reaches the runner, unless it is    *)
(* held up for good in the same way before its first removal.              *)
TerminationCompletes ==
  \A s \in Sessions : \A t \in Tasks :
    (At(t, "t_response") /\ Sid(t) = s) ~>
      (live[s] = None \/ [](At(t, "t_response") /\ WaitsForMailbox(t)))

----------------------------------------------------------------------------
(* What the documentation says and the code does not do: each is checked   *)
(* by a run that expects a violation.                                      *)

Quiet == \A t \in Tasks : At(t, "idle")

(* "Access is granted only when the connection principal matches the       *)
(* stable session owner" (server.rs:2871).                                 *)
AccessMatchesOwner ==
  \A t \in Tasks : task[t].pc \in AccessSteps => creator[Sid(t)] = Me(t)

(* "Reverse index from session ID to channel route metadata"               *)
(* (server.rs:136): whenever nothing is in progress the two maps are each  *)
(* other's inverse.                                                        *)
ReverseIndex ==
  Quiet => \A s \in Sessions, k \in Keys :
             session_channel_routes[s] = k => channel_routes[k] = s

(* "optionally rebinds the session's ws_response_sender to this connection *)
(* so pushed outputs resume" (server.rs:2872): the binding of an open      *)
(* connection to a running session goes away only by a termination or      *)
(* when that connection closes.                                            *)
PushedOutputsResume ==
  [][\A s \in Sessions :
       LET c == ws_response_senders[s]
       IN c \in Conns /\ ws_response_senders'[s] = None =>
            \/ conn'[c].status = "closed"
            \/ \E t \in Tasks : Sid(t) = s /\ task[t].pc \in {"t_response", "f_response"}
    ]_vars

(* "Per-session senders for forwarding GatewayResponse messages ... back   *)
(* to the WebSocket connection that owns the session" (server.rs:128): a   *)
(* sender that belongs to no connection is there only while its tool call  *)
(* runs.                                                                   *)
SendersBelongToConnections ==
  \A s \in Sessions :
    ws_response_senders[s] = Temp =>
      \E t \in Tasks : Sid(t) = s /\ task[t].op = "tool"

(* "cleans up audio sender and ws_response_sender" (server.rs:1841): a     *)
(* session nobody handles any more and the runner has let go of keeps no   *)
(* sender.                                                                 *)
TerminationCleansUp ==
  \A s \in Sessions :
    (live[s] = None /\ ~\E t \in Tasks : Sid(t) = s) =>
      ws_response_senders[s] = None
=============================================================================
