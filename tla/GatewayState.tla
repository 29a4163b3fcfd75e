---------------------------- MODULE GatewayState ----------------------------
(***************************************************************************)
(* The shared state of the gateway server (AppState) and the state of the  *)
(* tasks that work on it: liveclaw-gateway/src/server.rs.                  *)
(*                                                                         *)
(* AppState is a bundle of independent maps, each behind a lock of its     *)
(* own.  A handler takes these locks one at a time and awaits between any  *)
(* two of them, so a handler is a sequence of accesses and handlers of     *)
(* different tasks interleave between accesses.  pc[t] below names the     *)
(* access a task makes next; what a handler computes locally is part of    *)
(* the access before it.                                                   *)
(*                                                                         *)
(* GatewaySessions has the handlers of the WebSocket session protocol,     *)
(* GatewayChannels those of the channel adapters, Gateway composes them.   *)
(***************************************************************************)
EXTENDS Naturals, Sequences, FiniteSets

CONSTANTS
  Conns,           \* WebSocket connection tasks; each serves one connection
  Reqs,            \* tasks without a mailbox: HTTP requests and job ticks
  Cancellable,     \* those of Reqs that are dropped when their client leaves
  Principals,      \* principal ids: hashes of the pairing tokens
  Externals,       \* (channel, account_id, external_user_id), normalized
  Sessions,        \* the UUIDs create_session may draw
  RequirePairing,  \* GatewayConfig: is a token needed?
  Anonymous,       \* the principal id "anonymous"
  InitialTokens,   \* principals whose token hash is known at the start
  None,            \* Option::None
  Temp,            \* the mailbox a supervised action makes for one tool call
  MaxAuth,         \* bound: successful Pair/Authenticate per connection
  MaxFinals        \* bound: final transcripts received from the runner

Tasks == Conns \cup Reqs
Keys  == [principal : Principals, external : Externals]  \* ChannelRouteKey

ASSUME GatewayAssumption ==
  /\ Conns \cap Reqs = {}
  /\ Cancellable \subseteq Reqs
  /\ InitialTokens \subseteq Principals
  /\ RequirePairing \in BOOLEAN
  /\ Anonymous \in Principals
  /\ None \notin Principals \cup Sessions \cup Conns \cup Keys
  /\ Temp \notin Conns \cup {None}
  /\ MaxAuth \in Nat
  /\ MaxFinals \in Nat

VARIABLES
  session_owners,         \* session -> principal, or None
  ws_response_senders,    \* session -> mailbox, or None
  ws_priority_senders,    \* session -> mailbox, or None
  channel_routes,         \* route key -> session, or None
  session_channel_routes, \* session -> route key, or None
  channel_outbox,         \* route key -> the items waiting for a poll
  live,                   \* the runner's sessions: session -> user id, or None
  tokens,                 \* principals whose token hash the guard holds
  conn,                   \* ConnectionState of every task
  task,                   \* the handler every task is in, and its locals
  forwarder,              \* the transcript forwarding task
  finals,                 \* final transcripts received so far
  (* History: *)
  creator,                \* session -> the principal it was created for
  origin,                 \* session -> the route it was created for, or None
  announced               \* session ids that have reached a client

registry == <<session_owners, ws_response_senders, ws_priority_senders>>
channels == <<channel_routes, session_channel_routes, channel_outbox>>
runner   == <<live, creator, origin>>
outside  == <<tokens, forwarder, finals>>
vars     == <<registry, channels, runner, outside, conn, task, announced>>

----------------------------------------------------------------------------
(* Tasks *)

IdleTask == [pc |-> "idle", op |-> "none", sid |-> None, key |-> None,
             force |-> FALSE, removed |-> {}]

(* ConnectionState::new(); known is history: the principals it has had.    *)
NewConn == [status |-> "new", principal |-> None, owned |-> {}, auths |-> 0,
            known |-> {}]

Init ==
  /\ session_owners = [s \in Sessions |-> None]
  /\ ws_response_senders = [s \in Sessions |-> None]
  /\ ws_priority_senders = [s \in Sessions |-> None]
  /\ channel_routes = [k \in Keys |-> None]
  /\ session_channel_routes = [s \in Sessions |-> None]
  /\ channel_outbox = [k \in Keys |-> <<>>]
  /\ live = [s \in Sessions |-> None]
  /\ tokens = InitialTokens
  /\ conn = [t \in Tasks |-> NewConn]
  /\ task = [t \in Tasks |-> IdleTask]
  /\ forwarder = [pc |-> "recv", sid |-> None, key |-> None]
  /\ finals = 0
  /\ creator = [s \in Sessions |-> None]
  /\ origin = [s \in Sessions |-> None]
  /\ announced = {}

(* Principals is_authenticated() can vouch for: with pairing disabled any  *)
(* token passes and stands for "anonymous".                                *)
Admitted == IF RequirePairing THEN tokens ELSE {Anonymous}

At(t, pc) == task[t].pc = pc

(* A connection that can read its next frame. *)
Ready(c) == c \in Conns /\ conn[c].status = "open" /\ At(c, "idle")

Sid(t) == task[t].sid
Key(t) == task[t].key
Me(t)  == conn[t].principal

(* The task goes on to its next access. *)
Go(t, pc) ==
  /\ task' = [task EXCEPT ![t].pc = pc]
  /\ UNCHANGED conn

(* The handler returns.  A connection keeps its ConnectionState, a request *)
(* or job tick drops the one it made.                                      *)
Return(t) ==
  /\ task' = [task EXCEPT ![t] = IdleTask]
  /\ conn' = IF t \in Conns THEN conn ELSE [conn EXCEPT ![t] = NewConn]

(* Both, with conn.owned_sessions changed on the way. *)
GoOwning(t, pc, owned) ==
  /\ task' = [task EXCEPT ![t].pc = pc]
  /\ conn' = [conn EXCEPT ![t].owned = owned]

ReturnOwning(t, owned) ==
  /\ task' = [task EXCEPT ![t] = IdleTask]
  /\ conn' = [conn EXCEPT ![t] = IF t \in Conns
                                 THEN [@ EXCEPT !.owned = owned]
                                 ELSE NewConn]

(* The ws_tx / ws_priority_tx arguments of the handler the task is in: its *)
(* own mailbox for a connection, none for terminate and for requests, and  *)
(* a mailbox made for the purpose for the tool call of a supervised action.*)
Mailbox(t) ==
  CASE task[t].op = "tool" -> Temp
    [] t \in Conns /\ task[t].op # "terminate" -> t
    [] OTHER -> None

Mailboxes == Conns \cup {Temp}

(* The forwarder holds ws_response_senders.read() from the receipt of a    *)
(* transcript to the end of its loop body; writers wait.                   *)
ResponseSendersWritable == forwarder.pc = "recv"

(* It waits, with that lock, for room in the mailbox of a connection.      *)
AwaitsConnection ==
  forwarder.pc = "send" /\ ws_response_senders[forwarder.sid] \in Conns
=============================================================================
