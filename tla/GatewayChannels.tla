-------------------------- MODULE GatewayChannels ---------------------------
(***************************************************************************)
(* The channel side of the gateway: inbound messages from HTTP adapters,   *)
(* WebSocket adapters and job ticks, the supervised action webhook, the    *)
(* transcript forwarder that fills the outboxes, and the polls that drain  *)
(* them.                                                                   *)
(***************************************************************************)
EXTENDS GatewaySessions

BeginInbound(t, p, e, op, force) ==
  task' = [task EXCEPT ![t].pc = "read_route", ![t].op = op,
             ![t].key = [principal |-> p, external |-> e], ![t].force = force]

(* ChannelInbound on a WebSocket: never asks for a replacement session. *)
ConnInbound(c, e) ==
  /\ Ready(c)
  /\ Me(c) # None
  /\ BeginInbound(c, Me(c), e, "inbound", FALSE)
  /\ UNCHANGED <<registry, channels, runner, outside, conn, announced>>

(* An HTTP inbound message or a job tick (op "inbound"), or a supervised   *)
(* action webhook, which may ask for a fresh session.  Each makes its own  *)
(* ConnectionState.                                                        *)
Request(r, e) ==
  /\ At(r, "idle")
  /\ \E p \in Admitted :
       /\ conn' = [conn EXCEPT ![r].principal = p, ![r].owned = {},
                               ![r].known = {p}]
       /\ \/ BeginInbound(r, p, e, "inbound", FALSE)
          \/ \E force \in BOOLEAN : BeginInbound(r, p, e, "action", force)
  /\ UNCHANGED <<registry, channels, runner, outside, announced>>

(* The client of an HTTP request leaves and the server drops the handler   *)
(* between two accesses.                                                   *)
Cancel(r) ==
  /\ ~At(r, "idle")
  /\ Return(r)
  /\ UNCHANGED <<registry, channels, runner, outside, announced>>

----------------------------------------------------------------------------
(* handle_channel_inbound *)

(* Mutant of ReadRoute: the route is looked up by its external user only.  *)
ReadRoute_AnyPrincipal(t) ==
  /\ At(t, "read_route")
  /\ \E k \in Keys :
       /\ k.external = Key(t).external
       /\ task' = [task EXCEPT ![t].sid = channel_routes[k], ![t].pc =
            CASE channel_routes[k] = None -> "new_session"
              [] channel_routes[k] # None /\ task[t].force -> "f_route"
              [] OTHER -> "check_owner"]
  /\ UNCHANGED <<registry, channels, runner, outside, conn, announced>>

ReadRoute(t) ==
  /\ At(t, "read_route")
  /\ LET mapped == channel_routes[Key(t)]
     IN task' = [task EXCEPT ![t].sid = mapped, ![t].pc =
                   CASE mapped = None -> "new_session"
                     [] mapped # None /\ task[t].force -> "f_route"
                     [] OTHER -> "check_owner"]
  /\ UNCHANGED <<registry, channels, runner, outside, conn, announced>>

(* The route is taken out before its session is replaced (f_route) or when *)
(* its session turns out to have no owner (s_route).                       *)
RemoveRoute(t) ==
  /\ \/ At(t, "f_route") /\ Go(t, "f_index")
     \/ At(t, "s_route") /\ Go(t, "s_index")
  /\ channel_routes' = [channel_routes EXCEPT ![Key(t)] = None]
  /\ UNCHANGED <<registry, session_channel_routes, channel_outbox, runner,
                 outside, announced>>

UnindexReplaced(t) ==
  /\ \/ At(t, "f_index") /\ Go(t, "f_outbox")
     \/ At(t, "s_index") /\ Go(t, "new_session")
  /\ session_channel_routes' = [session_channel_routes EXCEPT ![Sid(t)] = None]
  /\ UNCHANGED <<registry, channel_routes, channel_outbox, runner, outside,
                 announced>>

DiscardOutbox(t) ==
  /\ At(t, "f_outbox")
  /\ channel_outbox' = [channel_outbox EXCEPT ![Key(t)] = <<>>]
  /\ Go(t, "f_response")
  /\ UNCHANGED <<registry, channel_routes, session_channel_routes, runner,
                 outside, announced>>

(* The replaced session ends; a failure of the runner is only logged. *)
EndReplaced(t) ==
  /\ At(t, "f_runner")
  /\ live' = [live EXCEPT ![Sid(t)] = None]
  /\ Go(t, "new_session")
  /\ UNCHANGED <<registry, channels, creator, origin, outside, announced>>

CheckOwner(t) ==
  /\ At(t, "check_owner")
  /\ Go(t, IF session_owners[Sid(t)] # None THEN "index" ELSE "s_route")
  /\ UNCHANGED <<registry, channels, runner, outside, announced>>

(* From here on another inbound message of the route can find the session  *)
(* and return its id.                                                      *)
InsertRoute(t) ==
  /\ At(t, "route")
  /\ channel_routes' = [channel_routes EXCEPT ![Key(t)] = Sid(t)]
  /\ announced' = announced \cup {Sid(t)}
  /\ Go(t, "index")
  /\ UNCHANGED <<registry, session_channel_routes, channel_outbox, runner,
                 outside>>

(* Then authorize_session_access, send_text and create_response. *)
InsertIndex(t) ==
  /\ At(t, "index")
  /\ session_channel_routes' =
       [session_channel_routes EXCEPT ![Sid(t)] = Key(t)]
  /\ Go(t, "authorize")
  /\ UNCHANGED <<registry, channel_routes, channel_outbox, runner, outside,
                 announced>>

(* runner.session_tool_call; the handler returns and its mailbox is gone.  *)
ToolCall(t) ==
  /\ At(t, "tool_call")
  /\ Return(t)
  /\ UNCHANGED <<registry, channels, runner, outside, announced>>

----------------------------------------------------------------------------
(* The transcript forwarder, for final non-empty transcripts, and the      *)
(* outbox.                                                                 *)

(* recv, then the read lock on ws_response_senders.  The runner may have   *)
(* queued the transcript before the session was terminated.                *)
ReceiveFinal(s) ==
  /\ forwarder.pc = "recv"
  /\ finals < MaxFinals
  /\ creator[s] # None
  /\ finals' = finals + 1
  /\ forwarder' = [sid |-> s, key |-> None,
                   pc |-> IF ws_response_senders[s] = None THEN "look" ELSE "send"]
  /\ UNCHANGED <<registry, channels, runner, tokens, conn, task, announced>>

(* tx.send with the lock held: it waits while the mailbox is full.         *)
SendFinal ==
  /\ forwarder.pc = "send"
  /\ forwarder' = [forwarder EXCEPT !.pc = "look"]
  /\ UNCHANGED <<registry, channels, runner, tokens, finals, conn, task,
                 announced>>


LookUpRoute ==
  /\ forwarder.pc = "look"
  /\ LET k == session_channel_routes[forwarder.sid]
     IN forwarder' = IF k = None
                     THEN [pc |-> "recv", sid |-> None, key |-> None]
                     ELSE [forwarder EXCEPT !.pc = "push", !.key = k]
  /\ UNCHANGED <<registry, channels, runner, tokens, finals, conn, task,
                 announced>>

(* Mutant of PushOutbound: the newest item is put in front. *)
PushOutbound_Front ==
  /\ forwarder.pc = "push"
  /\ channel_outbox' = [channel_outbox EXCEPT ![forwarder.key] =
       <<[session |-> forwarder.sid, number |-> finals]>> \o @]
  /\ forwarder' = [pc |-> "recv", sid |-> None, key |-> None]
  /\ UNCHANGED <<registry, channel_routes, session_channel_routes, runner,
                 tokens, finals, conn, task, announced>>

PushOutbound ==
  /\ forwarder.pc = "push"
  /\ channel_outbox' = [channel_outbox EXCEPT ![forwarder.key] =
       Append(@, [session |-> forwarder.sid, number |-> finals])]
  /\ forwarder' = [pc |-> "recv", sid |-> None, key |-> None]
  /\ UNCHANGED <<registry, channel_routes, session_channel_routes, runner,
                 tokens, finals, conn, task, announced>>

(* drain_channel_outbox for at most n items of a route of an authenticated *)
(* principal; one lock, so one step.                                       *)
Poll(k, n) ==
  /\ k.principal \in Admitted
  /\ channel_outbox[k] # <<>>
  /\ LET queue == channel_outbox[k]
         split == IF n < Len(queue) THEN n ELSE Len(queue)
     IN channel_outbox' =
          [channel_outbox EXCEPT ![k] = SubSeq(queue, split + 1, Len(queue))]
  /\ UNCHANGED <<registry, channel_routes, session_channel_routes, runner,
                 outside, conn, task, announced>>
=============================================================================
