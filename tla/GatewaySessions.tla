-------------------------- MODULE GatewaySessions ---------------------------
(***************************************************************************)
(* The WebSocket side of the gateway: connections, Pair and Authenticate,  *)
(* and the session handlers (create, terminate, and the ones that only use *)
(* a session: audio, commit, response, interrupt, prompt, tool call).      *)
(***************************************************************************)
EXTENDS GatewayState

(* Upgrade: handle_ws starts, and is authenticated at once when pairing is *)
(* disabled.                                                               *)
Open(c) ==
  /\ conn[c].status = "new"
  /\ conn' = [conn EXCEPT
       ![c].status = "open",
       ![c].principal = IF RequirePairing THEN None ELSE Anonymous,
       ![c].known = IF RequirePairing THEN {} ELSE {Anonymous}]
  /\ UNCHANGED <<registry, channels, runner, outside, task, announced>>

Identify(c, p) ==
  /\ Ready(c)
  /\ conn[c].auths < MaxAuth
  /\ conn' = [conn EXCEPT ![c].principal = p, ![c].auths = @ + 1,
                          ![c].known = @ \cup {p}]
  /\ UNCHANGED <<registry, channels, runner, forwarder, finals, task, announced>>

(* A Pair the guard accepts: a fresh token, hence a fresh principal. *)
Pair(c) ==
  \/ /\ RequirePairing
     /\ \E p \in Principals \ tokens :
          /\ tokens' = tokens \cup {p}
          /\ Identify(c, p)
  \/ /\ ~RequirePairing
     /\ Identify(c, Anonymous)
     /\ UNCHANGED tokens

Authenticate(c) ==
  /\ \E p \in Admitted : Identify(c, p)
  /\ UNCHANGED tokens

(* The receive loop ends and the connection removes the senders of every   *)
(* session it owns, under both write locks.                                *)
Close(c) ==
  /\ Ready(c)
  /\ ResponseSendersWritable
  /\ ws_response_senders' = [s \in Sessions |->
       IF s \in conn[c].owned THEN None ELSE ws_response_senders[s]]
  /\ ws_priority_senders' = [s \in Sessions |->
       IF s \in conn[c].owned THEN None ELSE ws_priority_senders[s]]
  /\ conn' = [conn EXCEPT ![c].status = "closed", ![c].owned = {}]
  /\ UNCHANGED <<session_owners, channels, runner, outside, task, announced>>

----------------------------------------------------------------------------
(* authorize_session_access *)

(* What the caller does once access is granted.  An inbound message calls  *)
(* send_text and create_response next and returns in any case.             *)
AfterAccess(t) ==
  CASE task[t].op = "terminate" -> "t_response"
    [] task[t].op = "action"    -> "tool"
    [] task[t].op = "tool"      -> "tool_call"
    [] OTHER                    -> "idle"

Granted(t, owned) ==
  LET next == AfterAccess(t)
  IN CASE next = "idle" -> ReturnOwning(t, owned)
       [] next = "tool" ->
            \/ \* handle_session_tool_call authorizes again, with mailboxes
               /\ task' = [task EXCEPT ![t].pc = "authorize", ![t].op = "tool"]
               /\ conn' = [conn EXCEPT ![t].owned = owned]
            \/ \* send_text or create_response fails
               ReturnOwning(t, owned)
       [] OTHER -> GoOwning(t, next, owned)

(* Already in owned_sessions: no lookup of the owner. *)
AuthorizeOwned(t) ==
  /\ At(t, "authorize")
  /\ Sid(t) \in conn[t].owned
  /\ IF Mailbox(t) = None THEN Granted(t, conn[t].owned) ELSE Go(t, "bind")
  /\ UNCHANGED <<registry, channels, runner, outside, announced>>

(* Mutant of AuthorizeByOwner: any owner will do. *)
AuthorizeByOwner_AnyOwner(t) ==
  /\ At(t, "authorize")
  /\ Sid(t) \notin conn[t].owned
  /\ LET owned == conn[t].owned \cup {Sid(t)}
     IN IF session_owners[Sid(t)] # None
        THEN IF Mailbox(t) = None THEN Granted(t, owned)
                                  ELSE GoOwning(t, "bind", owned)
        ELSE Return(t)
  /\ UNCHANGED <<registry, channels, runner, outside, announced>>

AuthorizeByOwner(t) ==
  /\ At(t, "authorize")
  /\ Sid(t) \notin conn[t].owned
  /\ LET owned == conn[t].owned \cup {Sid(t)}
     IN IF session_owners[Sid(t)] = Me(t)
        THEN IF Mailbox(t) = None THEN Granted(t, owned)
                                  ELSE GoOwning(t, "bind", owned)
        ELSE Return(t)  \* forbidden_session, session_not_found
  /\ UNCHANGED <<registry, channels, runner, outside, announced>>

BindResponses(t) ==
  /\ At(t, "bind")
  /\ ResponseSendersWritable
  /\ ws_response_senders' = [ws_response_senders EXCEPT ![Sid(t)] = Mailbox(t)]
  /\ Go(t, "bind_priority")
  /\ UNCHANGED <<session_owners, ws_priority_senders, channels, runner,
                 outside, announced>>

BindPriority(t) ==
  /\ At(t, "bind_priority")
  /\ ws_priority_senders' = [ws_priority_senders EXCEPT ![Sid(t)] = Mailbox(t)]
  /\ Granted(t, conn[t].owned)
  /\ UNCHANGED <<session_owners, ws_response_senders, channels, runner,
                 outside, announced>>

----------------------------------------------------------------------------
(* handle_create_session_internal, called for CreateSession and by the     *)
(* channel handlers; key is the route it is created for, or None.          *)

BeginCreate(c) ==
  /\ Ready(c)
  /\ Me(c) # None
  /\ task' = [task EXCEPT ![c].pc = "new_session", ![c].op = "create"]
  /\ UNCHANGED <<registry, channels, runner, outside, conn, announced>>

(* runner.create_session, with a UUID nobody has drawn before. *)
NewSession(t) ==
  /\ At(t, "new_session")
  /\ \E s \in Sessions :
       /\ creator[s] = None
       /\ live' = [live EXCEPT ![s] = Me(t)]
       /\ creator' = [creator EXCEPT ![s] = Me(t)]
       /\ origin' = [origin EXCEPT ![s] = Key(t)]
       /\ task' = [task EXCEPT ![t].pc = "own", ![t].sid = s]
  /\ UNCHANGED <<registry, channels, outside, conn, announced>>

(* session_create_failed *)
NewSessionFails(t) ==
  /\ At(t, "new_session")
  /\ Return(t)
  /\ UNCHANGED <<registry, channels, runner, outside, announced>>

(* The end of create: SessionCreated goes to the client, or the channel    *)
(* handler goes on to record the route.                                    *)
Created(t) ==
  LET owned == conn[t].owned \cup {Sid(t)}
  IN IF task[t].op = "create"
     THEN ReturnOwning(t, owned) /\ announced' = announced \cup {Sid(t)}
     ELSE GoOwning(t, "route", owned) /\ UNCHANGED announced

InsertOwner(t) ==
  /\ At(t, "own")
  /\ session_owners' = [session_owners EXCEPT ![Sid(t)] = Me(t)]
  /\ IF Mailbox(t) = None THEN Created(t)
                          ELSE Go(t, "own_response") /\ UNCHANGED announced
  /\ UNCHANGED <<ws_response_senders, ws_priority_senders, channels, runner,
                 outside>>

InsertResponseSender(t) ==
  /\ At(t, "own_response")
  /\ ResponseSendersWritable
  /\ ws_response_senders' = [ws_response_senders EXCEPT ![Sid(t)] = Mailbox(t)]
  /\ Go(t, "own_priority")
  /\ UNCHANGED <<session_owners, ws_priority_senders, channels, runner,
                 outside, announced>>

InsertPrioritySender(t) ==
  /\ At(t, "own_priority")
  /\ ws_priority_senders' = [ws_priority_senders EXCEPT ![Sid(t)] = Mailbox(t)]
  /\ Created(t)
  /\ UNCHANGED <<session_owners, ws_response_senders, channels, runner, outside>>

----------------------------------------------------------------------------
(* Handlers that name a session in their message. *)

BeginOn(c, s, op) ==
  /\ Ready(c)
  /\ Me(c) # None
  /\ s \in announced
  /\ task' = [task EXCEPT ![c].pc = "authorize", ![c].op = op, ![c].sid = s]
  /\ UNCHANGED <<registry, channels, runner, outside, conn, announced>>

(* SessionAudio, SessionAudioCommit, SessionResponseCreate, SessionPrompt, *)
(* SessionResponseInterrupt, SessionToolCall: authorize with the mailbox   *)
(* of the connection, then one call of the runner that leaves this state   *)
(* alone.                                                                  *)
BeginUse(c, s) == BeginOn(c, s, "use")

BeginTerminate(c, s) == BeginOn(c, s, "terminate")

(* Removals, in the order of handle_terminate_session (t_ steps) and of    *)
(* the forced replacement of a route's session (f_ steps).  audio_senders  *)
(* is left out: nothing inserts into it.                                   *)
RemoveResponseSender(t) ==
  /\ ResponseSendersWritable
  /\ \/ At(t, "t_response") /\ Go(t, "t_priority")
     \/ At(t, "f_response") /\ Go(t, "f_priority")
  /\ ws_response_senders' = [ws_response_senders EXCEPT ![Sid(t)] = None]
  /\ UNCHANGED <<session_owners, ws_priority_senders, channels, runner,
                 outside, announced>>

RemovePrioritySender(t) ==
  /\ \/ At(t, "t_priority") /\ Go(t, "t_owner")
     \/ At(t, "f_priority") /\ Go(t, "f_owner")
  /\ ws_priority_senders' = [ws_priority_senders EXCEPT ![Sid(t)] = None]
  /\ UNCHANGED <<session_owners, ws_response_senders, channels, runner,
                 outside, announced>>

(* Mutant of RemoveOwner: the owner stays on record. *)
RemoveOwner_Forgotten(t) ==
  /\ \/ At(t, "t_owner") /\ Go(t, "t_routes")
     \/ At(t, "f_owner") /\ Go(t, "f_runner")
  /\ UNCHANGED <<registry, channels, runner, outside, announced>>

RemoveOwner(t) ==
  /\ \/ At(t, "t_owner") /\ Go(t, "t_routes")
     \/ At(t, "f_owner") /\ Go(t, "f_runner")
  /\ session_owners' = [session_owners EXCEPT ![Sid(t)] = None]
  /\ UNCHANGED <<ws_response_senders, ws_priority_senders, channels, runner,
                 outside, announced>>

(* Mutant of RetainRoutes: the routes stay. *)
RetainRoutes_KeepsAll(t) ==
  /\ At(t, "t_routes")
  /\ Go(t, "t_index")
  /\ UNCHANGED <<registry, channels, runner, outside, announced>>

(* channel_routes.retain, collecting the removed keys *)
RetainRoutes(t) ==
  /\ At(t, "t_routes")
  /\ LET removed == {k \in Keys : channel_routes[k] = Sid(t)}
     IN /\ channel_routes' = [k \in Keys |->
             IF k \in removed THEN None ELSE channel_routes[k]]
        /\ task' = [task EXCEPT ![t].pc = "t_index", ![t].removed = removed]
  /\ UNCHANGED <<registry, session_channel_routes, channel_outbox, runner,
                 outside, conn, announced>>

UnindexTerminated(t) ==
  /\ At(t, "t_index")
  /\ session_channel_routes' = [session_channel_routes EXCEPT ![Sid(t)] = None]
  /\ Go(t, IF task[t].removed = {} THEN "t_runner" ELSE "t_outbox")
  /\ UNCHANGED <<registry, channel_routes, channel_outbox, runner, outside,
                 announced>>

DiscardOutboxes(t) ==
  /\ At(t, "t_outbox")
  /\ channel_outbox' = [k \in Keys |->
       IF k \in task[t].removed THEN <<>> ELSE channel_outbox[k]]
  /\ Go(t, "t_runner")
  /\ UNCHANGED <<registry, channel_routes, session_channel_routes, runner,
                 outside, announced>>

(* Mutant of EndTerminated: the runner is not told. *)
EndTerminated_NotTold(t) ==
  /\ At(t, "t_runner")
  /\ ReturnOwning(t, conn[t].owned \ {Sid(t)})
  /\ UNCHANGED <<registry, channels, runner, outside, announced>>

(* owned_sessions.retain, then runner.terminate_session; a session the     *)
(* runner no longer has is an error answer and no change.                  *)
EndTerminated(t) ==
  /\ At(t, "t_runner")
  /\ live' = [live EXCEPT ![Sid(t)] = None]
  /\ ReturnOwning(t, conn[t].owned \ {Sid(t)})
  /\ UNCHANGED <<registry, channels, creator, origin, outside, announced>>
=============================================================================
