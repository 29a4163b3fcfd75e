-------------------------- MODULE GatewayProofs ---------------------------
(***************************************************************************)
(* IInv is an invariant of the gateway, for any numbers of connections,     *)
(* requests, principals, routes and sessions, whether or not requests are   *)
(* dropped and pairing is required; and the properties that follow from it. *)
(***************************************************************************)
EXTENDS GatewayInvariant, SequenceTheorems, TLAPS

----------------------------------------------------------------------------
(* The frame: what the steps of a handler change, and which parts of IInv  *)
(* a step keeps because it leaves their variables alone.                   *)

Typed ==
  /\ task' \in [Tasks -> HandlerState]
  /\ conn' \in [Tasks -> ConnectionState]

Others(t) ==
  \A u \in Tasks \ {t} : task'[u] = task[u] /\ conn'[u] = conn[u]

SameConn(t) ==
  /\ conn'[t].principal = conn[t].principal
  /\ conn'[t].status = conn[t].status

Continues(t, pc) ==
  /\ task'[t].pc = pc
  /\ task'[t].op = task[t].op
  /\ task'[t].sid = task[t].sid
  /\ task'[t].key = task[t].key
  /\ SameConn(t)

Ends(t) ==
  /\ task'[t] = IdleTask
  /\ t \in Conns => SameConn(t)

(* What Go changes: the step of one task and nothing else. *)
LEMMA GoEffect ==
  ASSUME TypeOK, NEW t \in Tasks, NEW pc \in PCs, Go(t, pc)
  PROVE  Typed /\ Others(t) /\ Continues(t, pc) /\ conn' = conn
<1>1. task \in [Tasks -> HandlerState] /\ conn \in [Tasks -> ConnectionState]
  BY DEF TypeOK
<1>2. task' = [task EXCEPT ![t].pc = pc] /\ conn' = conn
  BY DEF Go
<1>3. task' \in [Tasks -> HandlerState]
  BY <1>1, <1>2 DEF HandlerState
<1>4. Others(t) /\ Continues(t, pc)
  BY <1>1, <1>2 DEF Others, Continues, SameConn, HandlerState
<1> QED
  BY <1>1, <1>2, <1>3, <1>4 DEF Typed

(* A task between two handlers, and a connection before its upgrade, have   *)
(* their types.                                                             *)
LEMMA IdleTyped == IdleTask \in HandlerState /\ NewConn \in ConnectionState
BY DEF IdleTask, NewConn, HandlerState, ConnectionState, PCs, Ops

(* What Return changes. *)
LEMMA ReturnEffect ==
  ASSUME TypeOK, NEW t \in Tasks, Return(t)
  PROVE  Typed /\ Others(t) /\ Ends(t)
<1>1. task \in [Tasks -> HandlerState] /\ conn \in [Tasks -> ConnectionState]
  BY DEF TypeOK
<1> QED
  BY <1>1, IdleTyped DEF Return, Typed, Others, Ends, SameConn

(* What GoOwning changes: the step of one task and what it owns. *)
LEMMA GoOwningEffect ==
  ASSUME TypeOK, NEW t \in Tasks, NEW pc \in PCs, NEW owned \in SUBSET Sessions,
         GoOwning(t, pc, owned)
  PROVE  Typed /\ Others(t) /\ Continues(t, pc) /\ conn'[t].owned = owned
<1>1. task \in [Tasks -> HandlerState] /\ conn \in [Tasks -> ConnectionState]
  BY DEF TypeOK
<1>2. /\ task' = [task EXCEPT ![t].pc = pc]
      /\ conn' = [conn EXCEPT ![t].owned = owned]
  BY DEF GoOwning
<1>3. task' \in [Tasks -> HandlerState]
  BY <1>1, <1>2 DEF HandlerState
<1>4. conn' \in [Tasks -> ConnectionState] /\ conn'[t].owned = owned /\ SameConn(t)
  BY <1>1, <1>2 DEF ConnectionState, SameConn
<1>5. Others(t)
  BY <1>1, <1>2 DEF Others
<1>6. Continues(t, pc)
  BY <1>1, <1>2, <1>4 DEF Continues, HandlerState
<1> QED
  BY <1>3, <1>4, <1>5, <1>6 DEF Typed

(* What ReturnOwning changes. *)
LEMMA ReturnOwningEffect ==
  ASSUME TypeOK, NEW t \in Tasks, NEW owned \in SUBSET Sessions,
         ReturnOwning(t, owned)
  PROVE  Typed /\ Others(t) /\ Ends(t) /\ (t \in Conns => conn'[t].owned = owned)
<1>1. task \in [Tasks -> HandlerState] /\ conn \in [Tasks -> ConnectionState]
  BY DEF TypeOK
<1>2. DEFINE r == [conn[t] EXCEPT !.owned = owned]
<1>3. r \in ConnectionState /\ r.principal = conn[t].principal /\ r.status = conn[t].status
        /\ r.owned = owned
  BY <1>1 DEF ConnectionState
<1>4. conn' = [conn EXCEPT ![t] = IF t \in Conns THEN r ELSE NewConn]
  BY DEF ReturnOwning
<1> HIDE DEF r
<1>5. conn' \in [Tasks -> ConnectionState]
  BY <1>1, <1>3, <1>4, IdleTyped
<1>6. t \in Conns => SameConn(t) /\ conn'[t].owned = owned
  BY <1>1, <1>3, <1>4 DEF SameConn
<1> QED
  BY <1>1, <1>4, <1>5, <1>6, IdleTyped DEF ReturnOwning, Typed, Others, Ends

(* Access granted: the handler is over, or it goes on with its session. *)
GoesOn(t) ==
  \/ Ends(t)
  \/ /\ task'[t].pc \in {"t_response", "tool_call"}
     /\ Continues(t, task'[t].pc)
  \/ /\ task[t].op = "action"
     /\ task'[t].pc = "authorize" /\ task'[t].op = "tool"
     /\ task'[t].sid = task[t].sid /\ task'[t].key = task[t].key /\ SameConn(t)

(* Granted ends the handler or lets it go on with its session. *)
LEMMA GrantedEffect ==
  ASSUME TypeOK, NEW t \in Tasks, NEW owned \in SUBSET Sessions, Granted(t, owned)
  PROVE  Typed /\ Others(t) /\ GoesOn(t) /\ (t \in Conns => conn'[t].owned = owned)
<1>1. task \in [Tasks -> HandlerState] /\ conn \in [Tasks -> ConnectionState]
  BY DEF TypeOK
<1>2. CASE task[t].op = "terminate" \/ task[t].op = "tool"
  <2>1. PICK pc \in {"t_response", "tool_call"} : GoOwning(t, pc, owned)
    BY <1>2 DEF Granted, AfterAccess
  <2>2. pc \in PCs
    BY DEF PCs
  <2>3. Typed /\ Others(t) /\ Continues(t, pc) /\ conn'[t].owned = owned
    BY <2>1, <2>2, GoOwningEffect
  <2>4. task'[t].pc = pc
    BY <2>3 DEF Continues
  <2>5. Continues(t, task'[t].pc) /\ task'[t].pc \in {"t_response", "tool_call"}
    BY <2>3, <2>4
  <2> QED
    BY <2>3, <2>5 DEF GoesOn
<1>3. CASE task[t].op = "action" /\ ~ReturnOwning(t, owned)
  <2>1. /\ task' = [task EXCEPT ![t].pc = "authorize", ![t].op = "tool"]
        /\ conn' = [conn EXCEPT ![t].owned = owned]
    BY <1>3 DEF Granted, AfterAccess
  <2>. "authorize" \in PCs /\ "tool" \in Ops
    BY DEF PCs, Ops
  <2>2. task' \in [Tasks -> HandlerState]
    BY <1>1, <2>1 DEF HandlerState
  <2>3. conn' \in [Tasks -> ConnectionState] /\ conn'[t].owned = owned /\ SameConn(t)
    BY <1>1, <2>1 DEF ConnectionState, SameConn
  <2>4. /\ task'[t].pc = "authorize" /\ task'[t].op = "tool"
        /\ task'[t].sid = task[t].sid /\ task'[t].key = task[t].key
    BY <1>1, <2>1 DEF HandlerState
  <2>5. Others(t)
    BY <1>1, <2>1 DEF Others
  <2> QED
    BY <1>3, <2>2, <2>3, <2>4, <2>5 DEF Typed, GoesOn
<1>4. CASE ReturnOwning(t, owned)
  BY <1>4, ReturnOwningEffect DEF GoesOn
<1>5. CASE task[t].op \notin {"terminate", "tool", "action"}
  BY <1>4, <1>5 DEF Granted, AfterAccess
<1> QED
  BY <1>2, <1>3, <1>4, <1>5

(* Created announces the session, or goes on to record its route. *)
LEMMA CreatedEffect ==
  ASSUME TypeOK, NEW t \in Tasks, Sid(t) \in Sessions, Created(t)
  PROVE  /\ Typed /\ Others(t)
         /\ t \in Conns => conn'[t].owned = conn[t].owned \cup {Sid(t)}
         /\ \/ task[t].op = "create" /\ Ends(t) /\ announced' = announced \cup {Sid(t)}
            \/ task[t].op # "create" /\ Continues(t, "route") /\ announced' = announced
<1>1. conn[t].owned \cup {Sid(t)} \in SUBSET Sessions
  BY DEF TypeOK, ConnectionState
<1>2. "route" \in PCs
  BY DEF PCs
<1>3. CASE task[t].op = "create"
  BY <1>1, <1>3, ReturnOwningEffect DEF Created
<1>4. CASE task[t].op # "create"
  BY <1>1, <1>2, <1>4, GoOwningEffect DEF Created
<1> QED
  BY <1>3, <1>4

MapTypes ==
  /\ session_owners \in [Sessions -> Principals \cup {None}]
  /\ ws_response_senders \in [Sessions -> Mailboxes \cup {None}]
  /\ ws_priority_senders \in [Sessions -> Mailboxes \cup {None}]
  /\ channel_routes \in [Keys -> Sessions \cup {None}]
  /\ session_channel_routes \in [Sessions -> Keys \cup {None}]
  /\ channel_outbox \in [Keys -> Seq(Items)]
  /\ live \in [Sessions -> Principals \cup {None}]
  /\ tokens \subseteq Principals
  /\ forwarder \in ForwarderState
  /\ finals \in Nat
  /\ creator \in [Sessions -> Principals \cup {None}]
  /\ origin \in [Sessions -> Keys \cup {None}]
  /\ announced \subseteq Sessions

(* The types of the tasks follow from the effects above, those of the maps  *)
(* are proved action by action.                                             *)
LEMMA TypeParts ==
  /\ IInv => MapTypes /\ TypeOK
  /\ MapTypes' /\ Typed => TypeOK'
BY DEF IInv, TypeOK, MapTypes, Typed

HistoryKept ==
  \A s \in Sessions :
    creator[s] # None => creator'[s] = creator[s] /\ origin'[s] = origin[s]

(* A handler that has returned has no locals. *)
LEMMA EndsLocals ==
  ASSUME NEW t \in Tasks, Ends(t)
  PROVE  LocalsAt(t)'
BY DEF Ends, IdleTask, LocalsAt, At, Me, Key, Sid, RouteOps, RouteSteps,
       CreateSteps, SessionSteps, MappedSteps

(* A task that does not step keeps its locals right. *)
LEMMA OthersLocals ==
  ASSUME IInv, NEW t \in Tasks, NEW u \in Tasks \ {t}, Others(t), HistoryKept
  PROVE  LocalsAt(u)'
<1>1. LocalsAt(u)
  BY DEF IInv, Locals
<1>2. task'[u] = task[u] /\ conn'[u] = conn[u]
  BY DEF Others
<1>3. Sid(u) \in Sessions \cup {None}
  BY DEF IInv, TypeOK, HandlerState, Sid
<1>4. task[u].pc \in MappedSteps => Sid(u) \in Sessions /\ creator[Sid(u)] # None
  BY <1>1, GatewayAssumption DEF LocalsAt, MappedSteps, SessionSteps, CreateSteps,
     RouteSteps, PCs
<1> QED
  BY <1>1, <1>2, <1>3, <1>4 DEF LocalsAt, At, Me, Key, Sid, HistoryKept

(* A step of task t after which it deals with the session it dealt with,   *)
(* or with none.                                                           *)
Keeps(t) ==
  /\ Others(t)
  /\ task'[t].sid \in {Sid(t), None}
  /\ task'[t].pc \in CreateSteps =>
       task[t].pc \in CreateSteps /\ task'[t].sid = Sid(t)

(* It neither starts nor ends the creation or the termination of it.       *)
Moved(t) ==
  /\ Typed /\ Keeps(t) /\ LocalsAt(t)'
  /\ task'[t].pc # "own"
  /\ task'[t].pc \in TerminatingSteps =>
       task[t].pc \in TerminatingSteps /\ task'[t].sid = Sid(t)
  /\ Cancellable = {} =>
       /\ ~At(t, "own")
       /\ task[t].pc \in TerminatingSteps =>
            task'[t].pc \in TerminatingSteps /\ task'[t].sid = Sid(t)

(* The steps a handler can go on to without looking anything up. *)
Edge(from, pc) ==
  /\ {from, pc} \subseteq PCs \ {"idle"}
  /\ pc \in SessionSteps => from \in SessionSteps
  /\ pc \in MappedSteps => from \in MappedSteps
  /\ pc \in CreateSteps => from \in CreateSteps

(* Those that keep it in the same part of the code. *)
Inner(from, pc) ==
  /\ Edge(from, pc)
  /\ pc \in RouteSteps \cup {"new_session"} => from \in RouteSteps
  /\ "own" \notin {from, pc}
  /\ pc \in TerminatingSteps <=> from \in TerminatingSteps

(* A step along an edge keeps the locals right. *)
LEMMA EdgeLocals ==
  ASSUME IInv, NEW t \in Tasks, NEW from, NEW pc, At(t, from), Edge(from, pc),
         Continues(t, pc), HistoryKept,
         pc \in RouteSteps \cup {"new_session"} => task[t].op \in {"inbound", "action"}
  PROVE  LocalsAt(t)'
<1>1. LocalsAt(t)
  BY DEF IInv, Locals
<1>2. Sid(t) \in Sessions \cup {None}
  BY DEF IInv, TypeOK, HandlerState, Sid
<1>3. task[t].pc = from /\ from # "idle" /\ pc # "idle"
  BY DEF At, Edge
<1>4. task'[t] # IdleTask
  BY <1>3 DEF Continues, IdleTask
<1>5. /\ task'[t].pc = pc /\ task'[t].op = task[t].op
      /\ task'[t].sid = task[t].sid /\ task'[t].key = task[t].key
      /\ conn'[t].principal = conn[t].principal /\ conn'[t].status = conn[t].status
  BY DEF Continues, SameConn
<1>6. Sid(t) # None => /\ Sid(t) \in Sessions /\ creator[Sid(t)] # None
                       /\ creator'[Sid(t)] = creator[Sid(t)]
                       /\ origin'[Sid(t)] = origin[Sid(t)]
  BY <1>1, <1>2 DEF LocalsAt, HistoryKept
<1>7. pc \in MappedSteps => Sid(t) \in Sessions /\ Sid(t) # None
  BY <1>1, <1>3, GatewayAssumption DEF Edge, LocalsAt, MappedSteps, SessionSteps,
     CreateSteps, RouteSteps, PCs
<1>8. (At(t, "idle") <=> task[t] = IdleTask)'
  BY <1>3, <1>4, <1>5 DEF At
<1>9. /\ (~At(t, "idle") => Me(t) \in Principals)'
      /\ (~At(t, "idle") /\ t \in Conns => conn[t].status = "open")'
  BY <1>1, <1>3, <1>5 DEF LocalsAt, At, Me
<1>10. (IF task[t].op \in RouteOps
        THEN Key(t) \in Keys /\ Key(t).principal = Me(t)
        ELSE Key(t) = None)'
  BY <1>1, <1>5 DEF LocalsAt, Key, Me
<1>11. (task[t].pc \in RouteSteps => task[t].op \in {"inbound", "action"})'
  BY <1>5
<1>12. (task[t].pc \in CreateSteps \cup {"new_session"} =>
          task[t].op \in {"create", "inbound", "action"})'
  BY <1>1, <1>3, <1>5 DEF LocalsAt, Edge
<1>13. (task[t].pc \in SessionSteps => Sid(t) \in Sessions)'
  BY <1>1, <1>3, <1>5 DEF LocalsAt, Edge, Sid
<1>14. (Sid(t) # None => creator[Sid(t)] # None)'
  BY <1>5, <1>6 DEF Sid
<1>15. (task[t].pc \in MappedSteps =>
          origin[Sid(t)] = Key(t) /\ creator[Sid(t)] = Me(t))'
  BY <1>1, <1>3, <1>5, <1>6, <1>7 DEF LocalsAt, Edge, Sid, Key, Me
<1> QED
  BY <1>8, <1>9, <1>10, <1>11, <1>12, <1>13, <1>14, <1>15 DEF LocalsAt

(* A step along an edge keeps the session. *)
LEMMA EdgeKeeps ==
  ASSUME NEW t \in Tasks, NEW from, NEW pc, At(t, from), Edge(from, pc),
         Continues(t, pc), Others(t)
  PROVE  Keeps(t)
BY DEF Continues, Edge, Keeps, Sid, At

(* A step within one part of the code. *)
LEMMA InnerMoved ==
  ASSUME IInv, NEW t \in Tasks, NEW from, NEW pc, At(t, from), Inner(from, pc),
         Continues(t, pc), Typed, Others(t), HistoryKept
  PROVE  Moved(t)
<1>1. LocalsAt(t)
  BY DEF IInv, Locals
<1>2. Edge(from, pc) /\ task[t].pc = from
  BY DEF Inner, At
<1>3. pc \in RouteSteps \cup {"new_session"} => task[t].op \in {"inbound", "action"}
  BY <1>1, <1>2 DEF Inner, LocalsAt
<1>4. LocalsAt(t)' /\ Keeps(t)
  BY <1>2, <1>3, EdgeLocals, EdgeKeeps
<1> QED
  BY <1>2, <1>4 DEF Moved, Inner, Continues, Sid, At

(* A return from a handler that neither creates nor terminates. *)
LEMMA EndsMoved ==
  ASSUME IInv, NEW t \in Tasks, Ends(t), Typed, Others(t),
         Cancellable = {} => ~At(t, "own") /\ task[t].pc \notin TerminatingSteps
  PROVE  Moved(t)
<1>1. task'[t].sid = None /\ task'[t].pc = "idle"
  BY DEF Ends, IdleTask
<1> QED
  BY <1>1, EndsLocals DEF Moved, Keeps, CreateSteps, TerminatingSteps

(* A step after access has been granted. *)
LEMMA GoesOnMoved ==
  ASSUME IInv, NEW t \in Tasks, task[t].pc \in {"authorize", "bind", "bind_priority"},
         GoesOn(t), Typed, Others(t), HistoryKept
  PROVE  Moved(t)
<1>1. CASE Ends(t)
  BY <1>1, EndsMoved DEF At, TerminatingSteps
<1>2. CASE /\ task'[t].pc \in {"t_response", "tool_call"}
           /\ Continues(t, task'[t].pc)
  <2>1. Inner(task[t].pc, task'[t].pc)
    BY <1>2 DEF Inner, Edge, PCs, SessionSteps, MappedSteps, CreateSteps, RouteSteps,
       TerminatingSteps
  <2> QED
    BY <1>2, <2>1, InnerMoved DEF At
<1>3. CASE /\ task[t].op = "action"
           /\ task'[t].pc = "authorize" /\ task'[t].op = "tool"
           /\ task'[t].sid = task[t].sid /\ task'[t].key = task[t].key /\ SameConn(t)
  <2>1. LocalsAt(t)
    BY DEF IInv, Locals
  <2>2. Sid(t) \in Sessions
    BY <2>1 DEF LocalsAt, SessionSteps, PCs
  <2>3. creator'[Sid(t)] = creator[Sid(t)] /\ creator[Sid(t)] # None
    BY <2>1, <2>2, GatewayAssumption DEF LocalsAt, HistoryKept
  <2>4. task'[t] # IdleTask
    BY <1>3 DEF IdleTask
  <2>5. "authorize" \notin RouteSteps \cup CreateSteps \cup MappedSteps \cup TerminatingSteps
                             \cup {"new_session", "own", "idle"}
    BY DEF RouteSteps, CreateSteps, MappedSteps, TerminatingSteps
  <2>6. LocalsAt(t)'
    BY <1>3, <2>1, <2>2, <2>3, <2>4, <2>5
       DEF LocalsAt, At, Me, Key, Sid, RouteOps, SameConn
  <2>7. task[t].pc \notin TerminatingSteps /\ ~At(t, "own")
    BY DEF TerminatingSteps, At
  <2> QED
    BY <1>3, <2>5, <2>6, <2>7 DEF Moved, Keeps, Sid
<1> QED
  BY <1>1, <1>2, <1>3 DEF GoesOn

----------------------------------------------------------------------------
(* The parts of IInv a step cannot disturb *)

(* It is enough to look at the task that steps. *)
LEMMA LocalsFrom ==
  ASSUME IInv, NEW t \in Tasks, Others(t), HistoryKept, LocalsAt(t)'
  PROVE  Locals'
BY OthersLocals DEF Locals

(* Exclusive holds as long as no session is announced or routed. *)
LEMMA ExclusiveFrom ==
  ASSUME IInv, NEW t \in Tasks, Keeps(t), HistoryKept, announced' = announced,
         \A k \in Keys : channel_routes'[k] \in {channel_routes[k], None}
  PROVE  Exclusive'
<1>1. ASSUME NEW u \in Tasks, (task[u].pc \in CreateSteps)'
      PROVE  task[u].pc \in CreateSteps /\ Sid(u)' = Sid(u) /\ Sid(u) # None
  <2>1. CASE u = t
    <3>1. LocalsAt(t) /\ task[t].pc \in CreateSteps /\ Sid(u)' = Sid(u)
      BY <1>1, <2>1 DEF Keeps, IInv, Locals, Sid
    <3> QED
      BY <2>1, <3>1, GatewayAssumption DEF LocalsAt, CreateSteps, SessionSteps, PCs
  <2>2. CASE u # t
    <3>1. LocalsAt(u) /\ task'[u] = task[u]
      BY <2>2 DEF Keeps, Others, IInv, Locals
    <3> QED
      BY <1>1, <3>1, GatewayAssumption DEF LocalsAt, CreateSteps, SessionSteps, PCs, Sid
  <2> QED
    BY <2>1, <2>2
<1>2. ASSUME NEW u \in Tasks PROVE Sid(u)' \in {Sid(u), None}
  BY DEF Keeps, Others, Sid
<1>3. ASSUME NEW u \in Tasks, (task[u].pc \in CreateSteps)'
      PROVE  /\ Sid(u)' \notin announced'
             /\ \A k \in Keys : channel_routes'[k] # Sid(u)'
             /\ \A v \in Tasks \ {u} : Sid(v)' # Sid(u)'
  <2>1. /\ Sid(u) \notin announced
        /\ \A k \in Keys : channel_routes[k] # Sid(u)
        /\ \A v \in Tasks \ {u} : Sid(v) # Sid(u)
    BY <1>1, <1>3 DEF IInv, Exclusive
  <2> QED
    BY <1>1, <1>2, <1>3, <2>1
<1>4. \A s \in announced' : creator'[s] # None
  BY DEF IInv, TypeOK, Exclusive, HistoryKept
<1> QED
  BY <1>3, <1>4 DEF Exclusive

(* Ownership holds as long as its maps do not change. *)
LEMMA OwnershipFrom ==
  ASSUME IInv, NEW t \in Tasks, Moved(t), HistoryKept,
         session_owners' = session_owners, live' = live, creator' = creator
  PROVE  Ownership'
<1>1. Ownership
  BY DEF IInv
<1>2. Cancellable = {} => NoOrphans'
  <2> SUFFICES ASSUME Cancellable = {}, NEW s \in Sessions, live[s] # None,
                      session_owners[s] = None
               PROVE  (\E u \in Tasks : Creating(u, s) \/ Terminating(u, s))'
    BY DEF NoOrphans
  <2>1. PICK u \in Tasks : Creating(u, s) \/ Terminating(u, s)
    BY <1>1 DEF Ownership, NoOrphans
  <2>2. (Creating(u, s) \/ Terminating(u, s))'
    BY <2>1 DEF Moved, Keeps, Others, Creating, Terminating, TerminatingSteps, Sid, At
  <2> QED
    BY <2>2
<1>3. ASSUME NEW u \in Tasks
      PROVE  /\ At(u, "own") => live[Sid(u)] = Me(u)
             /\ task[u].pc \in TerminatingSteps => session_owners[Sid(u)] = None
  BY <1>1 DEF Ownership
<1>4. ASSUME NEW u \in Tasks
      PROVE  /\ (At(u, "own") => live[Sid(u)] = Me(u))'
             /\ (task[u].pc \in TerminatingSteps => session_owners[Sid(u)] = None)'
  <2>1. CASE u = t
    BY <1>3, <2>1 DEF Moved, At, Sid
  <2>2. CASE u # t
    BY <1>3, <2>2 DEF Moved, Keeps, Others, At, Sid, Me
  <2> QED
    BY <2>1, <2>2
<1> QED
  BY <1>1, <1>2, <1>4 DEF Ownership, OwnedIsLive

(* Isolation holds as long as routes, index and outboxes lose entries only. *)
LEMMA IsolationFrom ==
  ASSUME IInv, creator' = creator, origin' = origin, forwarder' = forwarder,
         \A k \in Keys : channel_routes'[k] \in {channel_routes[k], None},
         \A s \in Sessions :
           session_channel_routes'[s] \in {session_channel_routes[s], None},
         \A k \in Keys : channel_outbox'[k] \in {channel_outbox[k], <<>>}
  PROVE  Isolation'
<1>1. Isolation
  BY DEF IInv
<1>2. RoutesIsolated'
  BY <1>1, GatewayAssumption DEF Isolation, RoutesIsolated
<1>3. ASSUME NEW k \in Keys, NEW i \in DOMAIN channel_outbox'[k]
      PROVE  i \in DOMAIN channel_outbox[k] /\ channel_outbox'[k] = channel_outbox[k]
  BY <1>3
<1>4. OutboxIsolated'
  BY <1>1, <1>3 DEF Isolation, OutboxIsolated
<1>5. \A k \in Keys : \A i \in DOMAIN channel_outbox'[k] :
        creator'[channel_outbox'[k][i].session] # None
  BY <1>1, <1>3 DEF Isolation
<1> QED
  BY <1>1, <1>2, <1>4, <1>5 DEF Isolation

Fixed ==
  /\ session_owners' = session_owners /\ live' = live
  /\ creator' = creator /\ origin' = origin
  /\ announced' = announced /\ forwarder' = forwarder
  /\ \A k \in Keys : /\ channel_routes'[k] \in {channel_routes[k], None}
                     /\ channel_outbox'[k] \in {channel_outbox[k], <<>>}
  /\ \A s \in Sessions :
       session_channel_routes'[s] \in {session_channel_routes[s], None}

(* A step of one task that leaves the maps of Fixed alone keeps IInv. *)
LEMMA FixedNext ==
  ASSUME IInv, NEW t \in Tasks, Moved(t), Fixed, MapTypes'
  PROVE  IInv'
<1>1. HistoryKept
  BY DEF HistoryKept, Fixed
<1>2. TypeOK'
  BY TypeParts DEF Moved
<1>3. Locals'
  BY <1>1, LocalsFrom DEF Moved, Keeps
<1>4. Exclusive'
  BY <1>1, ExclusiveFrom DEF Moved, Fixed
<1>5. Ownership'
  BY <1>1, OwnershipFrom DEF Fixed
<1>6. Isolation'
  BY IsolationFrom DEF Fixed
<1> QED
  BY <1>2, <1>3, <1>4, <1>5, <1>6 DEF IInv

----------------------------------------------------------------------------
(* Steps that change a mailbox, a route, an outbox or nothing *)

(* The steps that keep a handler in the same part of the code. *)
LEMMA InnerSteps ==
  /\ Inner("authorize", "bind") /\ Inner("bind", "bind_priority")
  /\ Inner("own_response", "own_priority")
  /\ Inner("t_response", "t_priority") /\ Inner("f_response", "f_priority")
  /\ Inner("t_priority", "t_owner") /\ Inner("f_priority", "f_owner")
  /\ Inner("t_routes", "t_index") /\ Inner("t_index", "t_runner")
  /\ Inner("t_index", "t_outbox") /\ Inner("t_outbox", "t_runner")
  /\ Inner("f_route", "f_index") /\ Inner("s_route", "s_index")
  /\ Inner("f_index", "f_outbox") /\ Inner("s_index", "new_session")
  /\ Inner("f_outbox", "f_response")
  /\ Inner("check_owner", "index") /\ Inner("check_owner", "s_route")
  /\ Inner("index", "authorize")
BY DEF Inner, Edge, PCs, SessionSteps, MappedSteps, CreateSteps, RouteSteps, TerminatingSteps

(* Such a step keeps IInv. *)
LEMMA InnerNext ==
  ASSUME IInv, NEW t \in Tasks, NEW from, NEW pc, At(t, from), Inner(from, pc),
         Go(t, pc), Fixed, MapTypes'
  PROVE  IInv'
<1>1. pc \in PCs
  BY DEF Inner, Edge
<1>2. Typed /\ Others(t) /\ Continues(t, pc)
  BY <1>1, GoEffect, TypeParts
<1>3. HistoryKept
  BY DEF HistoryKept, Fixed
<1> QED
  BY <1>2, <1>3, InnerMoved, FixedNext

(* A handler binds its connection, the mailbox of a tool call, or nothing. *)
LEMMA MailboxTyped ==
  ASSUME NEW t \in Tasks
  PROVE  Mailbox(t) \in Mailboxes \cup {None}
BY DEF Mailbox, Mailboxes

(* Binding a sender disturbs nothing of IInv. *)
LEMMA BindResponsesNext ==
  ASSUME IInv, NEW t \in Tasks, BindResponses(t) PROVE IInv'
<1>1. Fixed /\ MapTypes'
  BY TypeParts, MailboxTyped DEF BindResponses, Fixed, MapTypes, channels, runner, outside
<1> QED
  BY <1>1, InnerSteps, InnerNext DEF BindResponses

(* Nor does binding the creator of a session, *)
LEMMA InsertResponseSenderNext ==
  ASSUME IInv, NEW t \in Tasks, InsertResponseSender(t) PROVE IInv'
<1>1. Fixed /\ MapTypes'
  BY TypeParts, MailboxTyped 
     DEF InsertResponseSender, Fixed, MapTypes, channels, runner, outside
<1> QED
  BY <1>1, InnerSteps, InnerNext DEF InsertResponseSender

(* nor the removal of a sender, *)
LEMMA RemoveResponseSenderNext ==
  ASSUME IInv, NEW t \in Tasks, RemoveResponseSender(t) PROVE IInv'
<1>1. Fixed /\ MapTypes'
  BY TypeParts DEF RemoveResponseSender, Fixed, MapTypes, channels, runner, outside
<1> QED
  BY <1>1, InnerSteps, InnerNext DEF RemoveResponseSender

(* on either of its two maps. *)
LEMMA RemovePrioritySenderNext ==
  ASSUME IInv, NEW t \in Tasks, RemovePrioritySender(t) PROVE IInv'
<1>1. Fixed /\ MapTypes'
  BY TypeParts DEF RemovePrioritySender, Fixed, MapTypes, channels, runner, outside
<1> QED
  BY <1>1, InnerSteps, InnerNext DEF RemovePrioritySender

(* The reverse index loses an entry. *)
LEMMA UnindexTerminatedNext ==
  ASSUME IInv, NEW t \in Tasks, UnindexTerminated(t) PROVE IInv'
<1>1. Fixed /\ MapTypes'
  BY TypeParts DEF UnindexTerminated, Fixed, MapTypes, registry, runner, outside
<1>2. Go(t, "t_runner") \/ Go(t, "t_outbox")
  BY DEF UnindexTerminated
<1> QED
  BY <1>1, <1>2, InnerSteps, InnerNext DEF UnindexTerminated

(* Outboxes are emptied. *)
LEMMA DiscardOutboxesNext ==
  ASSUME IInv, NEW t \in Tasks, DiscardOutboxes(t) PROVE IInv'
<1>1. Fixed /\ MapTypes'
  BY TypeParts DEF DiscardOutboxes, Fixed, MapTypes, registry, runner, outside
<1> QED
  BY <1>1, InnerSteps, InnerNext DEF DiscardOutboxes

(* A route loses its session. *)
LEMMA RemoveRouteNext ==
  ASSUME IInv, NEW t \in Tasks, RemoveRoute(t) PROVE IInv'
<1>1. Fixed /\ MapTypes'
  BY TypeParts DEF RemoveRoute, Fixed, MapTypes, registry, runner, outside
<1> QED
  BY <1>1, InnerSteps, InnerNext DEF RemoveRoute

(* The reverse index loses the entry of a replaced session. *)
LEMMA UnindexReplacedNext ==
  ASSUME IInv, NEW t \in Tasks, UnindexReplaced(t) PROVE IInv'
<1>1. Fixed /\ MapTypes'
  BY TypeParts DEF UnindexReplaced, Fixed, MapTypes, registry, runner, outside
<1> QED
  BY <1>1, InnerSteps, InnerNext DEF UnindexReplaced

(* The outbox of a replaced session is emptied. *)
LEMMA DiscardOutboxNext ==
  ASSUME IInv, NEW t \in Tasks, DiscardOutbox(t) PROVE IInv'
<1>1. channel_outbox \in [Keys -> Seq(Items)] /\ <<>> \in Seq(Items)
  BY TypeParts DEF MapTypes
<1>2. channel_outbox' = [channel_outbox EXCEPT ![Key(t)] = <<>>]
  BY DEF DiscardOutbox
<1>3. /\ channel_outbox' \in [Keys -> Seq(Items)]
      /\ \A k \in Keys : channel_outbox'[k] \in {channel_outbox[k], <<>>}
  BY <1>1, <1>2
<1>4. Fixed /\ MapTypes'
  BY <1>3, TypeParts DEF DiscardOutbox, Fixed, MapTypes, registry, runner, outside
<1> QED
  BY <1>4, InnerSteps, InnerNext DEF DiscardOutbox

(* Nothing but the task and its connection changes. *)
Still == UNCHANGED <<registry, channels, runner, outside, announced>>

(* Such a step leaves the maps alone. *)
LEMMA StillFixed ==
  ASSUME IInv, Still
  PROVE  Fixed /\ HistoryKept /\ MapTypes'
<1>1. Fixed /\ HistoryKept
  BY DEF Still, Fixed, HistoryKept, registry, channels, runner, outside
<1>2. MapTypes'
  BY TypeParts DEF Still, MapTypes, registry, channels, runner, outside
<1> QED
  BY <1>1, <1>2

(* A look at the owner decides where the handler goes on. *)
LEMMA CheckOwnerNext ==
  ASSUME IInv, NEW t \in Tasks, CheckOwner(t) PROVE IInv'
<1>1. Go(t, "index") \/ Go(t, "s_route")
  BY DEF CheckOwner
<1> QED
  BY <1>1, StillFixed, InnerSteps, InnerNext DEF CheckOwner, Still

(* A return that abandons no session keeps IInv. *)
LEMMA ReturnNext ==
  ASSUME IInv, NEW t \in Tasks, Return(t), Still,
         Cancellable = {} => ~At(t, "own") /\ task[t].pc \notin TerminatingSteps
  PROVE  IInv'
<1>1. Moved(t)
  BY ReturnEffect, EndsMoved, TypeParts
<1> QED
  BY <1>1, StillFixed, FixedNext

(* A failed creation leaves nothing behind. *)
LEMMA NewSessionFailsNext ==
  ASSUME IInv, NEW t \in Tasks, NewSessionFails(t) PROVE IInv'
<1>1. Return(t) /\ Still /\ At(t, "new_session")
  BY DEF NewSessionFails, Still
<1> QED
  BY <1>1, ReturnNext DEF At, TerminatingSteps

(* The handler of a tool call returns. *)
LEMMA ToolCallNext ==
  ASSUME IInv, NEW t \in Tasks, ToolCall(t) PROVE IInv'
<1>1. Return(t) /\ Still /\ At(t, "tool_call")
  BY DEF ToolCall, Still
<1> QED
  BY <1>1, ReturnNext DEF At, TerminatingSteps

(* A dropped handler may abandon its session, which IInv then allows. *)
LEMMA CancelNext ==
  ASSUME IInv, NEW t \in Cancellable, Cancel(t) PROVE IInv'
<1>1. Return(t) /\ Still /\ Cancellable # {} /\ t \in Tasks
  BY GatewayAssumption DEF Cancel, Still, Tasks
<1> QED
  BY <1>1, ReturnNext

(* Granting access keeps IInv. *)
LEMMA GrantedNext ==
  ASSUME IInv, NEW t \in Tasks, NEW owned \in SUBSET Sessions, Granted(t, owned),
         task[t].pc \in {"authorize", "bind", "bind_priority"}, Fixed, MapTypes'
  PROVE  IInv'
<1>1. HistoryKept
  BY DEF HistoryKept, Fixed
<1>2. Moved(t)
  BY <1>1, GrantedEffect, GoesOnMoved, TypeParts
<1> QED
  BY <1>2, FixedNext

(* What a task owns are sessions. *)
LEMMA OwnedTyped ==
  ASSUME IInv, NEW t \in Tasks
  PROVE  conn[t].owned \in SUBSET Sessions
BY DEF IInv, TypeOK, ConnectionState

(* A task at a step that uses its session has one, and a principal. *)
LEMMA SidTyped ==
  ASSUME IInv, NEW t \in Tasks, task[t].pc \in SessionSteps
  PROVE  Sid(t) \in Sessions /\ creator[Sid(t)] # None /\ Me(t) \in Principals
<1>1. LocalsAt(t) /\ task[t].pc # "idle"
  BY DEF IInv, Locals, SessionSteps
<1>2. Sid(t) \in Sessions /\ Me(t) \in Principals
  BY <1>1 DEF LocalsAt, At
<1> QED
  BY <1>1, <1>2, GatewayAssumption DEF LocalsAt

(* Access to a session the connection has in owned_sessions. *)
LEMMA AuthorizeOwnedNext ==
  ASSUME IInv, NEW t \in Tasks, AuthorizeOwned(t) PROVE IInv'
<1>1. Still
  BY DEF AuthorizeOwned, Still
<1>2. CASE Mailbox(t) = None
  BY <1>1, <1>2, StillFixed, OwnedTyped, GrantedNext DEF AuthorizeOwned, At
<1>3. CASE Mailbox(t) # None
  BY <1>1, <1>3, StillFixed, InnerSteps, InnerNext DEF AuthorizeOwned
<1> QED
  BY <1>2, <1>3

(* Access by the owner on record, or a refusal. *)
LEMMA AuthorizeByOwnerNext ==
  ASSUME IInv, NEW t \in Tasks, AuthorizeByOwner(t) PROVE IInv'
<1>1. Still /\ At(t, "authorize")
  BY DEF AuthorizeByOwner, Still
<1>2. Sid(t) \in Sessions
  BY <1>1, SidTyped DEF At, SessionSteps, PCs
<1> DEFINE owned == conn[t].owned \cup {Sid(t)}
<1>3. owned \in SUBSET Sessions
  BY <1>2, OwnedTyped
<1>4. \/ Granted(t, owned)
      \/ GoOwning(t, "bind", owned)
      \/ Return(t)
  BY DEF AuthorizeByOwner
<1> HIDE DEF owned
<1>5. CASE Granted(t, owned)
  BY <1>1, <1>3, <1>5, StillFixed, GrantedNext DEF At
<1>6. CASE GoOwning(t, "bind", owned)
  <2>1. "bind" \in PCs
    BY DEF PCs
  <2>2. Typed /\ Others(t) /\ Continues(t, "bind")
    BY <1>3, <1>6, <2>1, GoOwningEffect, TypeParts
  <2> QED
    BY <1>1, <2>2, StillFixed, InnerSteps, InnerMoved, FixedNext
<1>7. CASE Return(t)
  BY <1>1, <1>7, ReturnNext DEF At, TerminatingSteps
<1> QED
  BY <1>4, <1>5, <1>6, <1>7

(* The second sender is bound and the handler goes on. *)
LEMMA BindPriorityNext ==
  ASSUME IInv, NEW t \in Tasks, BindPriority(t) PROVE IInv'
<1>1. Fixed /\ MapTypes'
  BY TypeParts, MailboxTyped DEF BindPriority, Fixed, MapTypes, channels, runner, outside
<1> QED
  BY <1>1, OwnedTyped, GrantedNext DEF BindPriority, At

(* A termination takes the routes of its session out. *)
LEMMA RetainRoutesNext ==
  ASSUME IInv, NEW t \in Tasks, RetainRoutes(t) PROVE IInv'
<1>1. Fixed /\ MapTypes'
  BY TypeParts DEF RetainRoutes, Fixed, MapTypes, registry, runner, outside
<1>2. task \in [Tasks -> HandlerState] /\ conn \in [Tasks -> ConnectionState]
  BY TypeParts DEF TypeOK
<1>3. PICK removed \in SUBSET Keys :
        task' = [task EXCEPT ![t].pc = "t_index", ![t].removed = removed]
  BY DEF RetainRoutes
<1>4. conn' = conn /\ At(t, "t_routes")
  BY DEF RetainRoutes
<1>5. "t_index" \in PCs
  BY DEF PCs
<1>6. task' \in [Tasks -> HandlerState]
  BY <1>2, <1>3, <1>5 DEF HandlerState
<1>7. Typed /\ Others(t)
  BY <1>2, <1>3, <1>4, <1>6 DEF Typed, Others
<1>8. Continues(t, "t_index")
  BY <1>2, <1>3, <1>4 DEF Continues, SameConn, HandlerState
<1>9. HistoryKept
  BY <1>1 DEF Fixed, HistoryKept
<1> QED
  BY <1>1, <1>4, <1>7, <1>8, <1>9, InnerSteps, InnerMoved, FixedNext

----------------------------------------------------------------------------
(* Connections, and the start of a handler *)

(* A connection between two messages changes only its ConnectionState. *)
LEMMA IdleConnNext ==
  ASSUME IInv, NEW c \in Conns, At(c, "idle"), task' = task,
         conn' \in [Tasks -> ConnectionState],
         \A u \in Tasks \ {c} : conn'[u] = conn[u],
         Fixed, MapTypes'
  PROVE  IInv'
<1>1. c \in Tasks
  BY DEF Tasks
<1>2. task \in [Tasks -> HandlerState]
  BY TypeParts DEF TypeOK
<1>3. LocalsAt(c) /\ task[c] = IdleTask
  BY <1>1 DEF IInv, Locals, LocalsAt
<1>4. LocalsAt(c)'
  BY <1>3 DEF IdleTask, LocalsAt, At, Me, Key, Sid, RouteOps, RouteSteps,
     CreateSteps, SessionSteps, MappedSteps
<1>5. Typed /\ Others(c)
  BY <1>2 DEF Typed, Others
<1>6. task[c].pc = "idle" /\ task[c].sid = None
  BY <1>3 DEF IdleTask
<1>7. Moved(c)
  BY <1>4, <1>5, <1>6 DEF Moved, Keeps, CreateSteps, TerminatingSteps, At, Sid
<1> QED
  BY <1>1, <1>7, FixedNext

(* The upgrade of a connection. *)
LEMMA OpenNext ==
  ASSUME IInv, NEW c \in Conns, Open(c) PROVE IInv'
<1>1. conn \in [Tasks -> ConnectionState] /\ c \in Tasks
  BY TypeParts DEF TypeOK, Tasks
<1>2. LocalsAt(c)
  BY <1>1 DEF IInv, Locals
<1>3. At(c, "idle")
  BY <1>1, <1>2 DEF Open, LocalsAt
<1>4. PICK p \in Principals \cup {None}, k \in SUBSET Principals :
        conn' = [conn EXCEPT ![c].status = "open", ![c].principal = p, ![c].known = k]
  BY GatewayAssumption DEF Open
<1>5. conn' \in [Tasks -> ConnectionState]
  BY <1>1, <1>4 DEF ConnectionState
<1>6. \A u \in Tasks \ {c} : conn'[u] = conn[u]
  BY <1>1, <1>4
<1>7. Still /\ task' = task
  BY DEF Open, Still
<1> QED
  BY <1>3, <1>5, <1>6, <1>7, StillFixed, IdleConnNext

(* Pair and Authenticate set the principal of an idle connection. *)
LEMMA IdentifyNext ==
  ASSUME IInv, NEW c \in Conns, NEW p \in Principals, Identify(c, p),
         tokens' \subseteq Principals
  PROVE  IInv'
<1>1. conn \in [Tasks -> ConnectionState] /\ c \in Tasks
  BY TypeParts DEF TypeOK, Tasks
<1>2. conn' = [conn EXCEPT ![c].principal = p, ![c].auths = @ + 1,
                           ![c].known = @ \cup {p}]
  BY DEF Identify
<1>3. conn' \in [Tasks -> ConnectionState]
  BY <1>1, <1>2 DEF ConnectionState
<1>4. \A u \in Tasks \ {c} : conn'[u] = conn[u]
  BY <1>1, <1>2
<1>5. At(c, "idle") /\ task' = task
  BY DEF Identify, Ready
<1>6. Fixed
  BY DEF Identify, Fixed, registry, channels, runner
<1>7. MapTypes'
  BY TypeParts DEF Identify, MapTypes, registry, channels, runner
<1> QED
  BY <1>3, <1>4, <1>5, <1>6, <1>7, IdleConnNext

(* Whoever is admitted is a principal. *)
LEMMA AdmittedTyped == ASSUME IInv PROVE Admitted \subseteq Principals
BY GatewayAssumption, TypeParts DEF Admitted, MapTypes

(* An idle connection identifies itself. *)
LEMMA PairNext ==
  ASSUME IInv, NEW c \in Conns, Pair(c) \/ Authenticate(c) PROVE IInv'
<1>1. tokens \subseteq Principals
  BY TypeParts DEF MapTypes
<1>2. CASE Pair(c)
  <2>1. PICK p \in Principals : Identify(c, p) /\ tokens' \subseteq Principals
    BY <1>1, <1>2, GatewayAssumption DEF Pair
  <2> QED
    BY <2>1, IdentifyNext
<1>3. CASE Authenticate(c)
  <2>1. PICK p \in Principals : Identify(c, p) /\ tokens' = tokens
    BY <1>3, AdmittedTyped DEF Authenticate
  <2> QED
    BY <1>1, <2>1, IdentifyNext
<1> QED
  BY <1>2, <1>3

(* A connection closes between two messages. *)
LEMMA CloseNext ==
  ASSUME IInv, NEW c \in Conns, Close(c) PROVE IInv'
<1>1. conn \in [Tasks -> ConnectionState] /\ c \in Tasks
  BY TypeParts DEF TypeOK, Tasks
<1>2. conn' = [conn EXCEPT ![c].status = "closed", ![c].owned = {}]
  BY DEF Close
<1>3. conn' \in [Tasks -> ConnectionState]
  BY <1>1, <1>2 DEF ConnectionState
<1>4. \A u \in Tasks \ {c} : conn'[u] = conn[u]
  BY <1>1, <1>2
<1>5. At(c, "idle") /\ task' = task
  BY DEF Close, Ready
<1>6. Fixed
  BY DEF Close, Fixed, channels, runner, outside
<1>7. MapTypes'
  BY TypeParts DEF Close, MapTypes, channels, runner, outside
<1> QED
  BY <1>3, <1>4, <1>5, <1>6, <1>7, IdleConnNext

(* The first step of a handler that names no session yet. *)
LEMMA BeginNext ==
  ASSUME IInv, NEW t \in Tasks, At(t, "idle"), Typed, Others(t), Still,
         LocalsAt(t)', task'[t].sid = None,
         task'[t].pc \in {"new_session", "read_route"}
  PROVE  IInv'
<1>1. task[t].pc = "idle"
  BY DEF At
<1>2. Moved(t)
  BY <1>1 DEF Moved, Keeps, CreateSteps, TerminatingSteps, At
<1> QED
  BY <1>2, StillFixed, FixedNext

(* An idle task has the locals of no handler. *)
LEMMA IdleLocals ==
  ASSUME IInv, NEW t \in Tasks, At(t, "idle")
  PROVE  task[t] = IdleTask
BY DEF IInv, Locals, LocalsAt

(* CreateSession starts without a session. *)
LEMMA BeginCreateNext ==
  ASSUME IInv, NEW c \in Conns, BeginCreate(c) PROVE IInv'
<1>1. /\ task \in [Tasks -> HandlerState] /\ conn \in [Tasks -> ConnectionState]
      /\ c \in Tasks
  BY TypeParts DEF TypeOK, Tasks
<1>2. /\ task' = [task EXCEPT ![c].pc = "new_session", ![c].op = "create"]
      /\ conn' = conn /\ Me(c) # None /\ conn[c].status = "open" /\ At(c, "idle")
  BY DEF BeginCreate, Ready
<1>3. "new_session" \in PCs /\ "create" \in Ops
  BY DEF PCs, Ops
<1>4. task' \in [Tasks -> HandlerState]
  BY <1>1, <1>2, <1>3 DEF HandlerState
<1>5. Typed /\ Others(c)
  BY <1>1, <1>2, <1>4 DEF Typed, Others
<1>6. Me(c) \in Principals
  BY <1>1, <1>2 DEF Me, ConnectionState
<1>7. task[c].sid = None /\ task[c].key = None
  BY <1>1, <1>2, IdleLocals DEF IdleTask
<1>8. /\ task'[c].pc = "new_session" /\ task'[c].op = "create"
      /\ task'[c].sid = None /\ task'[c].key = None
  BY <1>1, <1>2, <1>7 DEF HandlerState
<1>11. task'[c] # IdleTask
  BY <1>8 DEF IdleTask
<1>12. /\ "new_session" \notin RouteSteps \cup SessionSteps \cup MappedSteps
       /\ "create" \notin RouteOps
  BY DEF RouteOps, RouteSteps, CreateSteps, SessionSteps, MappedSteps
<1>9. LocalsAt(c)'
  BY <1>2, <1>6, <1>8, <1>11, <1>12 DEF LocalsAt, At, Me, Key, Sid
<1>10. Still
  BY DEF BeginCreate, Still
<1> QED
  BY <1>1, <1>2, <1>5, <1>8, <1>9, <1>10, BeginNext

(* An inbound message of a connection or a request. *)
LEMMA InboundNext ==
  ASSUME IInv, NEW t \in Tasks, NEW p \in Principals, NEW e \in Externals,
         NEW op \in {"inbound", "action"}, NEW force \in BOOLEAN,
         At(t, "idle"), BeginInbound(t, p, e, op, force), Still,
         conn' \in [Tasks -> ConnectionState],
         \A u \in Tasks \ {t} : conn'[u] = conn[u],
         conn'[t].principal = p, t \in Conns => conn'[t].status = "open"
  PROVE  IInv'
<1>1. task \in [Tasks -> HandlerState]
  BY TypeParts DEF TypeOK
<1> DEFINE k == [principal |-> p, external |-> e]
<1>2. task' = [task EXCEPT ![t].pc = "read_route", ![t].op = op,
                           ![t].key = k, ![t].force = force]
  BY DEF BeginInbound
<1>3. k \in Keys /\ k.principal = p
  BY DEF Keys
<1>4. "read_route" \in PCs /\ op \in Ops
  BY DEF PCs, Ops
<1> HIDE DEF k
<1> DEFINE h == [task[t] EXCEPT !.pc = "read_route", !.op = op, !.key = k, !.force = force]
<1>10. h \in HandlerState
  BY <1>1, <1>3, <1>4 DEF HandlerState
<1>11. task' = [task EXCEPT ![t] = h]
  BY <1>1, <1>2
<1> HIDE DEF h
<1>5. task' \in [Tasks -> HandlerState]
  BY <1>1, <1>10, <1>11
<1>6. Typed /\ Others(t)
  BY <1>1, <1>5, <1>11 DEF Typed, Others
<1>7. task[t].sid = None
  BY IdleLocals DEF IdleTask
<1>8. /\ task'[t].pc = "read_route" /\ task'[t].op = op
      /\ task'[t].sid = None /\ task'[t].key = k
  BY <1>1, <1>2, <1>7 DEF HandlerState
<1>9. LocalsAt(t)'
  BY <1>3, <1>8 DEF LocalsAt, At, Me, Key, Sid, IdleTask, RouteOps, RouteSteps,
     CreateSteps, SessionSteps, MappedSteps
<1> QED
  BY <1>6, <1>8, <1>9, BeginNext

(* ChannelInbound on a WebSocket. *)
LEMMA ConnInboundNext ==
  ASSUME IInv, NEW c \in Conns, NEW e \in Externals, ConnInbound(c, e) PROVE IInv'
<1>1. conn \in [Tasks -> ConnectionState] /\ c \in Tasks
  BY TypeParts DEF TypeOK, Tasks
<1>2. Me(c) \in Principals /\ conn[c].principal = Me(c)
  BY <1>1 DEF ConnInbound, Me, ConnectionState
<1>3. /\ At(c, "idle") /\ conn[c].status = "open" /\ conn' = conn
      /\ BeginInbound(c, Me(c), e, "inbound", FALSE) /\ Still
  BY DEF ConnInbound, Ready, Still
<1> QED
  BY <1>1, <1>2, <1>3, InboundNext

(* An inbound message, a job tick or a webhook with a ConnectionState of its*)
(* own.                                                                     *)
LEMMA RequestNext ==
  ASSUME IInv, NEW r \in Reqs, NEW e \in Externals, Request(r, e) PROVE IInv'
<1>1. conn \in [Tasks -> ConnectionState] /\ r \in Tasks /\ r \notin Conns
  BY TypeParts, GatewayAssumption DEF TypeOK, Tasks
<1>2. PICK p \in Principals :
        /\ conn' = [conn EXCEPT ![r].principal = p, ![r].owned = {}, ![r].known = {p}]
        /\ \E op \in {"inbound", "action"}, force \in BOOLEAN :
             BeginInbound(r, p, e, op, force)
  BY AdmittedTyped DEF Request
<1>3. PICK op \in {"inbound", "action"}, force \in BOOLEAN :
        BeginInbound(r, p, e, op, force)
  BY <1>2
<1>4. conn' \in [Tasks -> ConnectionState] /\ conn'[r].principal = p
  BY <1>1, <1>2 DEF ConnectionState
<1>5. \A u \in Tasks \ {r} : conn'[u] = conn[u]
  BY <1>1, <1>2
<1>6. At(r, "idle") /\ Still
  BY DEF Request, Still
<1> QED
  BY <1>1, <1>3, <1>4, <1>5, <1>6, InboundNext

----------------------------------------------------------------------------
(* The creation of a session *)

(* A session under creation is not in any map or local but its creator's.  *)
LEMMA FreshSession ==
  ASSUME IInv, NEW s \in Sessions, creator[s] = None
  PROVE  /\ s \notin announced /\ live[s] = None /\ session_owners[s] = None
         /\ \A k \in Keys : channel_routes[k] # s
         /\ session_channel_routes[s] = None
         /\ \A u \in Tasks : Sid(u) # s
<1>1. s # None
  BY GatewayAssumption
<1>2. s \notin announced
  BY DEF IInv, Exclusive
<1>3. live[s] = None /\ session_owners[s] = None
  BY DEF IInv, Ownership, OwnedIsLive
<1>4. ASSUME NEW k \in Keys PROVE channel_routes[k] # s
  <2>1. k.principal \in Principals
    BY DEF Keys
  <2> QED
    BY <2>1, GatewayAssumption DEF IInv, Isolation, RoutesIsolated
<1>5. session_channel_routes[s] = None
  <2>1. session_channel_routes[s] \in Keys \cup {None}
    BY TypeParts DEF MapTypes
  <2>2. origin[s] = None
    BY DEF IInv, Isolation
  <2> QED
    BY <2>1, <2>2, GatewayAssumption DEF IInv, Isolation, RoutesIsolated
<1>6. ASSUME NEW u \in Tasks PROVE Sid(u) # s
  BY <1>1 DEF IInv, Locals, LocalsAt
<1> QED
  BY <1>2, <1>3, <1>4, <1>5, <1>6

(* The new session is known to its creator only, so no map names it and no  *)
(* other task disturbs what follows.                                        *)
LEMMA NewSessionNext ==
  ASSUME IInv, NEW t \in Tasks, NewSession(t) PROVE IInv'
<1>1. PICK s \in Sessions :
        /\ creator[s] = None
        /\ live' = [live EXCEPT ![s] = Me(t)]
        /\ creator' = [creator EXCEPT ![s] = Me(t)]
        /\ origin' = [origin EXCEPT ![s] = Key(t)]
        /\ task' = [task EXCEPT ![t].pc = "own", ![t].sid = s]
  BY DEF NewSession
<1>2. /\ At(t, "new_session") /\ conn' = conn /\ announced' = announced
      /\ UNCHANGED registry /\ UNCHANGED channels /\ UNCHANGED outside
  BY DEF NewSession
<1>3. LocalsAt(t) /\ task[t].pc = "new_session"
  BY <1>2 DEF IInv, Locals, At
<1>4. Me(t) \in Principals /\ task[t].op \in {"create", "inbound", "action"}
  BY <1>3 DEF LocalsAt, At
<1>5. /\ task \in [Tasks -> HandlerState] /\ conn \in [Tasks -> ConnectionState]
      /\ live \in [Sessions -> Principals \cup {None}]
      /\ creator \in [Sessions -> Principals \cup {None}]
      /\ origin \in [Sessions -> Keys \cup {None}]
  BY TypeParts DEF TypeOK
<1>6. Key(t) \in Keys \cup {None}
  BY <1>5 DEF Key, HandlerState
<1>7. "own" \in PCs
  BY DEF PCs
<1> DEFINE h == [task[t] EXCEPT !.pc = "own", !.sid = s]
<1>8a. /\ h \in HandlerState /\ task' = [task EXCEPT ![t] = h]
       /\ h.pc = "own" /\ h.sid = s /\ h.op = task[t].op /\ h.key = task[t].key
  BY <1>1, <1>5, <1>7 DEF HandlerState
<1> HIDE DEF h
<1>8. task' \in [Tasks -> HandlerState]
  BY <1>5, <1>8a
<1>9. /\ task'[t].pc = "own" /\ task'[t].sid = s
      /\ task'[t].op = task[t].op /\ task'[t].key = task[t].key
  BY <1>5, <1>8a
<1>10. Typed /\ Others(t)
  BY <1>1, <1>2, <1>5, <1>8 DEF Typed, Others
<1>11. /\ creator'[s] = Me(t) /\ origin'[s] = Key(t) /\ live'[s] = Me(t)
       /\ \A x \in Sessions \ {s} : /\ creator'[x] = creator[x] /\ origin'[x] = origin[x]
                                    /\ live'[x] = live[x]
  BY <1>1, <1>5
<1>12. HistoryKept
  BY <1>1, <1>11 DEF HistoryKept
<1>13. Me(t) # None
  BY <1>4, GatewayAssumption
<1>14. TypeOK'
  <2>1. MapTypes'
    BY <1>1, <1>2, <1>4, <1>5, <1>6, TypeParts DEF MapTypes, registry, channels, outside
  <2> QED
    BY <1>10, <2>1, TypeParts
<1>15. Locals'
  <2>1. "own" \notin RouteSteps \cup {"idle"} /\ "own" \in SessionSteps
    BY DEF RouteSteps, SessionSteps, PCs
  <2>2. task'[t] # IdleTask
    BY <1>9 DEF IdleTask
  <2>3. Me(t)' = Me(t) /\ conn'[t].status = conn[t].status /\ task[t].pc # "idle"
    BY <1>2, <1>3 DEF Me
  <2>4. LocalsAt(t)'
    BY <1>3, <1>4, <1>9, <1>11, <1>13, <2>1, <2>2, <2>3 DEF LocalsAt, At, Key, Sid
  <2> QED
    BY <1>10, <1>12, <2>4, LocalsFrom
<1>16. Exclusive'
  <2>1. s \notin announced /\ \A k \in Keys : channel_routes[k] # s
    BY <1>1, FreshSession
  <2>2. \A u \in Tasks : Sid(u) # s
    BY <1>1, FreshSession
  <2>3. \A u \in Tasks \ {t} : task'[u] = task[u]
    BY <1>10 DEF Others
  <2>4. ASSUME NEW u \in Tasks, (task[u].pc \in CreateSteps)'
        PROVE  /\ Sid(u)' \notin announced'
               /\ \A k \in Keys : channel_routes'[k] # Sid(u)'
               /\ \A v \in Tasks \ {u} : Sid(v)' # Sid(u)'
    <3>1. CASE u = t
      BY <1>2, <1>9, <2>1, <2>2, <2>3, <3>1 DEF Sid, channels
    <3>2. CASE u # t
      <4>1. task[u].pc \in CreateSteps
        BY <2>3, <2>4, <3>2
      <4>2. /\ Sid(u) \notin announced
            /\ \A k \in Keys : channel_routes[k] # Sid(u)
            /\ \A v \in Tasks \ {u} : Sid(v) # Sid(u)
        BY <4>1 DEF IInv, Exclusive
      <4> QED
        BY <1>2, <1>9, <2>2, <2>3, <3>2, <4>2 DEF Sid, channels
    <3> QED
      BY <3>1, <3>2
  <2>5. \A x \in announced' : creator'[x] # None
    BY <1>2, <1>12, TypeParts DEF IInv, Exclusive, HistoryKept, MapTypes
  <2> QED
    BY <2>4, <2>5 DEF Exclusive
<1>17. Ownership'
  <2>1. live[s] = None /\ session_owners[s] = None /\ session_owners' = session_owners
    BY <1>1, <1>2, FreshSession DEF registry
  <2>2. \A u \in Tasks \ {t} : task'[u] = task[u] /\ conn'[u] = conn[u] /\ Sid(u) # s
    BY <1>1, <1>10, FreshSession DEF Others
  <2>3. OwnedIsLive'
    BY <1>11, <2>1 DEF IInv, Ownership, OwnedIsLive
  <2>4. Cancellable = {} => NoOrphans'
    <3> SUFFICES ASSUME Cancellable = {}, NEW x \in Sessions, live'[x] # None,
                        session_owners'[x] = None
                 PROVE  (\E u \in Tasks : Creating(u, x) \/ Terminating(u, x))'
      BY DEF NoOrphans
    <3>1. CASE x = s
      BY <1>9, <3>1 DEF Creating, Sid, At
    <3>2. CASE x # s
      <4>1. PICK u \in Tasks : Creating(u, x) \/ Terminating(u, x)
        BY <1>11, <2>1, <3>2 DEF IInv, Ownership, NoOrphans
      <4>2. u # t
        BY <1>3, <4>1 DEF Creating, Terminating, At
      <4> QED
        BY <2>2, <4>1, <4>2 DEF Creating, Terminating, Sid, At
    <3> QED
      BY <3>1, <3>2
  <2>5. \A x \in Sessions : live'[x] # None => live'[x] = creator'[x]
    BY <1>11 DEF IInv, Ownership
  <2>6. ASSUME NEW u \in Tasks
        PROVE  /\ (At(u, "own") => live[Sid(u)] = Me(u))'
               /\ (task[u].pc \in TerminatingSteps => session_owners[Sid(u)] = None)'
    <3>1. CASE u = t
      BY <1>2, <1>9, <1>11, <3>1 DEF At, Sid, Me, TerminatingSteps
    <3>2. CASE u # t
      <4>1. LocalsAt(u)
        BY DEF IInv, Locals
      <4>2. At(u, "own") => Sid(u) \in Sessions
        BY <4>1 DEF LocalsAt, At, SessionSteps, PCs
      <4> QED
        BY <1>11, <2>1, <2>2, <3>2, <4>2 DEF IInv, Ownership, At, Sid, Me
    <3> QED
      BY <3>1, <3>2
  <2> QED
    BY <2>3, <2>4, <2>5, <2>6 DEF Ownership
<1>18. Isolation'
  <2>1. /\ \A k \in Keys : channel_routes[k] # s
        /\ session_channel_routes[s] = None
    BY <1>1, FreshSession
  <2>2. UNCHANGED <<channel_routes, session_channel_routes, channel_outbox, forwarder>>
    BY <1>2 DEF channels, outside
  <2>3. RoutesIsolated'
    BY <1>11, <2>1, <2>2, GatewayAssumption DEF IInv, Isolation, RoutesIsolated
  <2>4. ASSUME NEW k \in Keys, NEW i \in DOMAIN channel_outbox[k]
        PROVE  channel_outbox[k][i].session \in Sessions \ {s}
    <3>1. channel_outbox[k] \in Seq(Items)
      BY TypeParts DEF MapTypes
    <3>2. channel_outbox[k][i] \in Items
      BY <3>1
    <3> QED
      BY <1>1, <3>2 DEF IInv, Isolation, Items
  <2>5. OutboxIsolated'
    BY <1>11, <2>2, <2>4 DEF IInv, Isolation, OutboxIsolated
  <2>6. \A k \in Keys : \A i \in DOMAIN channel_outbox'[k] :
          creator'[channel_outbox'[k][i].session] # None
    BY <1>11, <2>2, <2>4 DEF IInv, Isolation
  <2>7. forwarder.pc # "recv" => forwarder.sid \in Sessions \ {s}
    BY <1>1, TypeParts DEF IInv, Isolation, MapTypes, ForwarderState
  <2>8. /\ (forwarder.pc = "push" => origin[forwarder.sid] = forwarder.key)'
        /\ (forwarder.pc # "recv" => creator[forwarder.sid] # None)'
    BY <1>11, <2>2, <2>7 DEF IInv, Isolation
  <2>9. \A x \in Sessions : creator'[x] = None => origin'[x] = None
    BY <1>11, <1>13 DEF IInv, Isolation
  <2> QED
    BY <2>3, <2>5, <2>6, <2>8, <2>9 DEF Isolation
<1> QED
  BY <1>14, <1>15, <1>16, <1>17, <1>18 DEF IInv

(* The steps of session creation. *)
LEMMA CreateEdges ==
  /\ Edge("own", "own_response") /\ Edge("own", "route")
  /\ Edge("own_priority", "route") /\ Edge("route", "index")
  /\ {"own", "own_priority", "route"} \subseteq CreateSteps \cap SessionSteps
  /\ {"index", "idle"} \cap (CreateSteps \cup TerminatingSteps) = {}
  /\ {"own_response", "route"} \cap TerminatingSteps = {}
  /\ {"own", "own_priority", "route"} \cap TerminatingSteps = {}
  /\ "own_response" \notin RouteSteps
BY DEF Edge, PCs, SessionSteps, MappedSteps, CreateSteps, RouteSteps, TerminatingSteps

(* The creator gives its session away. *)
LEMMA ExclusiveGiven ==
  ASSUME IInv, NEW t \in Tasks, Keeps(t), HistoryKept,
         task[t].pc \in CreateSteps, task'[t].pc \notin CreateSteps,
         announced' = announced \cup {Sid(t)},
         \A k \in Keys : channel_routes'[k] \in {channel_routes[k], Sid(t)}
  PROVE  Exclusive'
<1>1. ASSUME NEW u \in Tasks, (task[u].pc \in CreateSteps)'
      PROVE  /\ u # t /\ task'[u] = task[u] /\ Sid(u)' = Sid(u)
             /\ Sid(u) \notin announced /\ Sid(u) # Sid(t) /\ Sid(u) # None
             /\ \A k \in Keys : channel_routes[k] # Sid(u)
             /\ \A v \in Tasks \ {u} : Sid(v) # Sid(u)
  <2>1. u # t /\ task'[u] = task[u]
    BY <1>1 DEF Keeps, Others
  <2>2. LocalsAt(u) /\ task[u].pc \in CreateSteps
    BY <1>1, <2>1 DEF IInv, Locals
  <2>3. Sid(u) # None
    BY <2>2, GatewayAssumption DEF LocalsAt, CreateSteps, SessionSteps, PCs
  <2> QED
    BY <2>1, <2>2, <2>3 DEF IInv, Exclusive, Sid
<1>2. ASSUME NEW u \in Tasks PROVE Sid(u)' \in {Sid(u), None}
  BY DEF Keeps, Others, Sid
<1>3. ASSUME NEW u \in Tasks, (task[u].pc \in CreateSteps)'
      PROVE  /\ Sid(u)' \notin announced'
             /\ \A k \in Keys : channel_routes'[k] # Sid(u)'
             /\ \A v \in Tasks \ {u} : Sid(v)' # Sid(u)'
  BY <1>1, <1>2, <1>3
<1>4. LocalsAt(t) /\ Sid(t) \in Sessions /\ creator[Sid(t)] # None
  <2>1. task[t].pc \in SessionSteps
    BY DEF CreateSteps, SessionSteps, PCs
  <2> QED
    BY <2>1, SidTyped DEF IInv, Locals
<1>5. \A s \in announced' : creator'[s] # None
  BY <1>4 DEF IInv, TypeOK, Exclusive, HistoryKept
<1> QED
  BY <1>3, <1>5 DEF Exclusive

(* What follows the record of the owner in handle_create_session_internal. *)
LEMMA CreatedNext ==
  ASSUME IInv, NEW t \in Tasks, At(t, "own") \/ At(t, "own_priority"), Created(t),
         UNCHANGED channels, UNCHANGED runner
  PROVE  /\ Typed /\ Keeps(t) /\ LocalsAt(t)' /\ Exclusive'
         /\ announced' \subseteq Sessions
         /\ task'[t].pc \in {"idle", "route"}
<1>1. LocalsAt(t) /\ task[t].pc \in {"own", "own_priority"}
  BY DEF IInv, Locals, At
<1>2. task[t].pc \in CreateSteps /\ Sid(t) \in Sessions
  BY <1>1, CreateEdges, SidTyped
<1>3. /\ Typed /\ Others(t)
      /\ \/ task[t].op = "create" /\ Ends(t) /\ announced' = announced \cup {Sid(t)}
         \/ task[t].op # "create" /\ Continues(t, "route") /\ announced' = announced
  BY <1>2, CreatedEffect, TypeParts
<1>4. HistoryKept
  BY DEF runner, HistoryKept
<1>5. announced' \subseteq Sessions
  BY <1>2, <1>3, TypeParts DEF MapTypes
<1>6. CASE Ends(t) /\ announced' = announced \cup {Sid(t)}
  <2>1. task'[t].pc = "idle" /\ task'[t].sid = None
    BY <1>6 DEF Ends, IdleTask
  <2>2. Keeps(t) /\ LocalsAt(t)'
    BY <1>3, <1>6, <2>1, CreateEdges, EndsLocals DEF Keeps
  <2>3. Exclusive'
    BY <1>2, <1>4, <1>6, <2>1, <2>2, CreateEdges, ExclusiveGiven DEF channels
  <2> QED
    BY <1>3, <1>5, <2>1, <2>2, <2>3
<1>7. CASE task[t].op # "create" /\ Continues(t, "route") /\ announced' = announced
  <2>1. task[t].op \in {"inbound", "action"}
    BY <1>1, <1>2, <1>7 DEF LocalsAt
  <2>2. PICK from \in {"own", "own_priority"} : At(t, from) /\ Edge(from, "route")
    BY CreateEdges
  <2>3. Keeps(t) /\ LocalsAt(t)'
    BY <1>3, <1>4, <1>7, <2>1, <2>2, EdgeKeeps, EdgeLocals
  <2>4. Exclusive'
    BY <1>4, <1>7, <2>3, ExclusiveFrom DEF channels
  <2> QED
    BY <1>3, <1>5, <1>7, <2>3, <2>4 DEF Continues
<1> QED
  BY <1>3, <1>6, <1>7

(* The last sender is bound; the session is announced or routed next. *)
LEMMA InsertPrioritySenderNext ==
  ASSUME IInv, NEW t \in Tasks, InsertPrioritySender(t) PROVE IInv'
<1>1. /\ At(t, "own_priority") /\ Created(t)
      /\ session_owners' = session_owners /\ UNCHANGED channels /\ UNCHANGED runner
      /\ UNCHANGED outside
  BY DEF InsertPrioritySender
<1>2. /\ Typed /\ Keeps(t) /\ LocalsAt(t)' /\ Exclusive'
      /\ announced' \subseteq Sessions /\ task'[t].pc \in {"idle", "route"}
  BY <1>1, CreatedNext
<1>3. HistoryKept
  BY <1>1 DEF runner, HistoryKept
<1>4. MapTypes'
  BY <1>1, <1>2, TypeParts, MailboxTyped
     DEF InsertPrioritySender, MapTypes, channels, runner, outside
<1>5. Moved(t)
  BY <1>1, <1>2, CreateEdges DEF Moved, At
<1>6. Locals' /\ Ownership' /\ Isolation'
  BY <1>1, <1>2, <1>3, <1>5, LocalsFrom, OwnershipFrom, IsolationFrom
     DEF Keeps, channels, runner, outside
<1> QED
  BY <1>2, <1>4, <1>6, TypeParts DEF IInv

(* The runner has the session for the principal that is put on record. *)
LEMMA InsertOwnerNext ==
  ASSUME IInv, NEW t \in Tasks, InsertOwner(t) PROVE IInv'
<1>1. /\ At(t, "own") /\ UNCHANGED channels /\ UNCHANGED runner /\ UNCHANGED outside
      /\ session_owners' = [session_owners EXCEPT ![Sid(t)] = Me(t)]
      /\ UNCHANGED <<ws_response_senders, ws_priority_senders>>
  BY DEF InsertOwner
<1>2. /\ Sid(t) \in Sessions /\ Me(t) \in Principals /\ task[t].pc \in CreateSteps
      /\ LocalsAt(t)
  BY <1>1, CreateEdges, SidTyped DEF At, IInv, Locals
<1>3. HistoryKept
  BY <1>1 DEF runner, HistoryKept
<1>4. /\ Typed /\ Keeps(t) /\ LocalsAt(t)' /\ Exclusive'
      /\ announced' \subseteq Sessions /\ task'[t].pc \in {"idle", "route", "own_response"}
  <2>1. CASE Created(t)
    BY <1>1, <2>1, CreatedNext
  <2>2. CASE Go(t, "own_response") /\ announced' = announced
    <3>1. "own_response" \in PCs
      BY DEF PCs
    <3>2. Typed /\ Others(t) /\ Continues(t, "own_response")
      BY <2>2, <3>1, GoEffect, TypeParts
    <3>3. Keeps(t) /\ LocalsAt(t)'
      BY <1>1, <1>3, <3>2, CreateEdges, EdgeKeeps, EdgeLocals
    <3>4. Exclusive'
      BY <1>1, <1>3, <2>2, <3>3, ExclusiveFrom DEF channels
    <3> QED
      BY <2>2, <3>2, <3>3, <3>4, TypeParts DEF Continues, MapTypes
  <2> QED
    BY <2>1, <2>2 DEF InsertOwner
<1>5. MapTypes'
  BY <1>1, <1>2, <1>4, TypeParts DEF MapTypes, channels, runner, outside
<1>6. /\ session_owners'[Sid(t)] = Me(t)
      /\ \A x \in Sessions \ {Sid(t)} : session_owners'[x] = session_owners[x]
  BY <1>1, <1>2, TypeParts DEF MapTypes
<1>7. \A u \in Tasks \ {t} : /\ task'[u] = task[u] /\ conn'[u] = conn[u]
                             /\ Sid(u) # Sid(t)
  BY <1>2, <1>4 DEF Keeps, Others, IInv, Exclusive
<1>8. Ownership'
  <2>1. OwnedIsLive'
    BY <1>1, <1>6 DEF IInv, Ownership, OwnedIsLive, runner
  <2>2. Cancellable = {} => NoOrphans'
    <3> SUFFICES ASSUME Cancellable = {}, NEW x \in Sessions, live[x] # None,
                        session_owners'[x] = None
                 PROVE  (\E u \in Tasks : Creating(u, x) \/ Terminating(u, x))'
      BY <1>1 DEF NoOrphans, runner
    <3>1. x # Sid(t)
      BY <1>2, <1>6, GatewayAssumption
    <3>2. PICK u \in Tasks : Creating(u, x) \/ Terminating(u, x)
      BY <1>6, <3>1 DEF IInv, Ownership, NoOrphans
    <3>3. u # t
      BY <3>1, <3>2 DEF Creating, Terminating
    <3> QED
      BY <1>7, <3>2, <3>3 DEF Creating, Terminating, Sid, At
  <2>3. \A x \in Sessions : live'[x] # None => live'[x] = creator'[x]
    BY <1>1 DEF IInv, Ownership, runner
  <2>4. ASSUME NEW u \in Tasks
        PROVE  /\ (At(u, "own") => live[Sid(u)] = Me(u))'
               /\ (task[u].pc \in TerminatingSteps => session_owners[Sid(u)] = None)'
    <3>1. CASE u = t
      BY <1>4, <3>1, CreateEdges DEF At
    <3>2. CASE u # t
      <4>1. LocalsAt(u)
        BY DEF IInv, Locals
      <4>2. task[u].pc \in TerminatingSteps => Sid(u) \in Sessions
        BY <4>1 DEF LocalsAt, TerminatingSteps, SessionSteps, PCs
      <4> QED
        BY <1>1, <1>6, <1>7, <3>2, <4>2 DEF IInv, Ownership, At, Sid, Me, runner
    <3> QED
      BY <3>1, <3>2
  <2> QED
    BY <2>1, <2>2, <2>3, <2>4 DEF Ownership
<1>9. Locals' /\ Isolation'
  BY <1>1, <1>3, <1>4, LocalsFrom, IsolationFrom DEF Keeps, channels, runner, outside
<1> QED
  BY <1>4, <1>5, <1>8, <1>9, TypeParts DEF IInv

----------------------------------------------------------------------------
(* The end of a session *)

(* The steps that end a session. *)
LEMMA EndEdges ==
  /\ Edge("t_owner", "t_routes") /\ Edge("f_owner", "f_runner")
  /\ Edge("f_runner", "new_session")
  /\ {"t_owner", "f_owner", "t_runner", "f_runner"} \subseteq SessionSteps \ CreateSteps
  /\ {"t_routes", "f_runner", "t_runner"} \subseteq TerminatingSteps
  /\ {"t_owner", "f_owner", "idle", "new_session"} \cap TerminatingSteps = {}
  /\ {"f_owner", "f_runner"} \subseteq RouteSteps
  /\ {"t_routes", "t_owner", "new_session"} \cap RouteSteps = {}
  /\ {"own", "new_session"} \cap {"t_routes", "f_runner"} = {}
  /\ {"idle", "new_session", "t_routes", "f_runner"} \cap CreateSteps = {}
  /\ {"t_owner", "f_owner", "own"} \cap TerminatingSteps = {}
BY DEF Edge, PCs, SessionSteps, MappedSteps, CreateSteps, RouteSteps, TerminatingSteps

(* Once the owner is gone the task is one that terminates the session. *)
LEMMA RemoveOwnerNext ==
  ASSUME IInv, NEW t \in Tasks, RemoveOwner(t) PROVE IInv'
<1>1. /\ UNCHANGED channels /\ UNCHANGED runner /\ UNCHANGED outside
      /\ session_owners' = [session_owners EXCEPT ![Sid(t)] = None]
      /\ UNCHANGED <<ws_response_senders, ws_priority_senders>>
      /\ announced' = announced
  BY DEF RemoveOwner
<1>2. PICK from \in {"t_owner", "f_owner"}, pc \in {"t_routes", "f_runner"} :
        At(t, from) /\ Go(t, pc) /\ Edge(from, pc)
        /\ (pc = "f_runner" => from = "f_owner")
  BY EndEdges DEF RemoveOwner
<1>3. HistoryKept
  BY <1>1 DEF runner, HistoryKept
<1>4. LocalsAt(t) /\ task[t].pc = from /\ Sid(t) \in Sessions
  BY <1>2, EndEdges, SidTyped DEF IInv, Locals, At
<1>5. Typed /\ Others(t) /\ Continues(t, pc)
  <2>1. pc \in PCs
    BY DEF PCs
  <2> QED
    BY <1>2, <2>1, GoEffect, TypeParts
<1>6. pc \in RouteSteps \cup {"new_session"} => task[t].op \in {"inbound", "action"}
  BY <1>2, <1>4, EndEdges DEF LocalsAt
<1>7. Keeps(t) /\ LocalsAt(t)'
  BY <1>2, <1>3, <1>5, <1>6, EdgeKeeps, EdgeLocals
<1>8. /\ \A u \in Tasks \ {t} : task'[u] = task[u] /\ conn'[u] = conn[u]
      /\ task'[t].pc = pc /\ task'[t].sid = Sid(t)
  BY <1>5 DEF Others, Continues, Sid
<1>9. /\ session_owners'[Sid(t)] = None
      /\ \A x \in Sessions \ {Sid(t)} : session_owners'[x] = session_owners[x]
  BY <1>1, <1>4, TypeParts DEF MapTypes
<1>10. MapTypes'
  BY <1>1, TypeParts DEF MapTypes, channels, runner, outside
<1>11. Ownership'
  <2>1. OwnedIsLive'
    BY <1>1, <1>9 DEF IInv, Ownership, OwnedIsLive, runner
  <2>2. Cancellable = {} => NoOrphans'
    <3> SUFFICES ASSUME Cancellable = {}, NEW x \in Sessions, live[x] # None,
                        session_owners'[x] = None
                 PROVE  (\E u \in Tasks : Creating(u, x) \/ Terminating(u, x))'
      BY <1>1 DEF NoOrphans, runner
    <3>1. CASE x = Sid(t)
      BY <1>8, <3>1 DEF Terminating, Sid
    <3>2. CASE x # Sid(t)
      <4>1. PICK u \in Tasks : Creating(u, x) \/ Terminating(u, x)
        BY <1>9, <3>2 DEF IInv, Ownership, NoOrphans
      <4>2. u # t
        BY <3>2, <4>1 DEF Creating, Terminating
      <4> QED
        BY <1>8, <4>1, <4>2 DEF Creating, Terminating, Sid, At
    <3> QED
      BY <3>1, <3>2
  <2>3. \A x \in Sessions : live'[x] # None => live'[x] = creator'[x]
    BY <1>1 DEF IInv, Ownership, runner
  <2>4. ASSUME NEW u \in Tasks
        PROVE  /\ (At(u, "own") => live[Sid(u)] = Me(u))'
               /\ (task[u].pc \in TerminatingSteps => session_owners[Sid(u)] = None)'
    <3>1. CASE u = t
      BY <1>8, <1>9, <3>1 DEF At, Sid
    <3>2. CASE u # t
      <4>1. LocalsAt(u)
        BY DEF IInv, Locals
      <4>2. task[u].pc \in TerminatingSteps => Sid(u) \in Sessions
        BY <4>1 DEF LocalsAt, TerminatingSteps, SessionSteps, PCs
      <4> QED
        BY <1>1, <1>8, <1>9, <3>2, <4>2 DEF IInv, Ownership, At, Sid, Me, runner
    <3> QED
      BY <3>1, <3>2
  <2> QED
    BY <2>1, <2>2, <2>3, <2>4 DEF Ownership
<1>12. Locals' /\ Exclusive' /\ Isolation'
  BY <1>1, <1>3, <1>5, <1>7, LocalsFrom, ExclusiveFrom, IsolationFrom
     DEF channels, runner, outside
<1> QED
  BY <1>5, <1>10, <1>11, <1>12, TypeParts DEF IInv

(* The runner lets go of a session that has no owner on record any more. *)
LEMMA EndedNext ==
  ASSUME IInv, NEW t \in Tasks, task[t].pc \in {"t_runner", "f_runner"},
         live' = [live EXCEPT ![Sid(t)] = None],
         Typed, Keeps(t), LocalsAt(t)', task'[t].pc \in {"idle", "new_session"},
         UNCHANGED registry, UNCHANGED channels, UNCHANGED outside,
         creator' = creator, origin' = origin, announced' = announced
  PROVE  IInv'
<1>1. LocalsAt(t) /\ Sid(t) \in Sessions /\ task[t].pc \in TerminatingSteps
  BY EndEdges, SidTyped DEF IInv, Locals
<1>2. HistoryKept
  BY DEF HistoryKept
<1>3. MapTypes'
  BY TypeParts DEF MapTypes, registry, channels, outside
<1>4. /\ live'[Sid(t)] = None
      /\ \A x \in Sessions \ {Sid(t)} : live'[x] = live[x]
  BY <1>1, TypeParts DEF MapTypes
<1>5. session_owners[Sid(t)] = None /\ session_owners' = session_owners
  BY <1>1 DEF IInv, Ownership, registry
<1>6. \A u \in Tasks \ {t} : task'[u] = task[u] /\ conn'[u] = conn[u]
  BY DEF Keeps, Others
<1>7. Ownership'
  <2>1. OwnedIsLive'
    BY <1>4, <1>5 DEF IInv, Ownership, OwnedIsLive
  <2>2. Cancellable = {} => NoOrphans'
    <3> SUFFICES ASSUME Cancellable = {}, NEW x \in Sessions, live'[x] # None,
                        session_owners[x] = None
                 PROVE  (\E u \in Tasks : Creating(u, x) \/ Terminating(u, x))'
      BY <1>5 DEF NoOrphans
    <3>1. x # Sid(t) /\ live[x] # None
      BY <1>4
    <3>2. PICK u \in Tasks : Creating(u, x) \/ Terminating(u, x)
      BY <3>1 DEF IInv, Ownership, NoOrphans
    <3>3. u # t
      BY <3>1, <3>2 DEF Creating, Terminating
    <3> QED
      BY <1>6, <3>2, <3>3 DEF Creating, Terminating, Sid, At
  <2>3. \A x \in Sessions : live'[x] # None => live'[x] = creator'[x]
    BY <1>4 DEF IInv, Ownership
  <2>4. ASSUME NEW u \in Tasks
        PROVE  /\ (At(u, "own") => live[Sid(u)] = Me(u))'
               /\ (task[u].pc \in TerminatingSteps => session_owners[Sid(u)] = None)'
    <3>1. CASE u = t
      BY <3>1, EndEdges DEF At
    <3>2. CASE u # t
      <4>1. At(u, "own") => Sid(u) \in Sessions /\ Sid(u) # Sid(t)
        <5>1. At(u, "own") => task[u].pc \in CreateSteps /\ task[u].pc \in SessionSteps
          BY CreateEdges DEF At
        <5> QED
          BY <3>2, <5>1, SidTyped DEF IInv, Exclusive
      <4> QED
        BY <1>4, <1>5, <1>6, <3>2, <4>1 DEF IInv, Ownership, At, Sid, Me
    <3> QED
      BY <3>1, <3>2
  <2> QED
    BY <2>1, <2>2, <2>3, <2>4 DEF Ownership
<1>8. Locals' /\ Exclusive' /\ Isolation'
  BY <1>2, LocalsFrom, ExclusiveFrom, IsolationFrom DEF Keeps, channels, outside
<1> QED
  BY <1>3, <1>7, <1>8, TypeParts DEF IInv

(* The runner ends a terminated session. *)
LEMMA EndTerminatedNext ==
  ASSUME IInv, NEW t \in Tasks, EndTerminated(t) PROVE IInv'
<1>1. /\ At(t, "t_runner") /\ live' = [live EXCEPT ![Sid(t)] = None]
      /\ ReturnOwning(t, conn[t].owned \ {Sid(t)})
      /\ UNCHANGED registry /\ UNCHANGED channels /\ UNCHANGED outside
      /\ creator' = creator /\ origin' = origin /\ announced' = announced
  BY DEF EndTerminated
<1>2. conn[t].owned \ {Sid(t)} \in SUBSET Sessions
  BY OwnedTyped
<1>3. Typed /\ Others(t) /\ Ends(t)
  BY <1>1, <1>2, ReturnOwningEffect, TypeParts
<1>4. task'[t].pc = "idle" /\ task'[t].sid = None
  BY <1>3 DEF Ends, IdleTask
<1>5. Keeps(t) /\ LocalsAt(t)'
  BY <1>3, <1>4, EndEdges, EndsLocals DEF Keeps
<1> QED
  BY <1>1, <1>3, <1>4, <1>5, EndedNext DEF At

(* The runner ends a replaced session, and its route gets a new one. *)
LEMMA EndReplacedNext ==
  ASSUME IInv, NEW t \in Tasks, EndReplaced(t) PROVE IInv'
<1>1. /\ At(t, "f_runner") /\ live' = [live EXCEPT ![Sid(t)] = None]
      /\ Go(t, "new_session")
      /\ UNCHANGED registry /\ UNCHANGED channels /\ UNCHANGED outside
      /\ creator' = creator /\ origin' = origin /\ announced' = announced
  BY DEF EndReplaced
<1>2. "new_session" \in PCs
  BY DEF PCs
<1>3. Typed /\ Others(t) /\ Continues(t, "new_session")
  BY <1>1, <1>2, GoEffect, TypeParts
<1>4. LocalsAt(t) /\ task[t].op \in {"inbound", "action"}
  BY <1>1, EndEdges DEF IInv, Locals, LocalsAt, At
<1>5. HistoryKept
  BY <1>1 DEF HistoryKept
<1>6. Keeps(t) /\ LocalsAt(t)'
  BY <1>1, <1>3, <1>4, <1>5, EndEdges, EdgeKeeps, EdgeLocals
<1> QED
  BY <1>1, <1>3, <1>6, EndedNext DEF At, Continues

----------------------------------------------------------------------------
(* Routes, and sessions taken up by their id *)

(* The route gets the session that was created for it, which stops being a  *)
(* secret of its creator.                                                   *)
LEMMA InsertRouteNext ==
  ASSUME IInv, NEW t \in Tasks, InsertRoute(t) PROVE IInv'
<1>1. /\ At(t, "route") /\ Go(t, "index")
      /\ channel_routes' = [channel_routes EXCEPT ![Key(t)] = Sid(t)]
      /\ announced' = announced \cup {Sid(t)}
      /\ UNCHANGED registry /\ UNCHANGED runner /\ UNCHANGED outside
      /\ UNCHANGED <<session_channel_routes, channel_outbox>>
  BY DEF InsertRoute
<1>2. LocalsAt(t) /\ task[t].pc = "route" /\ Sid(t) \in Sessions
  BY <1>1, CreateEdges, SidTyped DEF IInv, Locals, At
<1>3. "route" \in RouteSteps /\ "route" \in MappedSteps /\ "index" \in PCs
  BY DEF RouteSteps, MappedSteps, CreateSteps, PCs
<1>4. /\ Key(t) \in Keys /\ Key(t).principal = Me(t)
      /\ origin[Sid(t)] = Key(t) /\ creator[Sid(t)] = Me(t)
      /\ task[t].op \in {"inbound", "action"}
  BY <1>2, <1>3 DEF LocalsAt, RouteOps
<1>5. HistoryKept
  BY <1>1 DEF runner, HistoryKept
<1>6. Typed /\ Others(t) /\ Continues(t, "index")
  BY <1>1, <1>3, GoEffect, TypeParts
<1>7. Keeps(t) /\ LocalsAt(t)'
  BY <1>1, <1>4, <1>5, <1>6, CreateEdges, EdgeKeeps, EdgeLocals
<1>8. MapTypes'
  BY <1>1, <1>2, TypeParts DEF MapTypes, registry, runner, outside
<1>9. /\ channel_routes'[Key(t)] = Sid(t)
      /\ \A k \in Keys \ {Key(t)} : channel_routes'[k] = channel_routes[k]
  BY <1>1, <1>4, TypeParts DEF MapTypes
<1>10. Exclusive'
  <2>1. task[t].pc \in CreateSteps /\ task'[t].pc \notin CreateSteps
    BY <1>2, <1>6, CreateEdges DEF Continues
  <2> QED
    BY <1>1, <1>5, <1>7, <1>9, <2>1, ExclusiveGiven
<1>11. Ownership'
  <2>1. Moved(t)
    BY <1>2, <1>6, <1>7, CreateEdges DEF Moved, Continues, At
  <2> QED
    BY <1>1, <1>5, <2>1, OwnershipFrom DEF registry, runner
<1>12. Isolation'
  <2>1. RoutesIsolated'
    BY <1>1, <1>4, <1>9 DEF IInv, Isolation, RoutesIsolated, runner
  <2> QED
    BY <1>1, <2>1 DEF IInv, Isolation, OutboxIsolated, runner, outside
<1>13. Locals'
  BY <1>5, <1>6, <1>7, LocalsFrom
<1> QED
  BY <1>6, <1>8, <1>10, <1>11, <1>12, <1>13, TypeParts DEF IInv

(* The index gets the route the session was created for. *)
LEMMA InsertIndexNext ==
  ASSUME IInv, NEW t \in Tasks, InsertIndex(t) PROVE IInv'
<1>1. /\ At(t, "index") /\ Go(t, "authorize")
      /\ session_channel_routes' = [session_channel_routes EXCEPT ![Sid(t)] = Key(t)]
      /\ UNCHANGED registry /\ UNCHANGED runner /\ UNCHANGED outside
      /\ UNCHANGED <<channel_routes, channel_outbox>> /\ announced' = announced
  BY DEF InsertIndex
<1>2. "index" \in SessionSteps /\ "index" \in RouteSteps /\ "index" \in MappedSteps
      /\ "authorize" \in PCs
  BY DEF SessionSteps, RouteSteps, MappedSteps, PCs
<1>3. LocalsAt(t) /\ task[t].pc = "index" /\ Sid(t) \in Sessions
  BY <1>1, <1>2, SidTyped DEF IInv, Locals, At
<1>4. Key(t) \in Keys /\ origin[Sid(t)] = Key(t)
  BY <1>2, <1>3 DEF LocalsAt, RouteOps
<1>5. HistoryKept
  BY <1>1 DEF runner, HistoryKept
<1>6. Typed /\ Others(t) /\ Continues(t, "authorize")
  BY <1>1, <1>2, GoEffect, TypeParts
<1>7. Moved(t)
  BY <1>1, <1>5, <1>6, InnerSteps, InnerMoved
<1>8. MapTypes'
  BY <1>1, <1>3, <1>4, TypeParts DEF MapTypes, registry, runner, outside
<1>9. /\ session_channel_routes'[Sid(t)] = Key(t)
      /\ \A x \in Sessions \ {Sid(t)} :
           session_channel_routes'[x] = session_channel_routes[x]
  BY <1>1, <1>3, TypeParts DEF MapTypes
<1>10. Isolation'
  <2>1. RoutesIsolated'
    BY <1>1, <1>4, <1>9 DEF IInv, Isolation, RoutesIsolated, runner
  <2> QED
    BY <1>1, <2>1 DEF IInv, Isolation, OutboxIsolated, runner, outside
<1>11. Locals' /\ Exclusive' /\ Ownership'
  BY <1>1, <1>5, <1>7, LocalsFrom, ExclusiveFrom, OwnershipFrom
     DEF Moved, Keeps, registry, runner
<1> QED
  BY <1>6, <1>8, <1>10, <1>11, TypeParts DEF IInv

(* A handler takes up a session that is under creation by nobody. *)
LEMMA TakenUpNext ==
  ASSUME IInv, NEW t \in Tasks, Typed, Others(t), Still, LocalsAt(t)',
         At(t, "idle") \/ At(t, "read_route"),
         task'[t].pc \notin CreateSteps \cup TerminatingSteps,
         task'[t].sid # None =>
           \/ task'[t].sid \in announced
           \/ \E k \in Keys : channel_routes[k] = task'[t].sid
  PROVE  IInv'
<1>1. Fixed /\ HistoryKept /\ MapTypes'
  BY StillFixed
<1>2. TypeOK' /\ Locals'
  BY <1>1, TypeParts, LocalsFrom
<1>3. Exclusive'
  <2>1. ASSUME NEW u \in Tasks, (task[u].pc \in CreateSteps)'
        PROVE  /\ Sid(u)' \notin announced'
               /\ \A k \in Keys : channel_routes'[k] # Sid(u)'
               /\ \A v \in Tasks \ {u} : Sid(v)' # Sid(u)'
    <3>1. u # t /\ task'[u] = task[u]
      BY <2>1 DEF Others
    <3>2. /\ Sid(u) \notin announced
          /\ \A k \in Keys : channel_routes[k] # Sid(u)
          /\ \A v \in Tasks \ {u} : Sid(v) # Sid(u)
      BY <2>1, <3>1 DEF IInv, Exclusive
    <3>3. Sid(u) # None
      <4>1. task[u].pc \in SessionSteps
        BY <2>1, <3>1 DEF CreateSteps, SessionSteps, PCs
      <4> QED
        BY <4>1, SidTyped, GatewayAssumption
    <3> QED
      BY <3>1, <3>2, <3>3 DEF Still, channels, Others, Sid
  <2>2. \A s \in announced' : creator'[s] # None
    BY DEF IInv, Exclusive, Still, runner
  <2> QED
    BY <2>1, <2>2 DEF Exclusive
<1>4. Ownership'
  <2>1. /\ session_owners' = session_owners /\ live' = live /\ creator' = creator
    BY <1>1 DEF Fixed
  <2>2. Cancellable = {} => NoOrphans'
    <3> SUFFICES ASSUME Cancellable = {}, NEW s \in Sessions, live[s] # None,
                        session_owners[s] = None
                 PROVE  (\E u \in Tasks : Creating(u, s) \/ Terminating(u, s))'
      BY <2>1 DEF NoOrphans
    <3>1. PICK u \in Tasks : Creating(u, s) \/ Terminating(u, s)
      BY DEF IInv, Ownership, NoOrphans
    <3>2. u # t
      BY <3>1 DEF Creating, Terminating, At
    <3> QED
      BY <3>1, <3>2 DEF Others, Creating, Terminating, Sid, At
  <2>3. ASSUME NEW u \in Tasks
        PROVE  /\ (At(u, "own") => live[Sid(u)] = Me(u))'
               /\ (task[u].pc \in TerminatingSteps => session_owners[Sid(u)] = None)'
    <3>1. CASE u = t
      BY <3>1 DEF At, CreateSteps
    <3>2. CASE u # t
      BY <2>1, <3>2 DEF IInv, Ownership, Others, At, Sid, Me
    <3> QED
      BY <3>1, <3>2
  <2> QED
    BY <2>1, <2>2, <2>3 DEF IInv, Ownership, OwnedIsLive
<1>5. Isolation'
  BY <1>1, IsolationFrom DEF Fixed
<1> QED
  BY <1>2, <1>3, <1>4, <1>5 DEF IInv

(* A message names a session that has been announced. *)
LEMMA BeginOnNext ==
  ASSUME IInv, NEW c \in Conns, NEW s \in Sessions,
         BeginUse(c, s) \/ BeginTerminate(c, s)
  PROVE  IInv'
<1>1. PICK op \in {"use", "terminate"} : BeginOn(c, s, op)
  BY DEF BeginUse, BeginTerminate
<1>2. /\ task \in [Tasks -> HandlerState] /\ conn \in [Tasks -> ConnectionState]
      /\ c \in Tasks
  BY TypeParts DEF TypeOK, Tasks
<1>3. /\ task' = [task EXCEPT ![c].pc = "authorize", ![c].op = op, ![c].sid = s]
      /\ conn' = conn /\ Me(c) # None /\ conn[c].status = "open" /\ At(c, "idle")
      /\ s \in announced /\ Still
  BY <1>1 DEF BeginOn, Ready, Still
<1>4. "authorize" \in PCs /\ op \in Ops
  BY DEF PCs, Ops
<1> DEFINE h == [task[c] EXCEPT !.pc = "authorize", !.op = op, !.sid = s]
<1>5. /\ h \in HandlerState /\ task' = [task EXCEPT ![c] = h]
      /\ h.pc = "authorize" /\ h.op = op /\ h.sid = s /\ h.key = task[c].key
  BY <1>2, <1>3, <1>4 DEF HandlerState
<1> HIDE DEF h
<1>6. Typed /\ Others(c)
  BY <1>2, <1>3, <1>5 DEF Typed, Others
<1>7. Me(c) \in Principals /\ task[c].key = None
  BY <1>2, <1>3, IdleLocals DEF Me, ConnectionState, IdleTask
<1>8. /\ task'[c].pc = "authorize" /\ task'[c].op = op
      /\ task'[c].sid = s /\ task'[c].key = None
  BY <1>2, <1>5, <1>7
<1>9. s # None /\ creator[s] # None
  BY <1>3, GatewayAssumption DEF IInv, Exclusive
<1>10. /\ "authorize" \notin RouteSteps \cup MappedSteps \cup CreateSteps \cup
                               TerminatingSteps \cup {"idle", "new_session"}
       /\ op \notin RouteOps
  BY DEF RouteOps, RouteSteps, CreateSteps, MappedSteps, TerminatingSteps
<1>11. task'[c] # IdleTask
  BY <1>8 DEF IdleTask
<1>12. creator' = creator
  BY <1>3 DEF Still, runner
<1>13. LocalsAt(c)'
  BY <1>3, <1>7, <1>8, <1>9, <1>10, <1>11, <1>12 DEF LocalsAt, At, Me, Key, Sid
<1> QED
  BY <1>2, <1>3, <1>6, <1>8, <1>10, <1>13, TakenUpNext

(* The session of a route is one that was created for it. *)
LEMMA ReadRouteNext ==
  ASSUME IInv, NEW t \in Tasks, ReadRoute(t) PROVE IInv'
<1>1. /\ task \in [Tasks -> HandlerState] /\ conn \in [Tasks -> ConnectionState]
  BY TypeParts DEF TypeOK
<1>2. At(t, "read_route") /\ conn' = conn /\ Still
  BY DEF ReadRoute, Still
<1>3. LocalsAt(t) /\ task[t].pc = "read_route"
  BY <1>2 DEF IInv, Locals, At
<1>4. task[t].op \in {"inbound", "action"} /\ "read_route" # "idle"
  BY <1>3 DEF LocalsAt, RouteSteps
<1>5. /\ Key(t) \in Keys /\ Key(t).principal = Me(t) /\ Me(t) \in Principals
      /\ t \in Conns => conn[t].status = "open"
  BY <1>3, <1>4 DEF LocalsAt, RouteOps, At
<1> DEFINE mapped == channel_routes[Key(t)]
<1>6. mapped \in Sessions \cup {None}
  BY <1>5, TypeParts DEF MapTypes
<1>7. PICK pc \in {"new_session", "f_route", "check_owner"} :
        /\ task' = [task EXCEPT ![t].sid = mapped, ![t].pc = pc]
        /\ pc = "new_session" <=> mapped = None
  <2>1. \E pc \in {"new_session", "f_route", "check_owner"} :
          /\ pc = (CASE mapped = None -> "new_session"
                     [] mapped # None /\ task[t].force -> "f_route"
                     [] OTHER -> "check_owner")
          /\ pc = "new_session" <=> mapped = None
    OBVIOUS
  <2> QED
    BY <2>1 DEF ReadRoute
<1>8. mapped # None => /\ origin[mapped] = Key(t) /\ creator[mapped] = Me(t)
                       /\ creator[mapped] # None
  BY <1>5, <1>6, GatewayAssumption DEF IInv, Isolation, RoutesIsolated
<1>9. \E k \in Keys : channel_routes[k] = mapped
  BY <1>5
<1> HIDE DEF mapped
<1>10. pc \in PCs
  BY DEF PCs
<1> DEFINE h == [task[t] EXCEPT !.sid = mapped, !.pc = pc]
<1>11. /\ h \in HandlerState /\ task' = [task EXCEPT ![t] = h]
       /\ h.pc = pc /\ h.op = task[t].op /\ h.sid = mapped /\ h.key = task[t].key
  BY <1>1, <1>6, <1>7, <1>10 DEF HandlerState
<1> HIDE DEF h
<1>12. Typed /\ Others(t)
  BY <1>1, <1>2, <1>11 DEF Typed, Others
<1>13. /\ task'[t].pc = pc /\ task'[t].op = task[t].op
       /\ task'[t].sid = mapped /\ task'[t].key = task[t].key
  BY <1>1, <1>11
<1>14. /\ pc \notin CreateSteps \cup TerminatingSteps \cup {"idle"}
       /\ pc \in SessionSteps => mapped # None
       /\ pc \in MappedSteps => mapped # None
  BY <1>7 DEF CreateSteps, TerminatingSteps, SessionSteps, RouteSteps, MappedSteps
<1>15. task'[t] # IdleTask
  BY <1>13, <1>14 DEF IdleTask
<1>16. creator' = creator /\ origin' = origin
  BY <1>2 DEF Still, runner
<1>17. LocalsAt(t)'
  BY <1>2, <1>4, <1>5, <1>6, <1>8, <1>13, <1>14, <1>15, <1>16
     DEF LocalsAt, At, Me, Key, Sid, RouteOps
<1> QED
  BY <1>2, <1>9, <1>12, <1>13, <1>14, <1>17, TakenUpNext

----------------------------------------------------------------------------
(* The outboxes *)

(* What a queue holds after a push and after a drain, it held before. *)
LEMMA PushedItems ==
  ASSUME NEW S, NEW q \in Seq(S), NEW x \in S
  PROVE  /\ Append(q, x) \in Seq(S)
         /\ \A i \in DOMAIN Append(q, x) :
              \/ Append(q, x)[i] = x
              \/ i \in DOMAIN q /\ Append(q, x)[i] = q[i]
<1>1. Append(q, x) \in Seq(S)
  BY AppendProperties
<1>2. /\ DOMAIN Append(q, x) = 1..Len(Append(q, x)) /\ Len(Append(q, x)) = Len(q) + 1
      /\ DOMAIN q = 1..Len(q) /\ Len(q) \in Nat
  BY <1>1, AppendProperties, LenProperties
<1>3. /\ \A i \in 1..Len(q) : Append(q, x)[i] = q[i]
      /\ Append(q, x)[Len(q) + 1] = x
  BY AppendProperties
<1> QED
  BY <1>1, <1>2, <1>3

(* What is left of a queue was in it. *)
LEMMA DrainedItems ==
  ASSUME NEW S, NEW q \in Seq(S), NEW n \in 0..Len(q)
  PROVE  /\ SubSeq(q, n + 1, Len(q)) \in Seq(S)
         /\ \A i \in DOMAIN SubSeq(q, n + 1, Len(q)) :
              i + n \in DOMAIN q /\ SubSeq(q, n + 1, Len(q))[i] = q[i + n]
<1> DEFINE m == Len(q)
           r == SubSeq(q, n + 1, m)
<1>1. m \in Nat /\ DOMAIN q = 1..m /\ \A i \in 1..m : q[i] \in S
  BY LenProperties
<1>2. n \in Nat /\ n <= m
  BY <1>1
<1> HIDE DEF m
<1>3. n + 1 \in Int /\ m \in Int /\ \A i \in (n + 1)..m : q[i] \in S
  BY <1>1, <1>2
<1>4. /\ r \in Seq(S)
      /\ Len(r) = IF n + 1 <= m THEN m - (n + 1) + 1 ELSE 0
      /\ \A i \in 1..(m - (n + 1) + 1) : r[i] = q[(n + 1) + i - 1]
  BY <1>3, SubSeqProperties
<1> HIDE DEF r
<1>5. Len(r) = m - n
  BY <1>1, <1>2, <1>4
<1>6. DOMAIN r = 1..(m - n)
  BY <1>4, <1>5, LenProperties
<1>7. ASSUME NEW i \in 1..(m - n)
      PROVE  i + n \in 1..m /\ (n + 1) + i - 1 = i + n /\ i \in 1..(m - (n + 1) + 1)
  BY <1>1, <1>2
<1>8. \A i \in 1..(m - n) : r[i] = q[i + n]
  BY <1>4, <1>7
<1>9. r \in Seq(S) /\ \A i \in DOMAIN r : i + n \in DOMAIN q /\ r[i] = q[i + n]
  BY <1>1, <1>4, <1>6, <1>7, <1>8
<1> QED
  BY <1>9 DEF r, m

(* The forwarder and the polls leave the handlers alone. *)
LEMMA HandlersStill ==
  ASSUME IInv, task' = task, conn' = conn, UNCHANGED registry, UNCHANGED runner,
         announced' = announced, channel_routes' = channel_routes, MapTypes',
         Isolation'
  PROVE  IInv'
<1>1. TypeOK'
  BY TypeParts DEF Typed, TypeOK
<1>2. Locals'
  BY DEF IInv, Locals, LocalsAt, At, Me, Key, Sid, runner
<1>3. Exclusive'
  BY DEF IInv, Exclusive, Sid, runner
<1>4. Ownership'
  BY DEF IInv, Ownership, OwnedIsLive, NoOrphans, Creating, Terminating, At, Sid, Me,
     registry, runner
<1> QED
  BY <1>1, <1>2, <1>3, <1>4 DEF IInv

(* A transcript arrives. *)
LEMMA ReceiveFinalNext ==
  ASSUME IInv, NEW s \in Sessions, ReceiveFinal(s) PROVE IInv'
<1>1. /\ creator[s] # None /\ finals' = finals + 1
      /\ forwarder'.pc \in {"send", "look"} /\ forwarder'.sid = s
      /\ forwarder' \in [pc : {"send", "look"}, sid : Sessions, key : {None}]
      /\ UNCHANGED <<registry, channels, runner, tokens, conn, task, announced>>
  BY DEF ReceiveFinal
<1>2. forwarder' \in ForwarderState /\ finals' \in Nat
  BY <1>1, TypeParts DEF ForwarderState, MapTypes
<1>3. MapTypes'
  BY <1>1, <1>2, TypeParts DEF MapTypes, registry, channels, runner
<1>4. Isolation'
  BY <1>1 DEF IInv, Isolation, RoutesIsolated, OutboxIsolated, channels, runner
<1> QED
  BY <1>1, <1>3, <1>4, HandlersStill DEF channels

(* The forwarder has sent it. *)
LEMMA SendFinalNext ==
  ASSUME IInv, SendFinal PROVE IInv'
<1>1. /\ forwarder.pc = "send" /\ forwarder' = [forwarder EXCEPT !.pc = "look"]
      /\ UNCHANGED <<registry, channels, runner, tokens, finals, conn, task, announced>>
  BY DEF SendFinal
<1>2. /\ forwarder \in [pc : {"send", "look"}, sid : Sessions, key : {None}]
      /\ creator[forwarder.sid] # None
  BY <1>1, TypeParts DEF MapTypes, ForwarderState, IInv, Isolation
<1>3. /\ forwarder' \in [pc : {"send", "look"}, sid : Sessions, key : {None}]
      /\ forwarder'.pc = "look" /\ forwarder'.sid = forwarder.sid
  BY <1>1, <1>2
<1>4. MapTypes'
  BY <1>1, <1>3, TypeParts DEF MapTypes, ForwarderState, registry, channels, runner
<1>5. Isolation'
  BY <1>1, <1>2, <1>3 DEF IInv, Isolation, RoutesIsolated, OutboxIsolated, channels, runner
<1> QED
  BY <1>1, <1>4, <1>5, HandlersStill DEF channels

(* The forwarder looks up the route of the session. *)
LEMMA LookUpRouteNext ==
  ASSUME IInv, LookUpRoute PROVE IInv'
<1>1. /\ forwarder.pc = "look"
      /\ UNCHANGED <<registry, channels, runner, tokens, finals, conn, task, announced>>
  BY DEF LookUpRoute
<1>2. forwarder.sid \in Sessions /\ creator[forwarder.sid] # None
      /\ forwarder \in [pc : {"send", "look"}, sid : Sessions, key : {None}]
  BY <1>1, TypeParts DEF MapTypes, ForwarderState, IInv, Isolation
<1> DEFINE k == session_channel_routes[forwarder.sid]
<1>3. k \in Keys \cup {None} /\ (k \in Keys => origin[forwarder.sid] = k)
  BY <1>2, TypeParts DEF MapTypes, IInv, Isolation, RoutesIsolated
<1>4. forwarder' = IF k = None THEN [pc |-> "recv", sid |-> None, key |-> None]
                   ELSE [forwarder EXCEPT !.pc = "push", !.key = k]
  BY DEF LookUpRoute
<1> HIDE DEF k
<1>5. /\ forwarder' \in ForwarderState
      /\ forwarder'.pc = "push" => /\ origin[forwarder'.sid] = forwarder'.key
                                   /\ creator[forwarder'.sid] # None
      /\ forwarder'.pc \in {"recv", "push"}
  <2>1. CASE k = None
    BY <1>4, <2>1 DEF ForwarderState
  <2>2. CASE k # None
    <3>1. k \in Keys /\ forwarder' = [forwarder EXCEPT !.pc = "push", !.key = k]
      BY <1>3, <1>4, <2>2
    <3>2. forwarder' \in [pc : {"push"}, sid : Sessions, key : Keys]
      BY <1>2, <3>1
    <3>3. forwarder'.sid = forwarder.sid /\ forwarder'.key = k /\ forwarder'.pc = "push"
      BY <1>2, <3>1
    <3> QED
      BY <1>2, <1>3, <3>1, <3>2, <3>3 DEF ForwarderState
  <2> QED
    BY <2>1, <2>2
<1>6. MapTypes'
  BY <1>1, <1>5, TypeParts DEF MapTypes, registry, channels, runner
<1>7. Isolation'
  BY <1>1, <1>5 DEF IInv, Isolation, RoutesIsolated, OutboxIsolated, channels, runner
<1> QED
  BY <1>1, <1>6, <1>7, HandlersStill DEF channels

(* The route it has found is the one the session was created for, even if it*)
(* has been taken out since.                                                *)
LEMMA PushOutboundNext ==
  ASSUME IInv, PushOutbound PROVE IInv'
<1> DEFINE item == [session |-> forwarder.sid, number |-> finals]
<1>1. /\ forwarder.pc = "push"
      /\ channel_outbox' = [channel_outbox EXCEPT ![forwarder.key] = Append(@, item)]
      /\ forwarder' = [pc |-> "recv", sid |-> None, key |-> None]
      /\ UNCHANGED <<registry, channel_routes, session_channel_routes, runner,
                     tokens, finals, conn, task, announced>>
  BY DEF PushOutbound
<1>2. /\ forwarder.sid \in Sessions /\ forwarder.key \in Keys
      /\ creator[forwarder.sid] # None /\ origin[forwarder.sid] = forwarder.key
  BY <1>1, TypeParts DEF MapTypes, ForwarderState, IInv, Isolation
<1>3. item \in Items /\ item.session = forwarder.sid
  BY <1>2, TypeParts DEF MapTypes, Items
<1> HIDE DEF item
<1>4. channel_outbox \in [Keys -> Seq(Items)]
  BY TypeParts DEF MapTypes
<1> DEFINE q == channel_outbox[forwarder.key]
<1>5. /\ q \in Seq(Items) /\ Append(q, item) \in Seq(Items)
      /\ channel_outbox' = [channel_outbox EXCEPT ![forwarder.key] = Append(q, item)]
  BY <1>1, <1>2, <1>3, <1>4
<1> HIDE DEF q
<1>6. \A i \in DOMAIN Append(q, item) :
        \/ Append(q, item)[i] = item
        \/ i \in DOMAIN q /\ Append(q, item)[i] = q[i]
  BY <1>3, <1>5, PushedItems
<1>7. \A i \in DOMAIN q : origin[q[i].session] = forwarder.key /\ creator[q[i].session] # None
  BY <1>2 DEF IInv, Isolation, OutboxIsolated, q
<1> DEFINE p == Append(q, item)
<1>8. \A i \in DOMAIN p : origin[p[i].session] = forwarder.key /\ creator[p[i].session] # None
  BY <1>2, <1>3, <1>6, <1>7
<1>9. /\ channel_outbox' \in [Keys -> Seq(Items)]
      /\ channel_outbox'[forwarder.key] = p
      /\ \A k \in Keys \ {forwarder.key} : channel_outbox'[k] = channel_outbox[k]
  BY <1>2, <1>4, <1>5
<1> HIDE DEF p
<1>10. forwarder' \in ForwarderState /\ forwarder'.pc = "recv"
  BY <1>1 DEF ForwarderState
<1>11. MapTypes'
  BY <1>1, <1>9, <1>10, TypeParts DEF MapTypes, registry, runner
<1>12. OutboxIsolated'
  BY <1>1, <1>8, <1>9 DEF IInv, Isolation, OutboxIsolated, runner
<1>13. \A k \in Keys : \A i \in DOMAIN channel_outbox'[k] :
         creator'[channel_outbox'[k][i].session] # None
  BY <1>1, <1>8, <1>9 DEF IInv, Isolation, runner
<1>14. Isolation'
  BY <1>1, <1>10, <1>12, <1>13 DEF IInv, Isolation, RoutesIsolated, runner
<1> QED
  BY <1>1, <1>11, <1>14, HandlersStill

(* A poll takes items away and leaves the rest. *)
LEMMA PollNext ==
  ASSUME IInv, NEW k \in Keys, NEW n \in 1..MaxFinals, Poll(k, n) PROVE IInv'
<1> DEFINE q == channel_outbox[k]
           split == IF n < Len(q) THEN n ELSE Len(q)
           rest == SubSeq(q, split + 1, Len(q))
<1>1. /\ channel_outbox' = [channel_outbox EXCEPT ![k] = rest]
      /\ UNCHANGED <<registry, channel_routes, session_channel_routes, runner,
                     outside, conn, task, announced>>
  BY DEF Poll
<1>2. channel_outbox \in [Keys -> Seq(Items)] /\ q \in Seq(Items) /\ Len(q) \in Nat
  BY TypeParts DEF MapTypes
<1>3. n \in Nat /\ split \in 0..Len(q)
  BY <1>2, GatewayAssumption
<1>4. rest \in Seq(Items)
  BY <1>2, <1>3
<1>5. \A i \in DOMAIN rest : i + split \in DOMAIN q /\ rest[i] = q[i + split]
  BY <1>2, <1>3, DrainedItems
<1>6. \A i \in DOMAIN q : origin[q[i].session] = k /\ creator[q[i].session] # None
  BY DEF IInv, Isolation, OutboxIsolated
<1>7. \A i \in DOMAIN rest : origin[rest[i].session] = k /\ creator[rest[i].session] # None
  BY <1>5, <1>6
<1> HIDE DEF rest
<1>8. /\ channel_outbox' \in [Keys -> Seq(Items)]
      /\ channel_outbox'[k] = rest
      /\ \A j \in Keys \ {k} : channel_outbox'[j] = channel_outbox[j]
  BY <1>1, <1>2, <1>4
<1>9. MapTypes'
  BY <1>1, <1>8, TypeParts DEF MapTypes, registry, runner, outside
<1>10. OutboxIsolated'
  BY <1>1, <1>7, <1>8 DEF IInv, Isolation, OutboxIsolated, runner
<1>11. \A j \in Keys : \A i \in DOMAIN channel_outbox'[j] :
         creator'[channel_outbox'[j][i].session] # None
  BY <1>1, <1>7, <1>8 DEF IInv, Isolation, runner
<1>12. Isolation'
  BY <1>1, <1>10, <1>11 DEF IInv, Isolation, RoutesIsolated, runner, outside
<1> QED
  BY <1>1, <1>9, <1>12, HandlersStill

----------------------------------------------------------------------------
(* Theorems *)

(* Every step of a handler keeps IInv. *)
LEMMA HandlerNext ==
  ASSUME IInv, NEW t \in Tasks, HandlerStep(t) PROVE IInv'
<1>1. CASE AuthorizeOwned(t)         BY <1>1, AuthorizeOwnedNext
<1>2. CASE AuthorizeByOwner(t)       BY <1>2, AuthorizeByOwnerNext
<1>3. CASE BindResponses(t)          BY <1>3, BindResponsesNext
<1>4. CASE BindPriority(t)           BY <1>4, BindPriorityNext
<1>5. CASE NewSession(t)             BY <1>5, NewSessionNext
<1>6. CASE NewSessionFails(t)        BY <1>6, NewSessionFailsNext
<1>7. CASE InsertOwner(t)            BY <1>7, InsertOwnerNext
<1>8. CASE InsertResponseSender(t)   BY <1>8, InsertResponseSenderNext
<1>9. CASE InsertPrioritySender(t)   BY <1>9, InsertPrioritySenderNext
<1>10. CASE RemoveResponseSender(t)  BY <1>10, RemoveResponseSenderNext
<1>11. CASE RemovePrioritySender(t)  BY <1>11, RemovePrioritySenderNext
<1>12. CASE RemoveOwner(t)           BY <1>12, RemoveOwnerNext
<1>13. CASE RetainRoutes(t)          BY <1>13, RetainRoutesNext
<1>14. CASE UnindexTerminated(t)     BY <1>14, UnindexTerminatedNext
<1>15. CASE DiscardOutboxes(t)       BY <1>15, DiscardOutboxesNext
<1>16. CASE EndTerminated(t)         BY <1>16, EndTerminatedNext
<1>17. CASE ReadRoute(t)             BY <1>17, ReadRouteNext
<1>18. CASE RemoveRoute(t)           BY <1>18, RemoveRouteNext
<1>19. CASE UnindexReplaced(t)       BY <1>19, UnindexReplacedNext
<1>20. CASE DiscardOutbox(t)         BY <1>20, DiscardOutboxNext
<1>21. CASE EndReplaced(t)           BY <1>21, EndReplacedNext
<1>22. CASE CheckOwner(t)            BY <1>22, CheckOwnerNext
<1>23. CASE InsertRoute(t)           BY <1>23, InsertRouteNext
<1>24. CASE InsertIndex(t)           BY <1>24, InsertIndexNext
<1>25. CASE ToolCall(t)              BY <1>25, ToolCallNext
<1> QED
  BY <1>1, <1>2, <1>3, <1>4, <1>5, <1>6, <1>7, <1>8, <1>9, <1>10, <1>11, <1>12,
     <1>13, <1>14, <1>15, <1>16, <1>17, <1>18, <1>19, <1>20, <1>21, <1>22, <1>23,
     <1>24, <1>25 DEF HandlerStep

(* Every step of a client keeps IInv. *)
LEMMA ClientNext ==
  ASSUME IInv, NEW c \in Conns, ClientStep(c) PROVE IInv'
<1>1. CASE Open(c)
  BY <1>1, OpenNext
<1>2. CASE Pair(c) \/ Authenticate(c)
  BY <1>2, PairNext
<1>3. CASE Close(c)
  BY <1>3, CloseNext
<1>4. CASE BeginCreate(c)
  BY <1>4, BeginCreateNext
<1>5. CASE \E s \in Sessions : BeginUse(c, s) \/ BeginTerminate(c, s)
  BY <1>5, BeginOnNext
<1>6. CASE \E e \in Externals : ConnInbound(c, e)
  BY <1>6, ConnInboundNext
<1> QED
  BY <1>1, <1>2, <1>3, <1>4, <1>5, <1>6 DEF ClientStep

(* IInv holds at the start. *)
LEMMA InvariantInit == Init => IInv
<1> SUFFICES ASSUME Init PROVE IInv
  OBVIOUS
<1>1. TypeOK
  <2>1. forwarder \in ForwarderState
    BY DEF Init, ForwarderState
  <2>2. task \in [Tasks -> HandlerState] /\ conn \in [Tasks -> ConnectionState]
    BY IdleTyped DEF Init
  <2>3. channel_outbox \in [Keys -> Seq(Items)]
    BY DEF Init
  <2> QED
    BY <2>1, <2>2, <2>3, GatewayAssumption DEF Init, TypeOK
<1>2. ASSUME NEW t \in Tasks
      PROVE  /\ task[t] = IdleTask /\ task[t].pc = "idle" /\ task[t].op = "none"
             /\ task[t].sid = None /\ task[t].key = None
  BY DEF Init, IdleTask
<1>3. Locals
  BY <1>2 DEF Locals, LocalsAt, At, Key, Sid, RouteOps, RouteSteps, CreateSteps,
     SessionSteps, MappedSteps
<1>4. Exclusive
  BY <1>2 DEF Init, Exclusive, CreateSteps
<1>5. Ownership
  BY <1>2 DEF Init, Ownership, OwnedIsLive, NoOrphans, At, TerminatingSteps
<1>6. Isolation
  <2>1. None \notin Sessions \cup Keys
    BY GatewayAssumption
  <2>2. RoutesIsolated
    BY <2>1 DEF Init, RoutesIsolated
  <2>3. forwarder.pc = "recv" /\ \A k \in Keys : DOMAIN channel_outbox[k] = {}
    BY DEF Init
  <2> QED
    BY <2>2, <2>3 DEF Init, Isolation, OutboxIsolated
<1> QED
  BY <1>1, <1>3, <1>4, <1>5, <1>6 DEF IInv

(* Every step keeps IInv. *)
LEMMA InvariantNext == IInv /\ [Next]_vars => IInv'
<1> SUFFICES ASSUME IInv, [Next]_vars PROVE IInv'
  OBVIOUS
<1>1. CASE \E c \in Conns : ClientStep(c)
  BY <1>1, ClientNext
<1>2. CASE \E r \in Reqs, e \in Externals : Request(r, e)
  BY <1>2, RequestNext
<1>3. CASE \E r \in Cancellable : Cancel(r)
  BY <1>3, CancelNext
<1>4. CASE \E t \in Tasks : HandlerStep(t)
  BY <1>4, HandlerNext
<1>5. CASE \E s \in Sessions : ReceiveFinal(s)
  BY <1>5, ReceiveFinalNext
<1>6. CASE ForwarderStep
  BY <1>6, SendFinalNext, LookUpRouteNext, PushOutboundNext DEF ForwarderStep
<1>7. CASE \E k \in Keys, n \in 1..MaxFinals : Poll(k, n)
  BY <1>7, PollNext
<1>8. CASE UNCHANGED vars
  <2>1. /\ task' = task /\ conn' = conn /\ Still
    BY <1>8 DEF vars, Still
  <2>2. Isolation'
    BY <2>1, StillFixed, IsolationFrom DEF Fixed
  <2> QED
    BY <2>1, <2>2, StillFixed, HandlersStill DEF Still, channels
<1> QED
  BY <1>1, <1>2, <1>3, <1>4, <1>5, <1>6, <1>7, <1>8 DEF Next

(* The inductive invariant holds in every reachable state. *)
THEOREM InvariantHolds == Spec => []IInv
BY InvariantInit, InvariantNext, PTL DEF Spec

(* Every map of AppState and every local of a handler keeps its type.      *)
THEOREM GatewayTypeCorrect == Spec => []TypeOK
<1>1. IInv => TypeOK
  BY DEF IInv
<1> QED
  BY <1>1, InvariantHolds, PTL

(* session_owners never names a session the runner has let go of, nor      *)
(* another principal than the runner's user, however terminations, forced  *)
(* replacements, dropped requests and reconnects overlap.                  *)
THEOREM OwnersAreLive == Spec => []OwnedIsLive
<1>1. IInv => OwnedIsLive
  BY DEF IInv, Ownership
<1> QED
  BY <1>1, InvariantHolds, PTL

(* When no request is dropped half-way, every session of the runner has an *)
(* owner on record or a handler that is about to give it one or to end it: *)
(* nothing runs on that nobody can terminate.                              *)
THEOREM NothingOrphaned == Cancellable = {} => (Spec => []NoOrphans)
<1> SUFFICES ASSUME Cancellable = {} PROVE Spec => []NoOrphans
  OBVIOUS
<1>1. IInv => NoOrphans
  BY DEF IInv, Ownership
<1> QED
  BY <1>1, InvariantHolds, PTL

(* channel_routes and session_channel_routes never map a route to a        *)
(* session that was created for another route or another principal.        *)
THEOREM RoutesStayApart == Spec => []RoutesIsolated
<1>1. IInv => RoutesIsolated
  BY DEF IInv, Isolation
<1> QED
  BY <1>1, InvariantHolds, PTL

(* A poll of a route never drains what a session of another route said,    *)
(* although the forwarder looks the route up and pushes under two locks.   *)
THEOREM OutboxesStayApart == Spec => []OutboxIsolated
<1>1. IInv => OutboxIsolated
  BY DEF IInv, Isolation
<1> QED
  BY <1>1, InvariantHolds, PTL
=============================================================================
