---------------------------- MODULE GatewayMaps -----------------------------
(***************************************************************************)
(* The maps of the gateway agree with each other and with the connections: *)
(* routed sessions are indexed, senders belong to open connections, and an *)
(* outbox keeps the order of the transcripts.  The invariant is MapsInv,   *)
(* on top of IInv.                                                         *)
(***************************************************************************)
EXTENDS GatewayProofs

(* The tables of tasks and connections have their types. *)
LEMMA TablesTyped ==
  ASSUME IInv
  PROVE  task \in [Tasks -> HandlerState] /\ conn \in [Tasks -> ConnectionState]
BY TypeParts DEF TypeOK

----------------------------------------------------------------------------
(* Routes and their index *)

Unindexing == {"t_index", "f_index", "s_index"}

(* A step that leaves routes and index alone keeps RoutesInv, unless its   *)
(* task was about to index a session or is about to unindex one.           *)
LEMMA RoutesFrom ==
  ASSUME RoutesInv, NEW t \in Tasks, Others(t),
         UNCHANGED <<channel_routes, session_channel_routes>>,
         task'[t].pc \notin Unindexing,
         Cancellable = {} => ~At(t, "index")
  PROVE  RoutesInv'
<1>1. Unrouted'
  BY DEF RoutesInv, Unrouted, Unindexing, Others, Sid
<1>2. Cancellable = {} => RoutesIndexed'
  BY DEF RoutesInv, RoutesIndexed, Others, Sid, Key, At
<1> QED
  BY <1>1, <1>2 DEF RoutesInv

RouteAccess(t) ==
  \/ RetainRoutes(t) \/ UnindexTerminated(t) \/ RemoveRoute(t) \/ UnindexReplaced(t)
  \/ InsertRoute(t) \/ InsertIndex(t)

(* Every other step of a handler is one of those. *)
LEMMA HandlerRoutes ==
  ASSUME IInv, RoutesInv, NEW t \in Tasks, HandlerStep(t), ~RouteAccess(t)
  PROVE  RoutesInv'
<1> USE TablesTyped DEF HandlerState, At, Unindexing, Others, channels
<1>1. CASE AuthorizeOwned(t) \/ AuthorizeByOwner(t) \/ BindPriority(t)
  <2>1. Others(t) /\ task'[t].pc \notin Unindexing
    BY <1>1 DEF AuthorizeOwned, AuthorizeByOwner, BindPriority, Granted, AfterAccess,
       Go, Return, GoOwning, ReturnOwning, IdleTask
  <2> QED
    BY <1>1, <2>1, RoutesFrom DEF AuthorizeOwned, AuthorizeByOwner, BindPriority
<1>2. CASE InsertOwner(t) \/ InsertPrioritySender(t)
  <2>1. Others(t) /\ task'[t].pc \notin Unindexing
    BY <1>2 DEF InsertOwner, InsertPrioritySender, Created, Go, GoOwning, ReturnOwning,
       IdleTask
  <2> QED
    BY <1>2, <2>1, RoutesFrom DEF InsertOwner, InsertPrioritySender
<1>3. CASE NewSessionFails(t) \/ ToolCall(t) \/ EndTerminated(t)
  <2>1. Others(t) /\ task'[t].pc \notin Unindexing
    BY <1>3 DEF NewSessionFails, ToolCall, EndTerminated, Return, ReturnOwning, IdleTask
  <2> QED
    BY <1>3, <2>1, RoutesFrom DEF NewSessionFails, ToolCall, EndTerminated
<1>4. CASE NewSession(t) \/ ReadRoute(t) \/ CheckOwner(t)
  BY <1>4, RoutesFrom DEF NewSession, ReadRoute, CheckOwner, Go
<1>5. CASE BindResponses(t) \/ InsertResponseSender(t) \/ RemoveResponseSender(t)
             \/ RemovePrioritySender(t) \/ RemoveOwner(t)
  BY <1>5, RoutesFrom DEF BindResponses, InsertResponseSender, RemoveResponseSender,
     RemovePrioritySender, RemoveOwner, Go
<1>6. CASE DiscardOutboxes(t) \/ DiscardOutbox(t) \/ EndReplaced(t)
  BY <1>6, RoutesFrom DEF DiscardOutboxes, DiscardOutbox, EndReplaced, Go
<1> QED
  BY <1>1, <1>2, <1>3, <1>4, <1>5, <1>6 DEF HandlerStep, RouteAccess

(* Routes are taken out before they are unindexed, *)
LEMMA RetainRoutesRoutes ==
  ASSUME IInv, RoutesInv, NEW t \in Tasks, RetainRoutes(t)
  PROVE  RoutesInv'
<1>1. /\ At(t, "t_routes")
      /\ channel_routes' = [k \in Keys |->
           IF channel_routes[k] = Sid(t) THEN None ELSE channel_routes[k]]
      /\ session_channel_routes' = session_channel_routes
  BY DEF RetainRoutes
<1>2. Others(t) /\ Continues(t, "t_index")
  BY TablesTyped DEF RetainRoutes, Others, Continues, SameConn, HandlerState
<1>3. Sid(t) \in Sessions /\ None \notin Sessions
  BY <1>1, SidTyped, GatewayAssumption DEF At, SessionSteps, PCs
<1>4. ASSUME NEW u \in Tasks, task'[u].pc \in Unindexing, NEW k \in Keys
      PROVE  channel_routes'[k] # Sid(u)'
  <2>1. CASE u = t
    BY <1>1, <1>2, <1>3, <2>1 DEF Continues, Sid
  <2>2. CASE u # t
    <3>1. task'[u] = task[u] /\ channel_routes[k] # Sid(u)
      BY <1>2, <1>4, <2>2 DEF Others, RoutesInv, Unrouted, Unindexing
    <3>2. Sid(u) \in Sessions
      BY <1>4, <3>1, SidTyped DEF Unindexing, SessionSteps, PCs
    <3> QED
      BY <1>1, <1>3, <3>1, <3>2 DEF Sid
  <2> QED
    BY <2>1, <2>2
<1>5. ASSUME Cancellable = {}, NEW k \in Keys, NEW s \in Sessions,
             channel_routes'[k] = s
      PROVE  \/ session_channel_routes'[s] = k
             \/ \E u \in Tasks : (At(u, "index") /\ Sid(u) = s /\ Key(u) = k)'
  <2>1. channel_routes[k] = s
    BY <1>1, <1>3, <1>5
  <2> QED
    BY <1>1, <1>2, <1>5, <2>1 DEF RoutesInv, RoutesIndexed, Others, At, Sid, Key
<1> QED
  BY <1>4, <1>5 DEF RoutesInv, Unrouted, RoutesIndexed, Unindexing

(* one by one for the route of a message, *)
LEMMA RemoveRouteRoutes ==
  ASSUME IInv, RoutesInv, NEW t \in Tasks, RemoveRoute(t)
  PROVE  RoutesInv'
<1>1. /\ At(t, "f_route") \/ At(t, "s_route")
      /\ channel_routes' = [channel_routes EXCEPT ![Key(t)] = None]
      /\ session_channel_routes' = session_channel_routes
  BY DEF RemoveRoute
<1>2. channel_routes \in [Keys -> Sessions \cup {None}]
  BY TypeParts DEF MapTypes
<1>3. Sid(t) \in Sessions /\ None \notin Sessions /\ origin[Sid(t)] = Key(t)
  BY <1>1, SidTyped, GatewayAssumption
     DEF At, SessionSteps, PCs, IInv, Locals, LocalsAt, MappedSteps, RouteSteps
<1>4. /\ Others(t) /\ task'[t].pc \in {"f_index", "s_index"}
      /\ Sid(t)' = Sid(t)
  BY TablesTyped DEF RemoveRoute, Go, Others, HandlerState, Sid
<1>5. \A k \in Keys : channel_routes'[k] # Sid(t)
  BY <1>1, <1>2, <1>3 DEF IInv, Isolation, RoutesIsolated
<1>6. ASSUME NEW u \in Tasks, task'[u].pc \in Unindexing, NEW k \in Keys
      PROVE  channel_routes'[k] # Sid(u)'
  <2>1. CASE u = t
    BY <1>4, <1>5, <2>1
  <2>2. CASE u # t
    <3>1. task'[u] = task[u] /\ channel_routes[k] # Sid(u)
      BY <1>4, <1>6, <2>2 DEF Others, RoutesInv, Unrouted, Unindexing
    <3>2. Sid(u) \in Sessions
      BY <1>6, <3>1, SidTyped DEF Unindexing, SessionSteps, PCs
    <3> QED
      BY <1>1, <1>2, <1>3, <3>1, <3>2 DEF Sid
  <2> QED
    BY <2>1, <2>2
<1>7. ASSUME Cancellable = {}, NEW k \in Keys, NEW s \in Sessions,
             channel_routes'[k] = s
      PROVE  \/ session_channel_routes'[s] = k
             \/ \E u \in Tasks : (At(u, "index") /\ Sid(u) = s /\ Key(u) = k)'
  <2>1. channel_routes[k] = s
    BY <1>1, <1>2, <1>3, <1>7
  <2> QED
    BY <1>1, <1>4, <1>7, <2>1 DEF RoutesInv, RoutesIndexed, Others, At, Sid, Key
<1> QED
  BY <1>6, <1>7 DEF RoutesInv, Unrouted, RoutesIndexed, Unindexing

(* so that unindexing a session disturbs no route. *)
LEMMA UnindexRoutes ==
  ASSUME IInv, RoutesInv, NEW t \in Tasks, UnindexTerminated(t) \/ UnindexReplaced(t)
  PROVE  RoutesInv'
<1>1. /\ task[t].pc \in Unindexing
      /\ session_channel_routes' = [session_channel_routes EXCEPT ![Sid(t)] = None]
      /\ channel_routes' = channel_routes
  BY DEF UnindexTerminated, UnindexReplaced, At, Unindexing
<1>2. /\ Others(t) /\ task'[t].pc \notin Unindexing
  BY TablesTyped DEF UnindexTerminated, UnindexReplaced, Go, Others, HandlerState,
     Unindexing
<1>3. Unrouted'
  BY <1>1, <1>2 DEF RoutesInv, Unrouted, Unindexing, Others, Sid
<1>4. ASSUME Cancellable = {}, NEW k \in Keys, NEW s \in Sessions,
             channel_routes'[k] = s
      PROVE  \/ session_channel_routes'[s] = k
             \/ \E u \in Tasks : (At(u, "index") /\ Sid(u) = s /\ Key(u) = k)'
  <2>1. s # Sid(t)
    BY <1>1, <1>4 DEF RoutesInv, Unrouted, Unindexing
  <2>2. session_channel_routes'[s] = session_channel_routes[s]
    BY <1>1, <2>1, TypeParts DEF MapTypes
  <2>3. task[t].pc # "index"
    BY <1>1 DEF Unindexing
  <2> QED
    BY <1>1, <1>2, <1>4, <2>2, <2>3 DEF RoutesInv, RoutesIndexed, Others, At, Sid, Key
<1> QED
  BY <1>3, <1>4 DEF RoutesInv, RoutesIndexed

(* A new route is for a session nobody else can name, and about to be      *)
(* indexed.                                                                *)
LEMMA InsertRouteRoutes ==
  ASSUME IInv, RoutesInv, NEW t \in Tasks, InsertRoute(t)
  PROVE  RoutesInv'
<1>1. /\ At(t, "route")
      /\ channel_routes' = [channel_routes EXCEPT ![Key(t)] = Sid(t)]
      /\ session_channel_routes' = session_channel_routes
  BY DEF InsertRoute
<1>2. channel_routes \in [Keys -> Sessions \cup {None}]
  BY TypeParts DEF MapTypes
<1>3. \A u \in Tasks \ {t} : Sid(u) # Sid(t)
  BY <1>1 DEF IInv, Exclusive, CreateSteps, At
<1>4. Others(t) /\ Continues(t, "index")
  BY TablesTyped DEF InsertRoute, Go, Others, Continues, SameConn, HandlerState
<1>5. Unrouted'
  BY <1>1, <1>2, <1>3, <1>4
     DEF RoutesInv, Unrouted, Unindexing, Others, Continues, Sid
<1>6. ASSUME Cancellable = {}, NEW k \in Keys, NEW s \in Sessions,
             channel_routes'[k] = s
      PROVE  \/ session_channel_routes'[s] = k
             \/ \E u \in Tasks : (At(u, "index") /\ Sid(u) = s /\ Key(u) = k)'
  <2>1. CASE k = Key(t)
    <3>1. s = Sid(t)
      BY <1>1, <1>2, <1>6, <2>1
    <3> QED
      BY <1>4, <2>1, <3>1 DEF Continues, At, Sid, Key
  <2>2. CASE k # Key(t)
    <3>1. channel_routes[k] = s
      BY <1>1, <1>2, <1>6, <2>2
    <3> QED
      BY <1>1, <1>4, <1>6, <3>1 DEF RoutesInv, RoutesIndexed, Others, At, Sid, Key
  <2> QED
    BY <2>1, <2>2
<1> QED
  BY <1>5, <1>6 DEF RoutesInv, RoutesIndexed

(* A session is indexed under the only route it can have. *)
LEMMA InsertIndexRoutes ==
  ASSUME IInv, RoutesInv, NEW t \in Tasks, InsertIndex(t)
  PROVE  RoutesInv'
<1>1. /\ At(t, "index")
      /\ session_channel_routes' = [session_channel_routes EXCEPT ![Sid(t)] = Key(t)]
      /\ channel_routes' = channel_routes
  BY DEF InsertIndex
<1>2. Others(t) /\ Continues(t, "authorize")
  BY TablesTyped DEF InsertIndex, Go, Others, Continues, SameConn, HandlerState
<1>3. Unrouted'
  BY <1>1, <1>2 DEF RoutesInv, Unrouted, Unindexing, Others, Continues, Sid
<1>4. origin[Sid(t)] = Key(t)
  BY <1>1 DEF IInv, Locals, LocalsAt, MappedSteps, RouteSteps, At
<1>5. ASSUME Cancellable = {}, NEW k \in Keys, NEW s \in Sessions,
             channel_routes'[k] = s
      PROVE  \/ session_channel_routes'[s] = k
             \/ \E u \in Tasks : (At(u, "index") /\ Sid(u) = s /\ Key(u) = k)'
  <2>1. channel_routes[k] = s /\ origin[s] = k
    BY <1>1, <1>5 DEF IInv, Isolation, RoutesIsolated
  <2>2. session_channel_routes \in [Sessions -> Keys \cup {None}]
    BY TypeParts DEF MapTypes
  <2>3. CASE s = Sid(t)
    BY <1>1, <1>4, <2>1, <2>2, <2>3
  <2>4. CASE s # Sid(t)
    BY <1>1, <1>2, <1>5, <2>1, <2>2, <2>4
       DEF RoutesInv, RoutesIndexed, Others, At, Sid, Key
  <2> QED
    BY <2>3, <2>4
<1> QED
  BY <1>3, <1>5 DEF RoutesInv, RoutesIndexed

(* A connection or a request that starts, changes or drops its handler. *)
LEMMA ClientRoutes ==
  ASSUME IInv, RoutesInv, NEW t \in Tasks,
         \/ t \in Conns /\ ClientStep(t)
         \/ \E e \in Externals : t \in Reqs /\ Request(t, e)
         \/ t \in Cancellable /\ Cancel(t)
  PROVE  RoutesInv'
<1> USE TablesTyped DEF HandlerState, At, Unindexing, Others, channels
<1>1. CASE t \in Conns /\ (Open(t) \/ Pair(t) \/ Authenticate(t) \/ Close(t))
  <2>1. /\ \A u \in Tasks \ {t} : conn'[u] = conn[u]
        /\ task' = task /\ UNCHANGED channels
    BY <1>1 DEF Open, Pair, Authenticate, Identify, Close
  <2> QED
    BY <2>1 DEF RoutesInv, Unrouted, RoutesIndexed, Sid, Key
<1>2. CASE t \in Conns /\ BeginCreate(t)
  BY <1>2, RoutesFrom DEF BeginCreate, Ready
<1>6. ASSUME NEW p, NEW e, NEW op, NEW force, BeginInbound(t, p, e, op, force)
      PROVE  task'[t].pc = "read_route" /\ \A u \in Tasks \ {t} : task'[u] = task[u]
  BY <1>6 DEF BeginInbound
<1>7. CASE t \in Conns /\ \E e \in Externals : ConnInbound(t, e)
  BY <1>6, <1>7, RoutesFrom DEF ConnInbound, Ready
<1>3. CASE t \in Conns /\ \E s \in Sessions : BeginUse(t, s) \/ BeginTerminate(t, s)
  BY <1>3, RoutesFrom DEF BeginUse, BeginTerminate, BeginOn, Ready
<1>4. CASE \E e \in Externals : t \in Reqs /\ Request(t, e)
  <2>1. Others(t) /\ task'[t].pc = "read_route" /\ task[t].pc = "idle"
    BY <1>4, <1>6 DEF Request
  <2> QED
    BY <1>4, <2>1, RoutesFrom DEF Request
<1>5. CASE t \in Cancellable /\ Cancel(t)
  BY <1>5, RoutesFrom DEF Cancel, Return, IdleTask
<1> QED
  BY <1>1, <1>2, <1>3, <1>4, <1>5, <1>7 DEF ClientStep

(* Every step keeps RoutesInv. *)
LEMMA RoutesNext == IInv /\ RoutesInv /\ [Next]_vars => RoutesInv'
<1> SUFFICES ASSUME IInv, RoutesInv, [Next]_vars PROVE RoutesInv'
  OBVIOUS
<1>1. CASE \E c \in Conns : ClientStep(c)
  BY <1>1, ClientRoutes DEF Tasks
<1>2. CASE \E r \in Reqs, e \in Externals : Request(r, e)
  BY <1>2, ClientRoutes DEF Tasks
<1>3. CASE \E r \in Cancellable : Cancel(r)
  BY <1>3, ClientRoutes, GatewayAssumption DEF Tasks
<1>4. CASE \E t \in Tasks : HandlerStep(t)
  BY <1>4, HandlerRoutes, RetainRoutesRoutes, RemoveRouteRoutes, UnindexRoutes,
     InsertRouteRoutes, InsertIndexRoutes DEF RouteAccess
<1>5. ASSUME task' = task, UNCHANGED <<channel_routes, session_channel_routes>>
      PROVE  RoutesInv'
  BY <1>5 DEF RoutesInv, Unrouted, RoutesIndexed, At, Sid, Key
<1>6. CASE \E s \in Sessions : ReceiveFinal(s)
  BY <1>5, <1>6 DEF ReceiveFinal, channels
<1>7. CASE ForwarderStep
  BY <1>5, <1>7 DEF ForwarderStep, SendFinal, LookUpRoute, PushOutbound, channels
<1>8. CASE \E k \in Keys, n \in 1..MaxFinals : Poll(k, n)
  BY <1>5, <1>8 DEF Poll
<1>9. CASE UNCHANGED vars
  BY <1>5, <1>9 DEF vars, channels
<1> QED
  BY <1>1, <1>2, <1>3, <1>4, <1>6, <1>7, <1>8, <1>9 DEF Next

(* Nothing is routed at the start. *)
LEMMA RoutesInit == Init => RoutesInv
BY GatewayAssumption DEF Init, RoutesInv, Unrouted, RoutesIndexed, IdleTask

----------------------------------------------------------------------------
(* Senders and the connections they belong to *)

(* A step binds no connection but the one of its task. *)
BindsOwn(t) ==
  \A s \in Sessions :
    /\ ws_response_senders'[s] \in {ws_response_senders[s], None, Temp, t}
    /\ ws_priority_senders'[s] \in {ws_priority_senders[s], None, Temp, t}

(* So the other connections' senders are as they were, *)
LEMMA SendersFrom ==
  ASSUME IInv, SendersInv, NEW t \in Tasks, Others(t), BindsOwn(t),
         t \in Conns => SendersAt(t)'
  PROVE  SendersInv'
<1> SUFFICES ASSUME NEW c \in Conns, c # t PROVE SendersAt(c)'
  BY DEF SendersInv
<1>1. c \in Tasks /\ c \notin {None, Temp, t}
  BY GatewayAssumption DEF Tasks
<1>2. task'[c] = task[c] /\ conn'[c] = conn[c] /\ SendersAt(c)
  BY <1>1 DEF Others, SendersInv
<1>3. task[c].pc \in Unanswered \cup {"bind", "bind_priority"} => Sid(c) \in Sessions
  BY <1>1, SidTyped DEF Unanswered, SessionSteps, PCs
<1> QED
  BY <1>1, <1>2, <1>3 DEF SendersAt, BindsOwn, At, Sid

Bound == Unanswered \cup {"bind", "bind_priority"}

(* and if the step neither unbinds nor starts to bind, so are its own.     *)
LEMMA SendersKept ==
  ASSUME IInv, SendersInv, NEW t \in Tasks, Others(t),
         UNCHANGED <<ws_response_senders, ws_priority_senders>>,
         t \in Conns => /\ conn'[t].status = conn[t].status
                        /\ conn[t].owned \subseteq conn'[t].owned,
         task'[t].pc \notin Bound, ~At(t, "own_priority")
  PROVE  SendersInv'
<1>1. BindsOwn(t)
  BY DEF BindsOwn
<1>2. t \in Conns => SendersAt(t)'
  BY DEF SendersInv, SendersAt, Bound, At
<1> QED
  BY <1>1, <1>2, SendersFrom

(* A handler on its way through the routes and the runner. *)
LEMMA PassingSenders ==
  ASSUME IInv, SendersInv, NEW t \in Tasks,
         \/ NewSession(t) \/ NewSessionFails(t) \/ ReadRoute(t) \/ RemoveRoute(t)
         \/ UnindexReplaced(t) \/ DiscardOutbox(t) \/ EndReplaced(t) \/ CheckOwner(t)
         \/ InsertRoute(t) \/ InsertIndex(t) \/ ToolCall(t) \/ InsertOwner(t)
  PROVE  SendersInv'
<1> USE TablesTyped DEF At, Bound, Unanswered, registry
<1>1. CASE NewSession(t) \/ ReadRoute(t) \/ CheckOwner(t)
  BY <1>1, SendersKept DEF NewSession, ReadRoute, CheckOwner, Go, Others, HandlerState
<1>2. CASE RemoveRoute(t) \/ UnindexReplaced(t) \/ DiscardOutbox(t)
             \/ EndReplaced(t) \/ InsertRoute(t) \/ InsertIndex(t)
  BY <1>2, SendersKept DEF RemoveRoute, UnindexReplaced, DiscardOutbox, EndReplaced,
     InsertRoute, InsertIndex, Go, Others, HandlerState
<1>3. CASE NewSessionFails(t) \/ ToolCall(t)
  <2>1. Others(t) /\ task'[t].pc = "idle" /\ (t \in Conns => conn'[t] = conn[t])
    BY <1>3 DEF NewSessionFails, ToolCall, Return, Others, IdleTask
  <2> QED
    BY <1>3, <2>1, SendersKept DEF NewSessionFails, ToolCall
<1>4. CASE InsertOwner(t)
  <2>1. At(t, "own")
    BY <1>4 DEF InsertOwner
  <2>2. CASE Mailbox(t) = None
    <3>1. Created(t) /\ Sid(t) \in Sessions
      BY <1>4, <2>1, <2>2, SidTyped DEF InsertOwner, SessionSteps, PCs
    <3>2. /\ Others(t) /\ task'[t].pc \in {"idle", "route"}
          /\ t \in Conns => SameConn(t) /\ conn[t].owned \subseteq conn'[t].owned
      BY <3>1, CreatedEffect, TypeParts DEF Ends, IdleTask, Continues
    <3> QED
      BY <1>4, <2>1, <3>2, SendersKept DEF InsertOwner, SameConn
  <2>3. CASE Mailbox(t) # None
    <3>1. Go(t, "own_response")
      BY <1>4, <2>3 DEF InsertOwner
    <3>2. Others(t) /\ task'[t].pc = "own_response" /\ conn' = conn
      BY <3>1 DEF Go, Others, HandlerState
    <3> QED
      BY <1>4, <2>1, <3>2, SendersKept DEF InsertOwner
  <2> QED
    BY <2>2, <2>3
<1> QED
  BY <1>1, <1>2, <1>3, <1>4

(* What has been granted is owned. *)
LEMMA GrantedSenders ==
  ASSUME IInv, SendersInv, NEW t \in Tasks,
         NEW owned \in SUBSET Sessions, conn[t].owned \subseteq owned,
         Granted(t, owned)
  PROVE  /\ Others(t) /\ task'[t].pc \notin Bound \cup {"own_priority"}
         /\ t \in Conns => conn'[t].status = conn[t].status /\ conn'[t].owned = owned
<1>1. Others(t) /\ GoesOn(t) /\ (t \in Conns => conn'[t].owned = owned)
  BY GrantedEffect, TypeParts
<1>2. t \in Conns => conn'[t].status = conn[t].status
  BY <1>1 DEF GoesOn, Ends, Continues, SameConn
<1>3. task'[t].pc \in {"idle", "t_response", "tool_call", "authorize"}
  BY <1>1 DEF GoesOn, Ends, IdleTask
<1> QED
  BY <1>1, <1>2, <1>3 DEF Bound, Unanswered

(* A handler that goes on to bind its connection owns the session.         *)
LEMMA AuthorizeSenders ==
  ASSUME IInv, SendersInv, NEW t \in Tasks, AuthorizeOwned(t) \/ AuthorizeByOwner(t)
  PROVE  SendersInv'
<1>1. At(t, "authorize") /\ UNCHANGED <<ws_response_senders, ws_priority_senders>>
  BY DEF AuthorizeOwned, AuthorizeByOwner, registry
<1>2. Sid(t) \in Sessions /\ conn[t].owned \in SUBSET Sessions
  BY <1>1, SidTyped, OwnedTyped DEF At, SessionSteps, PCs
<1> DEFINE owned == conn[t].owned \cup {Sid(t)}
<1>3. owned \in SUBSET Sessions /\ conn[t].owned \subseteq owned
  BY <1>2
<1>4. CASE Return(t)
  <2>1. Others(t) /\ task'[t].pc = "idle" /\ (t \in Conns => conn'[t] = conn[t])
    BY <1>4, TablesTyped DEF Return, Others, IdleTask
  <2> QED
    BY <1>1, <2>1, SendersKept DEF At, Bound, Unanswered
<1>5. CASE Granted(t, conn[t].owned) \/ Granted(t, owned)
  BY <1>1, <1>2, <1>3, <1>5, GrantedSenders, SendersKept DEF At
<1>6. CASE \/ Go(t, "bind") /\ Sid(t) \in conn[t].owned
           \/ GoOwning(t, "bind", owned)
  <2>1. /\ Others(t) /\ task'[t].pc = "bind" /\ task'[t].sid = task[t].sid
        /\ conn'[t].status = conn[t].status /\ conn[t].owned \subseteq conn'[t].owned
        /\ Sid(t) \in conn'[t].owned
    <3>1. CASE Go(t, "bind") /\ Sid(t) \in conn[t].owned
      BY <1>6, <3>1, TablesTyped DEF Go, Others, HandlerState
    <3>2. CASE GoOwning(t, "bind", owned)
      <4>1. "bind" \in PCs
        BY DEF PCs
      <4> HIDE DEF owned
      <4>2. Others(t) /\ Continues(t, "bind") /\ conn'[t].owned = owned
        BY <1>3, <3>2, <4>1, GoOwningEffect, TypeParts
      <4> QED
        BY <4>2 DEF Continues, SameConn, owned
    <3> QED
      BY <1>6, <3>1, <3>2
  <2>2. BindsOwn(t)
    BY <1>1 DEF BindsOwn
  <2>3. t \in Conns => SendersAt(t)'
    BY <1>1, <2>1 DEF SendersInv, SendersAt, Unanswered, At, Sid
  <2> QED
    BY <2>1, <2>2, <2>3, SendersFrom
<1>7. CASE AuthorizeOwned(t)
  BY <1>4, <1>5, <1>6, <1>7 DEF AuthorizeOwned
<1>8. CASE AuthorizeByOwner(t)
  BY <1>4, <1>5, <1>6, <1>8 DEF AuthorizeByOwner
<1> QED
  BY <1>7, <1>8

(* A handler binds its own connection, a mailbox of its own, or nobody. *)
LEMMA MailboxOwn == ASSUME NEW t PROVE Mailbox(t) \in {t, Temp, None}
BY DEF Mailbox

(* A sender is bound to a session the connection owns already, or to one   *)
(* it comes to own with the next step.                                     *)
LEMMA BindSenders ==
  ASSUME IInv, SendersInv, NEW t \in Tasks,
         BindResponses(t) \/ InsertResponseSender(t)
  PROVE  SendersInv'
<1>1. /\ At(t, "bind") \/ At(t, "own_response")
      /\ ws_response_senders' = [ws_response_senders EXCEPT ![Sid(t)] = Mailbox(t)]
      /\ ws_priority_senders' = ws_priority_senders
  BY DEF BindResponses, InsertResponseSender
<1>2. /\ Others(t) /\ conn' = conn /\ task'[t].sid = task[t].sid
      /\ task'[t].pc = IF At(t, "bind") THEN "bind_priority" ELSE "own_priority"
  BY TablesTyped DEF BindResponses, InsertResponseSender, Go, Others, HandlerState, At
<1>3. ws_response_senders \in [Sessions -> Mailboxes \cup {None}] /\ Sid(t) \in Sessions
  BY <1>1, SidTyped, TypeParts DEF MapTypes, At, SessionSteps, PCs
<1>4. ~At(t, "idle") /\ (t \in Conns => conn[t].status = "open")
  BY <1>1 DEF At, IInv, Locals, LocalsAt
<1>5. BindsOwn(t)
  BY <1>1, <1>3, MailboxOwn DEF BindsOwn
<1>6. t \in Conns => SendersAt(t)'
  BY <1>1, <1>2, <1>3, <1>4 DEF SendersInv, SendersAt, Unanswered, At, Sid
<1> QED
  BY <1>2, <1>5, <1>6, SendersFrom

(* And the same for its priority mailbox. *)
LEMMA BindPrioritySenders ==
  ASSUME IInv, SendersInv, NEW t \in Tasks,
         BindPriority(t) \/ InsertPrioritySender(t)
  PROVE  SendersInv'
<1>1. /\ At(t, "bind_priority") \/ At(t, "own_priority")
      /\ ws_priority_senders' = [ws_priority_senders EXCEPT ![Sid(t)] = Mailbox(t)]
      /\ ws_response_senders' = ws_response_senders
  BY DEF BindPriority, InsertPrioritySender
<1>2. /\ ws_priority_senders \in [Sessions -> Mailboxes \cup {None}]
      /\ Sid(t) \in Sessions /\ conn[t].owned \in SUBSET Sessions
  BY <1>1, SidTyped, OwnedTyped, TypeParts DEF MapTypes, At, SessionSteps, PCs
<1>3. t \in Conns => conn[t].status = "open" /\ SendersAt(t)
  BY <1>1 DEF At, IInv, Locals, LocalsAt, SendersInv
<1>4. /\ Others(t) /\ task'[t].pc \notin Bound \cup {"own_priority"}
      /\ t \in Conns => /\ conn'[t].status = conn[t].status
                        /\ conn[t].owned \subseteq conn'[t].owned
                        /\ Sid(t) \in conn'[t].owned
  <2>1. CASE BindPriority(t)
    <3>1. Granted(t, conn[t].owned) /\ At(t, "bind_priority")
      BY <2>1 DEF BindPriority
    <3>2. t \in Conns => Sid(t) \in conn[t].owned
      BY <1>3, <3>1 DEF SendersAt, At
    <3> QED
      BY <1>2, <3>1, <3>2, GrantedSenders
  <2>2. CASE InsertPrioritySender(t)
    <3>1. Created(t)
      BY <2>2 DEF InsertPrioritySender
    <3>2. /\ Others(t) /\ (Ends(t) \/ Continues(t, "route"))
          /\ t \in Conns => conn'[t].owned = conn[t].owned \cup {Sid(t)}
      BY <1>2, <3>1, CreatedEffect, TypeParts
    <3>3. task'[t].pc \in {"idle", "route"} /\ (t \in Conns => SameConn(t))
      BY <3>2 DEF Ends, Continues, IdleTask
    <3> QED
      BY <3>2, <3>3 DEF SameConn, Bound, Unanswered
  <2> QED
    BY <2>1, <2>2 DEF BindPriority, InsertPrioritySender
<1>5. BindsOwn(t)
  BY <1>1, <1>2, MailboxOwn DEF BindsOwn
<1>6. t \in Conns => SendersAt(t)'
  BY <1>1, <1>2, <1>3, <1>4 DEF SendersAt, Bound, At
<1> QED
  BY <1>4, <1>5, <1>6, SendersFrom

(* A termination removes both senders before anything else, *)
LEMMA RemoveSenders ==
  ASSUME IInv, SendersInv, NEW t \in Tasks,
         RemoveResponseSender(t) \/ RemovePrioritySender(t)
  PROVE  SendersInv'
<1>1. /\ task[t].pc \in {"t_response", "f_response", "t_priority", "f_priority"}
      /\ IF task[t].pc \in {"t_response", "f_response"}
         THEN /\ ws_response_senders' = [ws_response_senders EXCEPT ![Sid(t)] = None]
              /\ ws_priority_senders' = ws_priority_senders
         ELSE /\ ws_priority_senders' = [ws_priority_senders EXCEPT ![Sid(t)] = None]
              /\ ws_response_senders' = ws_response_senders
  BY DEF RemoveResponseSender, RemovePrioritySender, At
<1>2. /\ Others(t) /\ conn' = conn /\ task'[t].sid = task[t].sid
      /\ task[t].pc = "t_response" => task'[t].pc = "t_priority"
      /\ task[t].pc = "t_priority" => task'[t].pc = "t_owner"
      /\ task[t].pc \in {"f_response", "f_priority"} =>
           task'[t].pc \in {"f_priority", "f_owner"}
  BY TablesTyped DEF RemoveResponseSender, RemovePrioritySender, Go, Others,
     HandlerState, At
<1>3. /\ ws_response_senders \in [Sessions -> Mailboxes \cup {None}]
      /\ ws_priority_senders \in [Sessions -> Mailboxes \cup {None}]
      /\ Sid(t) \in Sessions
  BY <1>1, SidTyped, TypeParts DEF MapTypes, At, SessionSteps, PCs
<1>4. BindsOwn(t)
  BY <1>1, <1>3 DEF BindsOwn
<1>5. t \in Conns => SendersAt(t)'
  BY <1>1, <1>2, <1>3, GatewayAssumption
     DEF SendersInv, SendersAt, Unanswered, At, Sid
<1> QED
  BY <1>2, <1>4, <1>5, SendersFrom

(* leaves them as they are on its way, *)
LEMMA UnansweredSenders ==
  ASSUME IInv, SendersInv, NEW t \in Tasks,
         RemoveOwner(t) \/ RetainRoutes(t) \/ UnindexTerminated(t) \/ DiscardOutboxes(t)
  PROVE  SendersInv'
<1>1. UNCHANGED <<ws_response_senders, ws_priority_senders>>
  BY DEF RemoveOwner, RetainRoutes, UnindexTerminated, DiscardOutboxes, registry
<1>2. /\ Others(t) /\ conn' = conn /\ task'[t].sid = task[t].sid
      /\ \/ task[t].pc = "f_owner" /\ task'[t].pc = "f_runner"
         \/ {task[t].pc, task'[t].pc} \subseteq Unanswered \ {"t_priority"}
  BY TablesTyped DEF RemoveOwner, RetainRoutes, UnindexTerminated, DiscardOutboxes,
     Go, Others, HandlerState, At, Unanswered
<1>3. BindsOwn(t)
  BY <1>1 DEF BindsOwn
<1>4. t \in Conns => SendersAt(t)'
  BY <1>1, <1>2 DEF SendersInv, SendersAt, Unanswered, At, Sid
<1> QED
  BY <1>2, <1>3, <1>4, SendersFrom

(* and only then does the connection give up the session. *)
LEMMA EndTerminatedSenders ==
  ASSUME IInv, SendersInv, NEW t \in Tasks, EndTerminated(t)
  PROVE  SendersInv'
<1>1. /\ task[t].pc = "t_runner"
      /\ UNCHANGED <<ws_response_senders, ws_priority_senders>>
      /\ ReturnOwning(t, conn[t].owned \ {Sid(t)})
  BY DEF EndTerminated, At, registry
<1>2. conn[t].owned \ {Sid(t)} \in SUBSET Sessions
  BY OwnedTyped
<1>3. /\ Others(t) /\ task'[t].pc = "idle"
      /\ t \in Conns => /\ conn'[t].status = conn[t].status
                        /\ conn'[t].owned = conn[t].owned \ {Sid(t)}
  BY <1>1, <1>2, ReturnOwningEffect, TypeParts DEF Ends, IdleTask, SameConn
<1>4. BindsOwn(t)
  BY <1>1 DEF BindsOwn
<1>5. t \in Conns => SendersAt(t)'
  BY <1>1, <1>3 DEF SendersInv, SendersAt, Unanswered, At, Sid
<1> QED
  BY <1>3, <1>4, <1>5, SendersFrom

(* A connection closes between two handlers, when it owns every session it *)
(* is bound to.                                                            *)
LEMMA CloseSenders ==
  ASSUME IInv, SendersInv, NEW c \in Conns, Close(c)
  PROVE  SendersInv'
<1>1. c \in Tasks /\ c \notin {None, Temp}
  BY GatewayAssumption DEF Tasks
<1>2. /\ At(c, "idle") /\ task' = task
      /\ \A s \in Sessions :
           /\ ws_response_senders'[s] =
                IF s \in conn[c].owned THEN None ELSE ws_response_senders[s]
           /\ ws_priority_senders'[s] =
                IF s \in conn[c].owned THEN None ELSE ws_priority_senders[s]
      /\ conn' = [conn EXCEPT ![c].status = "closed", ![c].owned = {}]
  BY DEF Close, Ready
<1>3. Others(c) /\ BindsOwn(c)
  BY <1>1, <1>2, TablesTyped DEF Others, BindsOwn
<1>4. SendersAt(c)'
  BY <1>1, <1>2 DEF SendersInv, SendersAt, Unanswered, At, Sid
<1> QED
  BY <1>1, <1>3, <1>4, SendersFrom

(* A connection or a request that starts, changes or drops its handler. *)
LEMMA ClientSenders ==
  ASSUME IInv, SendersInv, NEW t \in Tasks,
         \/ t \in Conns /\ ClientStep(t)
         \/ \E e \in Externals : t \in Reqs /\ Request(t, e)
         \/ t \in Cancellable /\ Cancel(t)
  PROVE  SendersInv'
<1> USE TablesTyped DEF HandlerState, At, Bound, Unanswered, Others, registry
<1>1. CASE t \in Conns /\ Open(t)
  <2>1. Others(t) /\ BindsOwn(t)
    BY <1>1 DEF Open, BindsOwn
  <2>2. /\ conn[t].status = "new" /\ task' = task
        /\ UNCHANGED <<ws_response_senders, ws_priority_senders>>
    BY <1>1 DEF Open
  <2>3. task[t].pc = "idle"
    BY <1>1, <2>2 DEF IInv, Locals, LocalsAt
  <2>4. SendersAt(t)'
    BY <1>1, <2>2, <2>3 DEF SendersInv, SendersAt
  <2> QED
    BY <2>1, <2>4, SendersFrom
<1>2. CASE t \in Conns /\ (Pair(t) \/ Authenticate(t))
  <2>1. PICK p : Identify(t, p)
    BY <1>2 DEF Pair, Authenticate
  <2>2. /\ Others(t) /\ task' = task /\ task[t].pc = "idle"
        /\ UNCHANGED <<ws_response_senders, ws_priority_senders>>
    BY <1>2, <2>1 DEF Identify, Ready
  <2>3. conn'[t].status = conn[t].status /\ conn'[t].owned = conn[t].owned
    BY <2>1 DEF Identify, ConnectionState
  <2> QED
    BY <2>2, <2>3, SendersKept
<1>3. CASE t \in Conns /\ Close(t)
  BY <1>3, CloseSenders
<1>4. CASE t \in Conns /\ BeginCreate(t)
  BY <1>4, SendersKept DEF BeginCreate, Ready
<1>5. ASSUME NEW p, NEW e, NEW op, NEW force, BeginInbound(t, p, e, op, force)
      PROVE  task'[t].pc = "read_route" /\ \A u \in Tasks \ {t} : task'[u] = task[u]
  BY <1>5 DEF BeginInbound
<1>6. CASE t \in Conns /\ \E e \in Externals : ConnInbound(t, e)
  BY <1>5, <1>6, SendersKept DEF ConnInbound, Ready
<1>7. CASE t \in Conns /\ \E s \in Sessions : BeginUse(t, s) \/ BeginTerminate(t, s)
  BY <1>7, SendersKept DEF BeginUse, BeginTerminate, BeginOn, Ready
<1>8. CASE \E e \in Externals : t \in Reqs /\ Request(t, e)
  <2>1. Others(t) /\ task'[t].pc = "read_route" /\ task[t].pc = "idle"
    BY <1>5, <1>8 DEF Request
  <2> QED
    BY <1>8, <2>1, SendersKept, GatewayAssumption DEF Request
<1>9. CASE t \in Cancellable /\ Cancel(t)
  <2>1. t \notin Conns
    BY <1>9, GatewayAssumption
  <2>2. /\ Others(t)
        /\ UNCHANGED <<ws_response_senders, ws_priority_senders>>
    BY <1>9 DEF Cancel, Return
  <2> QED
    BY <2>1, <2>2, SendersFrom DEF BindsOwn
<1> QED
  BY <1>1, <1>2, <1>3, <1>4, <1>6, <1>7, <1>8, <1>9 DEF ClientStep

(* Every step keeps SendersInv. *)
LEMMA SendersNext == IInv /\ SendersInv /\ [Next]_vars => SendersInv'
<1> SUFFICES ASSUME IInv, SendersInv, [Next]_vars PROVE SendersInv'
  OBVIOUS
<1>1. CASE \E c \in Conns : ClientStep(c)
  BY <1>1, ClientSenders DEF Tasks
<1>2. CASE \E r \in Reqs, e \in Externals : Request(r, e)
  BY <1>2, ClientSenders DEF Tasks
<1>3. CASE \E r \in Cancellable : Cancel(r)
  BY <1>3, ClientSenders, GatewayAssumption DEF Tasks
<1>4. CASE \E t \in Tasks : HandlerStep(t)
  BY <1>4, PassingSenders, AuthorizeSenders, BindSenders, BindPrioritySenders,
     RemoveSenders, UnansweredSenders, EndTerminatedSenders DEF HandlerStep
<1>5. ASSUME task' = task, conn' = conn,
             UNCHANGED <<ws_response_senders, ws_priority_senders>>
      PROVE  SendersInv'
  BY <1>5 DEF SendersInv, SendersAt, At, Sid
<1>6. CASE \E s \in Sessions : ReceiveFinal(s)
  BY <1>5, <1>6 DEF ReceiveFinal, registry
<1>7. CASE ForwarderStep
  BY <1>5, <1>7 DEF ForwarderStep, SendFinal, LookUpRoute, PushOutbound, registry
<1>8. CASE \E k \in Keys, n \in 1..MaxFinals : Poll(k, n)
  BY <1>5, <1>8 DEF Poll, registry
<1>9. CASE UNCHANGED vars
  BY <1>5, <1>9 DEF vars, registry
<1> QED
  BY <1>1, <1>2, <1>3, <1>4, <1>6, <1>7, <1>8, <1>9 DEF Next

(* Nobody is bound at the start. *)
LEMMA SendersInit == Init => SendersInv
BY GatewayAssumption DEF Init, SendersInv, SendersAt, Unanswered, IdleTask, Tasks

----------------------------------------------------------------------------
(* The order of an outbox *)

(* A queue of items keeps its order when a later one is added. *)
LEMMA PushOrdered ==
  ASSUME NEW q \in Seq(Items), NEW x \in Items,
         \A i, j \in DOMAIN q : i < j => q[i].number < q[j].number,
         \A i \in DOMAIN q : q[i].number < x.number
  PROVE  LET p == Append(q, x)
         IN /\ \A i, j \in DOMAIN p : i < j => p[i].number < p[j].number
            /\ \A i \in DOMAIN p : p[i].number <= x.number
<1> DEFINE p == Append(q, x)
<1>1. /\ p \in Seq(Items) /\ Len(p) = Len(q) + 1 /\ Len(q) \in Nat
      /\ \A i \in 1..Len(q) : p[i] = q[i]
      /\ p[Len(q) + 1] = x
  BY AppendProperties, LenProperties
<1>2. DOMAIN q = 1..Len(q) /\ DOMAIN p = 1..(Len(q) + 1)
  BY <1>1, LenProperties
<1> HIDE DEF p
<1>3. x.number \in Nat /\ \A i \in DOMAIN q : q[i].number \in Nat
  <2>1. \A i \in DOMAIN q : q[i] \in Items
    BY LenProperties, ElementOfSeq
  <2> QED
    BY <2>1 DEF Items
<1>4. \A i, j \in DOMAIN p : i < j => p[i].number < p[j].number
  <2> SUFFICES ASSUME NEW i \in 1..(Len(q) + 1), NEW j \in 1..(Len(q) + 1), i < j
               PROVE  p[i].number < p[j].number
    BY <1>2
  <2>1. i \in 1..Len(q) /\ (j = Len(q) + 1 \/ j \in 1..Len(q))
    BY <1>1
  <2> QED
    BY <1>1, <1>2, <2>1
<1>5. \A i \in DOMAIN p : p[i].number <= x.number
  <2> SUFFICES ASSUME NEW i \in 1..(Len(q) + 1) PROVE p[i].number <= x.number
    BY <1>2
  <2>1. i = Len(q) + 1 \/ i \in 1..Len(q)
    BY <1>1
  <2> QED
    BY <1>1, <1>2, <1>3, <2>1
<1> QED
  BY <1>4, <1>5 DEF p

(* It keeps its order when some are taken away in front. *)
LEMMA DrainOrdered ==
  ASSUME NEW q \in Seq(Items), NEW n \in 0..Len(q),
         \A i, j \in DOMAIN q : i < j => q[i].number < q[j].number
  PROVE  LET p == SubSeq(q, n + 1, Len(q))
         IN \A i, j \in DOMAIN p : i < j => p[i].number < p[j].number
<1> DEFINE p == SubSeq(q, n + 1, Len(q))
<1>1. /\ p \in Seq(Items)
      /\ \A i \in DOMAIN p : i + n \in DOMAIN q /\ p[i] = q[i + n]
  BY DrainedItems
<1>2. DOMAIN p = 1..Len(p) /\ Len(p) \in Nat /\ n \in Int
  BY <1>1, LenProperties
<1> HIDE DEF p
<1>3. ASSUME NEW i \in DOMAIN p, NEW j \in DOMAIN p, i < j
      PROVE  p[i].number < p[j].number
  <2>1. i + n < j + n
    BY <1>2, <1>3
  <2> QED
    BY <1>1, <2>1
<1> QED
  BY <1>3 DEF p

(* A step that only empties outboxes keeps OutboxInv. *)
LEMMA OutboxFrom ==
  ASSUME OutboxInv, UNCHANGED <<finals, forwarder>>,
         \A k \in Keys : channel_outbox'[k] \in {channel_outbox[k], <<>>}
  PROVE  OutboxInv'
<1>1. ASSUME NEW k \in Keys, NEW i \in DOMAIN channel_outbox'[k]
      PROVE  i \in DOMAIN channel_outbox[k] /\ channel_outbox'[k] = channel_outbox[k]
  BY <1>1
<1> QED
  BY <1>1 DEF OutboxInv, OutboxOrdered

(* What arrives is the latest so far. *)
LEMMA ReceiveFinalOutbox ==
  ASSUME IInv, OutboxInv, NEW s \in Sessions, ReceiveFinal(s)
  PROVE  OutboxInv'
<1>1. /\ forwarder.pc = "recv" /\ finals' = finals + 1
      /\ channel_outbox' = channel_outbox
  BY DEF ReceiveFinal, channels
<1>2. finals \in Nat /\ channel_outbox \in [Keys -> Seq(Items)]
  BY TypeParts DEF MapTypes
<1>3. ASSUME NEW k \in Keys, NEW i \in DOMAIN channel_outbox[k]
      PROVE  channel_outbox[k][i].number \in Nat
  <2>1. channel_outbox[k] \in Seq(Items) /\ channel_outbox[k][i] \in Items
    BY <1>2, LenProperties, ElementOfSeq
  <2> QED
    BY <2>1 DEF Items
<1> QED
  BY <1>1, <1>2, <1>3 DEF OutboxInv, OutboxOrdered

(* The forwarder pushes it before it receives another. *)
LEMMA PushOutboundOutbox ==
  ASSUME IInv, OutboxInv, PushOutbound
  PROVE  OutboxInv'
<1> DEFINE item == [session |-> forwarder.sid, number |-> finals]
           q == channel_outbox[forwarder.key]
           p == Append(q, item)
<1>1. /\ forwarder.pc = "push" /\ finals' = finals
      /\ channel_outbox' = [channel_outbox EXCEPT ![forwarder.key] = p]
      /\ forwarder'.pc = "recv"
  BY DEF PushOutbound
<1>2. /\ channel_outbox \in [Keys -> Seq(Items)] /\ finals \in Nat
      /\ forwarder.sid \in Sessions /\ forwarder.key \in Keys
  BY <1>1, TypeParts DEF MapTypes, ForwarderState
<1>3. q \in Seq(Items) /\ item \in Items /\ item.number = finals
  BY <1>2 DEF Items
<1>4. /\ \A i, j \in DOMAIN q : i < j => q[i].number < q[j].number
      /\ \A i \in DOMAIN q : q[i].number < finals
  BY <1>1, <1>2 DEF OutboxInv, OutboxOrdered
<1> HIDE DEF item, q
<1>5. /\ \A i, j \in DOMAIN p : i < j => p[i].number < p[j].number
      /\ \A i \in DOMAIN p : p[i].number <= finals
  BY <1>3, <1>4, PushOrdered
<1> HIDE DEF p
<1>6. /\ channel_outbox'[forwarder.key] = p
      /\ \A k \in Keys \ {forwarder.key} : channel_outbox'[k] = channel_outbox[k]
  BY <1>1, <1>2
<1>7. OutboxOrdered'
  BY <1>5, <1>6 DEF OutboxInv, OutboxOrdered
<1>8. \A k \in Keys : \A i \in DOMAIN channel_outbox'[k] :
        channel_outbox'[k][i].number <= finals
  BY <1>5, <1>6 DEF OutboxInv
<1> QED
  BY <1>1, <1>7, <1>8 DEF OutboxInv

(* A poll takes the oldest. *)
LEMMA PollOutbox ==
  ASSUME IInv, OutboxInv, NEW k \in Keys, NEW n \in 1..MaxFinals, Poll(k, n)
  PROVE  OutboxInv'
<1> DEFINE q == channel_outbox[k]
           split == IF n < Len(q) THEN n ELSE Len(q)
           p == SubSeq(q, split + 1, Len(q))
<1>1. /\ channel_outbox' = [channel_outbox EXCEPT ![k] = p]
      /\ finals' = finals /\ forwarder' = forwarder
  BY DEF Poll, outside
<1>2. channel_outbox \in [Keys -> Seq(Items)] /\ q \in Seq(Items) /\ Len(q) \in Nat
  BY TypeParts DEF MapTypes
<1>3. n \in Nat /\ split \in 0..Len(q)
  BY <1>2, GatewayAssumption
<1>4. \A i, j \in DOMAIN q : i < j => q[i].number < q[j].number
  BY DEF OutboxInv, OutboxOrdered
<1> HIDE DEF split
<1>5. \A i, j \in DOMAIN p : i < j => p[i].number < p[j].number
  BY <1>2, <1>3, <1>4, DrainOrdered
<1>6. \A i \in DOMAIN p : i + split \in DOMAIN q /\ p[i] = q[i + split]
  BY <1>2, <1>3, DrainedItems
<1> HIDE DEF p
<1>7. \A i \in DOMAIN p : /\ p[i].number <= finals
                          /\ forwarder.pc # "recv" => p[i].number < finals
  BY <1>6 DEF OutboxInv
<1>8. /\ channel_outbox'[k] = p
      /\ \A j \in Keys \ {k} : channel_outbox'[j] = channel_outbox[j]
  BY <1>1, <1>2
<1>9. OutboxOrdered'
  BY <1>5, <1>8 DEF OutboxInv, OutboxOrdered
<1> QED
  BY <1>1, <1>7, <1>8, <1>9 DEF OutboxInv

(* Every step keeps OutboxInv. *)
LEMMA OutboxNext == IInv /\ OutboxInv /\ [Next]_vars => OutboxInv'
<1> SUFFICES ASSUME IInv, OutboxInv, [Next]_vars PROVE OutboxInv'
  OBVIOUS
<1>1. channel_outbox \in [Keys -> Seq(Items)]
  BY TypeParts DEF MapTypes
<1>2. CASE \E c \in Conns : ClientStep(c)
  BY <1>2, OutboxFrom DEF ClientStep, Open, Pair, Authenticate, Identify, Close,
     BeginCreate, BeginUse, BeginTerminate, BeginOn, ConnInbound, channels, outside
<1>3. CASE \E r \in Reqs, e \in Externals : Request(r, e)
  BY <1>3, OutboxFrom DEF Request, channels, outside
<1>4. CASE \E r \in Cancellable : Cancel(r)
  BY <1>4, OutboxFrom DEF Cancel, channels, outside
<1>5. ASSUME NEW t \in Tasks, HandlerStep(t) PROVE OutboxInv'
  <2>1. UNCHANGED outside
    BY <1>5 DEF HandlerStep, AuthorizeOwned, AuthorizeByOwner, BindResponses,
       BindPriority, NewSession, NewSessionFails, InsertOwner, InsertResponseSender,
       InsertPrioritySender, RemoveResponseSender, RemovePrioritySender, RemoveOwner,
       RetainRoutes, UnindexTerminated, DiscardOutboxes, EndTerminated, ReadRoute,
       RemoveRoute, UnindexReplaced, DiscardOutbox, EndReplaced, CheckOwner,
       InsertRoute, InsertIndex, ToolCall
  <2>2. CASE DiscardOutboxes(t)
    BY <2>1, <2>2, OutboxFrom DEF DiscardOutboxes, outside
  <2>3. CASE DiscardOutbox(t)
    BY <1>1, <2>1, <2>3, OutboxFrom DEF DiscardOutbox, outside
  <2>4. CASE channel_outbox' = channel_outbox
    BY <2>1, <2>4, OutboxFrom DEF outside
  <2> QED
    BY <1>5, <2>2, <2>3, <2>4
       DEF HandlerStep, AuthorizeOwned, AuthorizeByOwner, BindResponses,
       BindPriority, NewSession, NewSessionFails, InsertOwner, InsertResponseSender,
       InsertPrioritySender, RemoveResponseSender, RemovePrioritySender, RemoveOwner,
       RetainRoutes, UnindexTerminated, EndTerminated, ReadRoute, RemoveRoute,
       UnindexReplaced, EndReplaced, CheckOwner, InsertRoute, InsertIndex, ToolCall,
       channels
<1>6. CASE \E s \in Sessions : ReceiveFinal(s)
  BY <1>6, ReceiveFinalOutbox
<1>7. CASE SendFinal \/ LookUpRoute
  <2>1. /\ forwarder.pc # "recv" /\ finals' = finals
        /\ channel_outbox' = channel_outbox
    BY <1>7 DEF SendFinal, LookUpRoute, channels
  <2> QED
    BY <2>1 DEF OutboxInv, OutboxOrdered
<1>8. CASE PushOutbound
  BY <1>8, PushOutboundOutbox
<1>9. CASE \E k \in Keys, n \in 1..MaxFinals : Poll(k, n)
  BY <1>9, PollOutbox
<1>10. CASE UNCHANGED vars
  BY <1>10, OutboxFrom DEF vars, channels, outside
<1> QED
  BY <1>2, <1>3, <1>4, <1>5, <1>6, <1>7, <1>8, <1>9, <1>10 DEF Next, ForwarderStep

(* Every outbox is empty at the start. *)
LEMMA OutboxInit == Init => OutboxInv
BY DEF Init, OutboxInv, OutboxOrdered

----------------------------------------------------------------------------
(* Theorems *)

(* The invariants of the maps hold in every reachable state. *)
THEOREM MapsHold == Spec => []MapsInv
<1>1. Init => MapsInv
  BY RoutesInit, SendersInit, OutboxInit DEF MapsInv
<1>2. IInv /\ MapsInv /\ [Next]_vars => MapsInv'
  BY RoutesNext, SendersNext, OutboxNext DEF MapsInv
<1> QED
  BY <1>1, <1>2, InvariantHolds, PTL DEF Spec

(* A closed connection leaves no sender behind, whatever was in flight     *)
(* when it closed: Close looks for senders in owned_sessions only, and     *)
(* that is where every sender of an idle connection is found.              *)
THEOREM SendersAreOpen == Spec => []BoundIsOpen
<1>1. MapsInv => BoundIsOpen
  BY DEF MapsInv, SendersInv, SendersAt, BoundIsOpen
<1> QED
  BY <1>1, MapsHold, PTL

(* When no request is dropped half-way, a routed session is indexed or     *)
(* about to be, so its transcripts find their outbox; and no sender        *)
(* outlives its connection.                                                *)
THEOREM MapsStayInStep == Cancellable = {} => (Spec => []MapsAgree)
<1> SUFFICES ASSUME Cancellable = {} PROVE Spec => []MapsAgree
  OBVIOUS
<1>1. MapsInv => MapsAgree
  BY DEF MapsInv, RoutesInv, SendersInv, SendersAt, MapsAgree, BoundIsOpen
<1> QED
  BY <1>1, MapsHold, PTL

(* An outbox holds its items in the order the transcripts arrived, none    *)
(* twice, though the forwarder pushes two locks after it has received and  *)
(* polls and terminations come in between.                                 *)
THEOREM OutboxesStayOrdered == Spec => []OutboxOrdered
<1>1. MapsInv => OutboxOrdered
  BY DEF MapsInv, OutboxInv
<1> QED
  BY <1>1, MapsHold, PTL
=============================================================================
