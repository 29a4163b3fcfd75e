-------------------------- MODULE GatewayAccess ---------------------------
(***************************************************************************)
(* Who has access to a session: authorize_session_access, the              *)
(* owned_sessions of a connection and the senders it binds.  The invariant *)
(* is AccessInv, on top of IInv: what a connection owns, acts on or is     *)
(* bound to belongs to a principal it has been.  However often it          *)
(* authenticates, it forgets none of them.                                 *)
(***************************************************************************)
EXTENDS GatewayProofs

(* A step that leaves who t is and has been. *)
SameIdentity(t) ==
  /\ conn'[t].principal = Me(t) /\ conn'[t].known = conn[t].known
  /\ conn'[t].status = conn[t].status

(* A step of t that adds no more than owned to what t owns. *)
Owning(t, owned) ==
  /\ Others(t)
  /\ conn'[t].owned \subseteq owned
  /\ \/ SameIdentity(t)
     \/ t \notin Conns /\ task'[t].pc = "idle" /\ conn'[t] = NewConn

(* It binds no connection but its own, to a session of who it has been. *)
Binding(t) ==
  \A s \in Sessions :
    /\ ws_response_senders'[s] \in Conns =>
         \/ ws_response_senders'[s] = ws_response_senders[s]
         \/ ws_response_senders'[s] = t /\ Knows(t, s)
    /\ ws_priority_senders'[s] \in Conns =>
         \/ ws_priority_senders'[s] = ws_priority_senders[s]
         \/ ws_priority_senders'[s] = t /\ Knows(t, s)

(* What the steps of a handler add to what it owns. *)
LEMMA GoOwns ==
  ASSUME IInv, NEW t \in Tasks, NEW pc, Go(t, pc)
  PROVE  Owning(t, conn[t].owned)
<1>1. task \in [Tasks -> HandlerState] /\ conn \in [Tasks -> ConnectionState]
  BY TypeParts DEF TypeOK
<1> QED
  BY <1>1 DEF Go, Owning, SameIdentity, Others, Me

(* A request drops what it owns when it returns. *)
LEMMA ReturnOwns ==
  ASSUME IInv, NEW t \in Tasks, Return(t)
  PROVE  Owning(t, conn[t].owned) /\ task'[t].pc = "idle"
<1>1. task \in [Tasks -> HandlerState] /\ conn \in [Tasks -> ConnectionState]
  BY TypeParts DEF TypeOK
<1>2. CASE t \in Conns
  BY <1>1, <1>2 DEF Return, Owning, SameIdentity, Others, Me, IdleTask
<1>3. CASE t \notin Conns
  BY <1>1, <1>3 DEF Return, Owning, Others, Me, IdleTask, NewConn
<1> QED
  BY <1>2, <1>3

(* GoOwning adds what it says. *)
LEMMA GoOwningOwns ==
  ASSUME IInv, NEW t \in Tasks, NEW pc, NEW owned, GoOwning(t, pc, owned)
  PROVE  Owning(t, owned)
<1>1. task \in [Tasks -> HandlerState] /\ conn \in [Tasks -> ConnectionState]
  BY TypeParts DEF TypeOK
<1>2. conn' = [conn EXCEPT ![t].owned = owned]
  BY DEF GoOwning
<1>3. conn'[t].owned = owned /\ SameIdentity(t)
  BY <1>1, <1>2 DEF ConnectionState, SameIdentity, Me
<1>4. Others(t)
  BY <1>1 DEF GoOwning, Others
<1> QED
  BY <1>3, <1>4 DEF Owning

(* So does ReturnOwning, for a connection. *)
LEMMA ReturnOwningOwns ==
  ASSUME IInv, NEW t \in Tasks, NEW owned, ReturnOwning(t, owned)
  PROVE  Owning(t, owned) /\ task'[t].pc = "idle"
<1>1. task \in [Tasks -> HandlerState] /\ conn \in [Tasks -> ConnectionState]
  BY TypeParts DEF TypeOK
<1>2. task' = [task EXCEPT ![t] = IdleTask]
  BY DEF ReturnOwning
<1>3. task'[t].pc = "idle" /\ Others(t)
  BY <1>1, <1>2 DEF ReturnOwning, Others, IdleTask
<1>4. CASE t \in Conns
  <2>1. conn' = [conn EXCEPT ![t] = [conn[t] EXCEPT !.owned = owned]]
    BY <1>1, <1>4 DEF ReturnOwning
  <2>2. conn'[t].owned = owned /\ SameIdentity(t)
    BY <1>1, <2>1 DEF ConnectionState, SameIdentity, Me
  <2> QED
    BY <1>3, <2>2 DEF Owning
<1>5. CASE t \notin Conns
  <2>1. conn'[t] = NewConn /\ conn'[t].owned = {}
    BY <1>1, <1>5 DEF ReturnOwning, NewConn
  <2> QED
    BY <1>3, <1>5, <2>1 DEF Owning
<1> QED
  BY <1>4, <1>5

(* So does Granted, wherever the handler goes on. *)
LEMMA GrantedOwns ==
  ASSUME IInv, NEW t \in Tasks, NEW owned, Granted(t, owned)
  PROVE  Owning(t, owned)
<1>1. task \in [Tasks -> HandlerState] /\ conn \in [Tasks -> ConnectionState]
  BY TypeParts DEF TypeOK
<1>2. CASE AfterAccess(t) = "idle"
  BY <1>2, ReturnOwningOwns DEF Granted
<1>3. CASE AfterAccess(t) = "tool" /\ ~ReturnOwning(t, owned)
  <2>1. /\ conn' = [conn EXCEPT ![t].owned = owned]
        /\ task' = [task EXCEPT ![t].pc = "authorize", ![t].op = "tool"]
    BY <1>3 DEF Granted
  <2>2. conn'[t].owned = owned /\ SameIdentity(t)
    BY <1>1, <2>1 DEF ConnectionState, SameIdentity, Me
  <2>3. Others(t)
    BY <1>1, <2>1 DEF Others
  <2> QED
    BY <2>2, <2>3 DEF Owning
<1>4. CASE AfterAccess(t) \notin {"idle", "tool"}
  BY <1>4, GoOwningOwns DEF Granted
<1> QED
  BY <1>2, <1>3, <1>4, ReturnOwningOwns

(* The creator owns its session. *)
LEMMA CreatedOwns ==
  ASSUME IInv, NEW t \in Tasks, Created(t)
  PROVE  Owning(t, conn[t].owned \cup {Sid(t)})
BY ReturnOwningOwns, GoOwningOwns DEF Created

(* Who a task has been is a principal, so the sessions it knows of exist. *)
LEMMA KnownTyped ==
  ASSUME IInv, NEW t \in Tasks
  PROVE  conn[t].known \subseteq Principals /\ None \notin conn[t].known
BY GatewayAssumption DEF IInv, TypeOK, ConnectionState

(* They stay what they were created for. *)
LEMMA KnownKept ==
  ASSUME IInv, HistoryKept, NEW t \in Tasks, NEW s \in Sessions, Knows(t, s),
         conn[t].known \subseteq conn'[t].known
  PROVE  Knows(t, s)'
BY KnownTyped DEF HistoryKept, Knows

(* A step of t keeps AccessInv if what it comes to own, and the session it *)
(* comes to have access to, were created for one it has been.              *)
LEMMA AccessFrom ==
  ASSUME IInv, AccessInv, HistoryKept, NEW t \in Tasks, Binding(t),
         NEW owned, Owning(t, owned),
         \A s \in owned : s \in Sessions /\ Knows(t, s),
         task'[t].pc \in AccessSteps =>
           task'[t].sid = Sid(t) /\ Sid(t) \in Sessions /\ Knows(t, Sid(t))
  PROVE  AccessInv'
<1>1. \A u \in Tasks \ {t} : task'[u] = task[u] /\ conn'[u] = conn[u]
  BY DEF Owning, Others
<1>2. SameIdentity(t) \/ (t \notin Conns /\ task'[t].pc = "idle" /\ conn'[t] = NewConn)
  BY DEF Owning
<1>3. NewConn.owned = {} /\ NewConn.known = {} /\ NewConn.principal = None
  BY DEF NewConn
<1>4. ASSUME NEW u \in Tasks, NEW s \in Sessions, Knows(u, s),
             u # t \/ conn'[t] # NewConn \/ u \in Conns
      PROVE  Knows(u, s)'
  BY <1>1, <1>2, <1>4, KnownKept DEF SameIdentity
<1>5. OwnedByKnown'
  <2> SUFFICES ASSUME NEW u \in Tasks, NEW s \in conn'[u].owned PROVE Knows(u, s)'
    BY DEF OwnedByKnown
  <2>1. CASE u = t
    <3>1. s \in Sessions /\ Knows(t, s) /\ conn'[t] # NewConn
      BY <1>3, <2>1 DEF Owning
    <3> QED
      BY <1>4, <2>1, <3>1
  <2>2. CASE u # t
    <3>1. s \in conn[u].owned /\ s \in Sessions
      BY <1>1, <2>2, OwnedTyped
    <3>2. Knows(u, s)
      BY <3>1 DEF AccessInv, OwnedByKnown
    <3> QED
      BY <1>4, <2>2, <3>1, <3>2
  <2> QED
    BY <2>1, <2>2
<1>6. Identified'
  BY <1>1, <1>2, <1>3 DEF AccessInv, Identified, SameIdentity, Me
<1>7. AccessWasGranted'
  <2> SUFFICES ASSUME NEW u \in Tasks, task'[u].pc \in AccessSteps
               PROVE  Knows(u, Sid(u))'
    BY DEF AccessWasGranted
  <2>1. task'[u].sid = Sid(u) /\ Sid(u) \in Sessions /\ Knows(u, Sid(u))
    <3>1. CASE u = t
      BY <3>1
    <3>2. CASE u # t
      <4>1. task'[u] = task[u] /\ task[u].pc \in SessionSteps
        BY <1>1, <3>2 DEF AccessSteps, SessionSteps, PCs
      <4> QED
        BY <4>1, SidTyped DEF AccessInv, AccessWasGranted, Sid
    <3> QED
      BY <3>1, <3>2
  <2>2. u # t \/ conn'[t] # NewConn \/ u \in Conns
    <3>1. "idle" \notin AccessSteps
      BY DEF AccessSteps
    <3>2. SameIdentity(t) => conn'[t] # NewConn \/ u # t \/ u \in Conns
      <4>1. SameIdentity(t) /\ u = t => conn'[t].known # {}
        BY <2>1 DEF SameIdentity, Knows
      <4> QED
        BY <1>3, <4>1
    <3> QED
      BY <1>2, <3>1, <3>2
  <2>3. creator'[task'[u].sid] \in conn'[u].known
    <3> DEFINE s == Sid(u)
    <3>1. s \in Sessions /\ Knows(u, s)
      BY <2>1
    <3> HIDE DEF s
    <3>2. creator'[s] \in conn'[u].known
      BY <1>4, <2>2, <3>1 DEF Knows
    <3> QED
      BY <2>1, <3>2 DEF s
  <2> QED
    BY <2>3 DEF Knows, Sid
<1>8. DeliveryWasGranted'
  <2>1. ASSUME NEW s \in Sessions, ws_response_senders'[s] \in Conns
        PROVE  Knows(ws_response_senders[s], s)'
    <3> DEFINE c == ws_response_senders'[s]
    <3>1. c \in Conns /\ Knows(c, s)
      BY <2>1 DEF Binding, AccessInv, DeliveryWasGranted
    <3> HIDE DEF c
    <3>2. creator'[s] \in conn'[c].known
      BY <1>4, <3>1 DEF Knows, Tasks
    <3> QED
      BY <3>2 DEF Knows, c
  <2>2. ASSUME NEW s \in Sessions, ws_priority_senders'[s] \in Conns
        PROVE  Knows(ws_priority_senders[s], s)'
    <3> DEFINE c == ws_priority_senders'[s]
    <3>1. c \in Conns /\ Knows(c, s)
      BY <2>2 DEF Binding, AccessInv, DeliveryWasGranted
    <3> HIDE DEF c
    <3>2. creator'[s] \in conn'[c].known
      BY <1>4, <3>1 DEF Knows, Tasks
    <3> QED
      BY <3>2 DEF Knows, c
  <2> QED
    BY <2>1, <2>2 DEF DeliveryWasGranted
<1> QED
  BY <1>5, <1>6, <1>7, <1>8 DEF AccessInv

(* What a task owns was created for one it has been. *)
LEMMA OwnedAre ==
  ASSUME IInv, AccessInv, NEW t \in Tasks
  PROVE  \A s \in conn[t].owned : s \in Sessions /\ Knows(t, s)
BY OwnedTyped DEF AccessInv, OwnedByKnown

(* What was created for who it is, was created for one it has been. *)
LEMMA MineKnown ==
  ASSUME IInv, AccessInv, NEW t \in Tasks, Me(t) \in Principals,
         NEW s, creator[s] = Me(t)
  PROVE  Knows(t, s)
BY GatewayAssumption DEF AccessInv, Identified, Knows

(* A step that leaves the access as it is keeps AccessInv. *)
LEMMA GoAccess ==
  ASSUME IInv, AccessInv, HistoryKept, NEW t \in Tasks, Binding(t), NEW from, NEW pc,
         At(t, from), Go(t, pc), pc \in AccessSteps => from \in AccessSteps
  PROVE  AccessInv'
<1>1. task'[t].pc = pc /\ task'[t].sid = Sid(t)
  BY TypeParts DEF TypeOK, HandlerState, Go, Sid
<1>2. pc \in AccessSteps => task[t].pc \in AccessSteps /\ task[t].pc \in SessionSteps
  BY DEF At, AccessSteps, SessionSteps, PCs
<1>3. pc \in AccessSteps => Knows(t, Sid(t)) /\ Sid(t) \in Sessions
  BY <1>2, SidTyped DEF AccessInv, AccessWasGranted
<1> QED
  BY <1>1, <1>3, GoOwns, OwnedAre, AccessFrom

(* So does a return. *)
LEMMA ReturnAccess ==
  ASSUME IInv, AccessInv, HistoryKept, NEW t \in Tasks, Binding(t), Return(t)
  PROVE  AccessInv'
<1>1. Owning(t, conn[t].owned) /\ task'[t].pc = "idle"
  BY ReturnOwns
<1> QED
  BY <1>1, OwnedAre, AccessFrom DEF AccessSteps

(* Access granted to a session it knows of. *)
LEMMA GrantedAccess ==
  ASSUME IInv, AccessInv, HistoryKept, NEW t \in Tasks, Binding(t), NEW owned,
         task[t].pc \in SessionSteps,
         \/ Granted(t, owned)
         \/ \E pc \in PCs : GoOwning(t, pc, owned),
         \A s \in owned : s \in Sessions /\ Knows(t, s),
         Knows(t, Sid(t))
  PROVE  AccessInv'
<1>1. Owning(t, owned)
  BY GrantedOwns, GoOwningOwns
<1>2. Sid(t) \in Sessions
  BY SidTyped
<1>3. owned \in SUBSET Sessions
  OBVIOUS
<1>4. task'[t].pc \in AccessSteps => task'[t].sid = Sid(t)
  <2>1. CASE Granted(t, owned)
    <3>1. GoesOn(t)
      BY <1>3, <2>1, GrantedEffect, TypeParts
    <3> QED
      BY <3>1 DEF GoesOn, Ends, Continues, IdleTask, AccessSteps, Sid
  <2>2. CASE \E pc \in PCs : GoOwning(t, pc, owned)
    BY <1>3, <2>2, GoOwningEffect, TypeParts DEF Continues, Sid
  <2> QED
    BY <2>1, <2>2
<1> QED
  BY <1>1, <1>2, <1>4, AccessFrom

----------------------------------------------------------------------------
(* One lemma per action *)

(* The steps of a handler that leave its access as it is. *)
AccessEdges ==
  /\ "own_priority" \notin AccessSteps
  /\ {"bind", "t_response", "t_priority", "t_owner", "t_routes", "t_index",
      "t_outbox", "t_runner"} \subseteq AccessSteps
  /\ {"own_response", "own_priority", "route", "index", "authorize", "new_session",
      "s_route", "s_index", "f_index", "f_outbox", "f_response", "f_priority",
      "f_owner", "f_runner", "read_route", "check_owner", "f_route",
      "idle", "own"} \cap AccessSteps = {}

(* Which steps have access and which do not. *)
LEMMA AccessEdgesHold == AccessEdges
BY DEF AccessEdges, AccessSteps

(* A step that leaves the senders alone binds nobody. *)
LEMMA SendersStill ==
  ASSUME NEW t \in Tasks,
         UNCHANGED <<ws_response_senders, ws_priority_senders>>
  PROVE  Binding(t)
BY DEF Binding

(* Access by ownership or by the owner on record is access of the principal. *)
LEMMA AuthorizeAccess ==
  ASSUME IInv, AccessInv, NEW t \in Tasks, AuthorizeOwned(t) \/ AuthorizeByOwner(t)
  PROVE  AccessInv'
<1>1. Still /\ At(t, "authorize")
  BY DEF AuthorizeOwned, AuthorizeByOwner, Still
<1>2. HistoryKept /\ Binding(t)
  BY <1>1, StillFixed, SendersStill DEF Still, registry
<1>3. task[t].pc \in SessionSteps /\ Sid(t) \in Sessions /\ Me(t) \in Principals
  BY <1>1, SidTyped DEF At, SessionSteps, PCs
<1>4. CASE Return(t)
  BY <1>2, <1>4, ReturnAccess
<1>5. CASE AuthorizeOwned(t)
  <2>1. Knows(t, Sid(t))
    BY <1>5, OwnedAre DEF AuthorizeOwned
  <2>2. CASE Granted(t, conn[t].owned)
    BY <1>2, <1>3, <2>1, <2>2, OwnedAre, GrantedAccess
  <2>3. CASE Go(t, "bind")
    <3>1. Owning(t, conn[t].owned)
      BY <2>3, GoOwns
    <3>2. task'[t].sid = Sid(t)
      BY <2>3, TypeParts DEF TypeOK, HandlerState, Go, Sid
    <3> QED
      BY <1>2, <1>3, <2>1, <3>1, <3>2, OwnedAre, AccessFrom
  <2> QED
    BY <1>5, <2>2, <2>3 DEF AuthorizeOwned
<1>6. CASE AuthorizeByOwner(t) /\ ~Return(t)
  <2> DEFINE owned == conn[t].owned \cup {Sid(t)}
  <2>1. session_owners[Sid(t)] = Me(t)
    BY <1>6 DEF AuthorizeByOwner
  <2>2. Knows(t, Sid(t))
    <3>1. creator[Sid(t)] = Me(t)
      BY <1>3, <2>1, GatewayAssumption DEF IInv, Ownership, OwnedIsLive
    <3> QED
      BY <1>3, <3>1, MineKnown
  <2>3. \A s \in owned : s \in Sessions /\ Knows(t, s)
    BY <1>3, <2>2, OwnedAre
  <2>4. Granted(t, owned) \/ GoOwning(t, "bind", owned)
    BY <1>6 DEF AuthorizeByOwner
  <2>5. "bind" \in PCs
    BY DEF PCs
  <2> HIDE DEF owned
  <2> QED
    BY <1>2, <1>3, <2>2, <2>3, <2>4, <2>5, GrantedAccess
<1> QED
  BY <1>4, <1>5, <1>6

(* A handler binds its mailbox after it has been granted access. *)
LEMMA BindAccess ==
  ASSUME IInv, AccessInv, NEW t \in Tasks, BindResponses(t) \/ BindPriority(t)
  PROVE  AccessInv'
<1>1. task[t].pc \in {"bind", "bind_priority"} /\ UNCHANGED runner
  BY DEF BindResponses, BindPriority, At
<1>2. task[t].pc \in AccessSteps /\ task[t].pc \in SessionSteps
  BY <1>1 DEF AccessSteps, SessionSteps, PCs
<1>3. Knows(t, Sid(t)) /\ Sid(t) \in Sessions
  BY <1>2, SidTyped DEF AccessInv, AccessWasGranted
<1>4. HistoryKept
  BY <1>1 DEF HistoryKept, runner
<1>5. Mailbox(t) \in Conns => Mailbox(t) = t
  BY GatewayAssumption DEF Mailbox
<1>6. Binding(t)
  BY <1>3, <1>5, TypeParts DEF BindResponses, BindPriority, Binding, MapTypes
<1>7. CASE BindResponses(t)
  BY <1>1, <1>2, <1>4, <1>6, <1>7, GoAccess DEF BindResponses, AccessSteps
<1>8. CASE BindPriority(t)
  BY <1>2, <1>3, <1>4, <1>6, <1>8, OwnedAre, GrantedAccess DEF BindPriority
<1> QED
  BY <1>7, <1>8

(* The creator of a session is its owner. *)
LEMMA CreateAccess ==
  ASSUME IInv, AccessInv, NEW t \in Tasks,
         \/ InsertOwner(t)
         \/ InsertResponseSender(t)
         \/ InsertPrioritySender(t)
  PROVE  AccessInv'
<1>1. task[t].pc \in {"own", "own_response", "own_priority"} /\ UNCHANGED runner
  BY DEF InsertOwner, InsertResponseSender, InsertPrioritySender, At
<1>2. task[t].pc \in MappedSteps /\ task[t].pc \in SessionSteps
  BY <1>1 DEF MappedSteps, CreateSteps, SessionSteps, PCs
<1>3. Knows(t, Sid(t)) /\ Sid(t) \in Sessions
  BY <1>2, SidTyped, MineKnown DEF IInv, Locals, LocalsAt
<1>4. HistoryKept
  BY <1>1 DEF HistoryKept, runner
<1>5. Mailbox(t) \in Conns => Mailbox(t) = t
  BY GatewayAssumption DEF Mailbox
<1>6. Binding(t)
  BY <1>3, <1>5, TypeParts
     DEF InsertOwner, InsertResponseSender, InsertPrioritySender, Binding, MapTypes
<1>7. CASE \E pc \in {"own_response", "own_priority"} : Go(t, pc)
  BY <1>4, <1>6, <1>7, GoAccess, AccessEdgesHold DEF AccessEdges, At
<1>8. CASE Created(t)
  <2>1. Owning(t, conn[t].owned \cup {Sid(t)})
    BY <1>8, CreatedOwns
  <2>2. task'[t].pc \in {"idle", "route"}
    BY <1>3, <1>8, CreatedEffect, TypeParts DEF Ends, Continues, IdleTask
  <2>3. task'[t].pc \notin AccessSteps
    BY <2>2, AccessEdgesHold DEF AccessEdges
  <2>4. \A s \in conn[t].owned \cup {Sid(t)} : s \in Sessions /\ Knows(t, s)
    BY <1>3, OwnedAre
  <2> QED
    BY <1>4, <1>6, <2>1, <2>3, <2>4, AccessFrom
<1> QED
  BY <1>7, <1>8 DEF InsertOwner, InsertResponseSender, InsertPrioritySender

(* A step that moves on and gives nobody access to anything. *)
LEMMA PassAccess ==
  ASSUME IInv, AccessInv, NEW t \in Tasks, HistoryKept, conn' = conn, Others(t),
         Binding(t),
         task'[t].pc \notin AccessSteps
  PROVE  AccessInv'
<1>1. Owning(t, conn[t].owned)
  BY DEF Owning, SameIdentity, Me
<1> QED
  BY <1>1, OwnedAre, AccessFrom

(* A session under creation is a new one, so nobody has access to it. *)
LEMMA NewSessionAccess ==
  ASSUME IInv, AccessInv, NEW t \in Tasks, NewSession(t)
  PROVE  AccessInv'
<1>1. PICK s \in Sessions :
        /\ creator[s] = None
        /\ creator' = [creator EXCEPT ![s] = Me(t)]
        /\ origin' = [origin EXCEPT ![s] = Key(t)]
        /\ task' = [task EXCEPT ![t].pc = "own", ![t].sid = s]
  BY DEF NewSession
<1>2. task \in [Tasks -> HandlerState] /\ conn' = conn /\ UNCHANGED registry
  BY TypeParts DEF TypeOK, NewSession
<1>3. HistoryKept
  BY <1>1, TypeParts DEF HistoryKept, MapTypes
<1>4. Others(t) /\ task'[t].pc = "own"
  BY <1>1, <1>2 DEF Others, HandlerState
<1> QED
  BY <1>2, <1>3, <1>4, PassAccess, SendersStill, AccessEdgesHold DEF AccessEdges, registry

(* Removals, routes and the index grant nothing. *)
LEMMA RemoveAccess ==
  ASSUME IInv, AccessInv, NEW t \in Tasks,
         \/ RemoveResponseSender(t)
         \/ RemovePrioritySender(t)
         \/ RemoveOwner(t)
         \/ UnindexTerminated(t)
         \/ DiscardOutboxes(t)
         \/ RemoveRoute(t)
         \/ UnindexReplaced(t)
         \/ DiscardOutbox(t)
         \/ EndReplaced(t)
         \/ CheckOwner(t)
         \/ InsertRoute(t)
         \/ InsertIndex(t)
  PROVE  AccessInv'
<1>1. creator' = creator /\ origin' = origin
  BY DEF RemoveResponseSender, RemovePrioritySender, RemoveOwner, UnindexTerminated,
     DiscardOutboxes, RemoveRoute, UnindexReplaced, DiscardOutbox, EndReplaced,
     CheckOwner, InsertRoute, InsertIndex, runner
<1>2. HistoryKept
  BY <1>1 DEF HistoryKept
<1>3. \A s \in Sessions :
        /\ ws_response_senders'[s] \in {ws_response_senders[s], None}
        /\ ws_priority_senders'[s] \in {ws_priority_senders[s], None}
  BY TypeParts
     DEF MapTypes, RemoveResponseSender, RemovePrioritySender, RemoveOwner,
     UnindexTerminated, DiscardOutboxes, RemoveRoute, UnindexReplaced, DiscardOutbox,
     EndReplaced, CheckOwner, InsertRoute, InsertIndex, registry
<1>4. Binding(t)
  BY <1>3, GatewayAssumption DEF Binding
<1>5. PICK from, pc : At(t, from) /\ Go(t, pc) /\ (pc \in AccessSteps => from \in AccessSteps)
  BY AccessEdgesHold
     DEF AccessEdges, RemoveResponseSender, RemovePrioritySender, RemoveOwner,
     UnindexTerminated, DiscardOutboxes, RemoveRoute, UnindexReplaced, DiscardOutbox,
     EndReplaced, CheckOwner, InsertRoute, InsertIndex
<1> QED
  BY <1>2, <1>4, <1>5, GoAccess

(* A step that leaves senders and sessions alone. *)
LEMMA StillBinds ==
  ASSUME IInv, NEW t \in Tasks, UNCHANGED registry, UNCHANGED runner
  PROVE  Binding(t) /\ HistoryKept
BY DEF Binding, HistoryKept, registry, runner

(* The rest of a termination has the access it was granted. *)
LEMMA RetainRoutesAccess ==
  ASSUME IInv, AccessInv, NEW t \in Tasks, RetainRoutes(t)
  PROVE  AccessInv'
<1>1. PICK removed : task' = [task EXCEPT ![t].pc = "t_index", ![t].removed = removed]
  BY DEF RetainRoutes
<1>2. At(t, "t_routes") /\ conn' = conn /\ UNCHANGED registry /\ UNCHANGED runner
  BY DEF RetainRoutes
<1>3. task \in [Tasks -> HandlerState]
  BY TypeParts DEF TypeOK
<1>4. Others(t) /\ task'[t].sid = Sid(t)
  BY <1>1, <1>2, <1>3 DEF Others, HandlerState, Sid
<1>5. task[t].pc \in AccessSteps /\ task[t].pc \in SessionSteps
  BY <1>2 DEF At, AccessSteps, SessionSteps, PCs
<1>6. Knows(t, Sid(t)) /\ Sid(t) \in Sessions
  BY <1>5, SidTyped DEF AccessInv, AccessWasGranted
<1>7. Owning(t, conn[t].owned)
  BY <1>2, <1>4 DEF Owning, SameIdentity, Me
<1> QED
  BY <1>2, <1>4, <1>6, <1>7, StillBinds, OwnedAre, AccessFrom

(* A terminated session is not owned any more. *)
LEMMA EndTerminatedAccess ==
  ASSUME IInv, AccessInv, NEW t \in Tasks, EndTerminated(t)
  PROVE  AccessInv'
<1>1. Owning(t, conn[t].owned \ {Sid(t)}) /\ task'[t].pc = "idle"
  BY ReturnOwningOwns DEF EndTerminated
<1>2. Binding(t) /\ HistoryKept
  BY DEF EndTerminated, Binding, HistoryKept, registry
<1>3. \A s \in conn[t].owned \ {Sid(t)} : s \in Sessions /\ Knows(t, s)
  BY OwnedAre
<1> QED
  BY <1>1, <1>2, <1>3, AccessEdgesHold, AccessFrom DEF AccessEdges

(* A return, or a drop, grants nothing. *)
LEMMA ReturningAccess ==
  ASSUME IInv, AccessInv, NEW t \in Tasks,
         \/ NewSessionFails(t)
         \/ ToolCall(t)
         \/ Cancel(t)
  PROVE  AccessInv'
<1>1. Return(t) /\ UNCHANGED registry /\ UNCHANGED runner
  BY DEF NewSessionFails, ToolCall, Cancel
<1> QED
  BY <1>1, StillBinds, ReturnAccess

(* A route is read before access is asked for. *)
LEMMA ReadRouteAccess ==
  ASSUME IInv, AccessInv, NEW t \in Tasks, ReadRoute(t)
  PROVE  AccessInv'
<1>1. conn' = conn /\ UNCHANGED registry /\ UNCHANGED runner
  BY DEF ReadRoute
<1> DEFINE mapped == channel_routes[Key(t)]
<1>2. PICK pc \in {"new_session", "f_route", "check_owner"} :
        task' = [task EXCEPT ![t].sid = mapped, ![t].pc = pc]
  <2>1. \E pc \in {"new_session", "f_route", "check_owner"} :
          pc = CASE mapped = None -> "new_session"
                 [] mapped # None /\ task[t].force -> "f_route"
                 [] OTHER -> "check_owner"
    OBVIOUS
  <2> QED
    BY <2>1 DEF ReadRoute
<1> HIDE DEF mapped
<1>3. task \in [Tasks -> HandlerState]
  BY TypeParts DEF TypeOK
<1>4. Others(t) /\ task'[t].pc = pc
  BY <1>1, <1>2, <1>3 DEF Others, HandlerState
<1> QED
  BY <1>1, <1>2, <1>4, StillBinds, PassAccess, AccessEdgesHold DEF AccessEdges

(* A message starts without access. *)
LEMMA BeginAccess ==
  ASSUME IInv, AccessInv, NEW c \in Conns,
         \/ BeginCreate(c)
         \/ \E s \in Sessions : BeginUse(c, s) \/ BeginTerminate(c, s)
         \/ \E e \in Externals : ConnInbound(c, e)
  PROVE  AccessInv'
<1>1. conn' = conn /\ UNCHANGED registry /\ UNCHANGED runner /\ c \in Tasks
  BY DEF BeginCreate, BeginUse, BeginTerminate, BeginOn, ConnInbound, Tasks
<1>2. task \in [Tasks -> HandlerState]
  BY TypeParts DEF TypeOK
<1>3. Others(c) /\ task'[c].pc \in {"new_session", "authorize", "read_route"}
  <2>1. CASE BeginCreate(c)
    BY <1>1, <1>2, <2>1 DEF BeginCreate, Others, HandlerState
  <2>2. CASE \E s \in Sessions : BeginUse(c, s) \/ BeginTerminate(c, s)
    <3>1. PICK s, op : BeginOn(c, s, op)
      BY <2>2 DEF BeginUse, BeginTerminate
    <3>2. task' = [task EXCEPT ![c].pc = "authorize", ![c].op = op, ![c].sid = s]
      BY <3>1 DEF BeginOn
    <3> QED
      BY <1>1, <1>2, <3>2 DEF Others, HandlerState
  <2>3. CASE \E e \in Externals : ConnInbound(c, e)
    <3>1. PICK p, e, op, force : BeginInbound(c, p, e, op, force)
      BY <2>3 DEF ConnInbound
    <3> QED
      BY <1>1, <1>2, <3>1 DEF BeginInbound, Others, HandlerState
  <2> QED
    BY <2>1, <2>2, <2>3
<1> QED
  BY <1>1, <1>3, StillBinds, PassAccess, AccessEdgesHold DEF AccessEdges

(* A task comes to be somebody: it forgets nobody it has been, unless it   *)
(* holds nothing.                                                          *)
LEMMA BecomesAccess ==
  ASSUME IInv, AccessInv, NEW t \in Tasks, Others(t), Identified',
         conn'[t].owned \subseteq conn[t].owned,
         conn[t].known \subseteq conn'[t].known \/ (t \notin Conns /\ conn'[t].owned = {}),
         task'[t].pc \notin AccessSteps,
         UNCHANGED registry, UNCHANGED runner
  PROVE  AccessInv'
<1>1. OwnedByKnown'
  BY DEF AccessInv, OwnedByKnown, Others, Knows, runner
<1>2. AccessWasGranted'
  BY DEF AccessInv, AccessWasGranted, Others, Knows, Sid, runner
<1>3. \A c \in Conns : conn[c].known \subseteq conn'[c].known
  BY DEF Others, Tasks
<1>4. DeliveryWasGranted'
  BY <1>3 DEF AccessInv, DeliveryWasGranted, Knows, registry, runner
<1> QED
  BY <1>1, <1>2, <1>4 DEF AccessInv

(* An idle connection has no access. *)
LEMMA IdleAccess ==
  ASSUME NEW t \in Tasks, At(t, "idle"), task' = task
  PROVE  task'[t].pc \notin AccessSteps
BY DEF At, AccessSteps

(* An upgrade gives a connection that has been nobody its principal. *)
LEMMA OpenAccess ==
  ASSUME IInv, AccessInv, NEW c \in Conns, Open(c)
  PROVE  AccessInv'
<1>1. conn \in [Tasks -> ConnectionState] /\ c \in Tasks
  BY TypeParts DEF TypeOK, Tasks
<1> DEFINE p == IF RequirePairing THEN None ELSE Anonymous
           k == IF RequirePairing THEN {} ELSE {Anonymous}
<1>2. /\ conn' = [conn EXCEPT ![c].status = "open", ![c].principal = p, ![c].known = k]
      /\ conn[c].status = "new" /\ task' = task
      /\ UNCHANGED registry /\ UNCHANGED runner
  BY DEF Open
<1>3. conn[c].known = {}
  BY <1>1, <1>2 DEF AccessInv, Identified
<1>4. p # None => p \in k
  OBVIOUS
<1> HIDE DEF p, k
<1>5. /\ conn'[c].principal = p /\ conn'[c].status = "open" /\ conn'[c].known = k
      /\ conn'[c].owned = conn[c].owned
      /\ \A u \in Tasks \ {c} : conn'[u] = conn[u]
  BY <1>1, <1>2 DEF ConnectionState
<1>6. Identified'
  BY <1>4, <1>5 DEF AccessInv, Identified, Me
<1>7. At(c, "idle")
  BY <1>1, <1>2 DEF IInv, Locals, LocalsAt
<1>8. Others(c)
  BY <1>2, <1>5 DEF Others
<1> QED
  BY <1>1, <1>2, <1>3, <1>5, <1>6, <1>7, <1>8, IdleAccess, BecomesAccess

(* A connection that identifies itself, for the first time or again, has   *)
(* been who it was, and keeps what it owns and the senders it is bound to. *)
LEMMA IdentifyAccess ==
  ASSUME IInv, AccessInv, NEW c \in Conns, NEW p \in Principals, Identify(c, p)
  PROVE  AccessInv'
<1>1. conn \in [Tasks -> ConnectionState] /\ c \in Tasks
  BY TypeParts DEF TypeOK, Tasks
<1>2. /\ conn' = [conn EXCEPT ![c].principal = p, ![c].auths = @ + 1,
                             ![c].known = @ \cup {p}]
      /\ conn[c].status = "open" /\ task' = task /\ At(c, "idle")
      /\ UNCHANGED registry /\ UNCHANGED runner
  BY DEF Identify, Ready
<1>3. /\ conn'[c].principal = p /\ conn'[c].known = conn[c].known \cup {p}
      /\ conn'[c].owned = conn[c].owned /\ conn'[c].status = "open"
      /\ \A u \in Tasks \ {c} : conn'[u] = conn[u]
  BY <1>1, <1>2 DEF ConnectionState
<1>4. Identified'
  BY <1>3 DEF AccessInv, Identified, Me
<1>5. Others(c)
  BY <1>2, <1>3 DEF Others
<1> QED
  BY <1>1, <1>2, <1>3, <1>4, <1>5, IdleAccess, BecomesAccess

(* Pair and Authenticate. *)
LEMMA PairAccess ==
  ASSUME IInv, AccessInv, NEW c \in Conns, Pair(c) \/ Authenticate(c)
  PROVE  AccessInv'
<1>1. PICK p \in Principals : Identify(c, p)
  BY AdmittedTyped, GatewayAssumption DEF Pair, Authenticate
<1> QED
  BY <1>1, IdentifyAccess

(* A closed connection owns nothing; its senders are removed. *)
LEMMA CloseAccess ==
  ASSUME IInv, AccessInv, NEW c \in Conns, Close(c)
  PROVE  AccessInv'
<1>1. conn \in [Tasks -> ConnectionState] /\ c \in Tasks
  BY TypeParts DEF TypeOK, Tasks
<1>2. /\ conn' = [conn EXCEPT ![c].status = "closed", ![c].owned = {}]
      /\ task' = task /\ At(c, "idle") /\ UNCHANGED runner
  BY DEF Close, Ready
<1>3. \A s \in Sessions :
        /\ ws_response_senders'[s] \in {ws_response_senders[s], None}
        /\ ws_priority_senders'[s] \in {ws_priority_senders[s], None}
  BY DEF Close
<1>4. \A u \in Tasks : /\ conn'[u].principal = Me(u) /\ conn'[u].known = conn[u].known
                       /\ conn'[u].owned \subseteq conn[u].owned
                       /\ conn'[u].status = "new" => conn[u].status = "new"
  <2>1. \A u \in Tasks \ {c} : conn'[u] = conn[u]
    BY <1>1, <1>2
  <2>2. /\ conn'[c].status = "closed" /\ conn'[c].owned = {}
        /\ conn'[c].principal = Me(c) /\ conn'[c].known = conn[c].known
    BY <1>1, <1>2 DEF ConnectionState, Me
  <2> QED
    BY <2>1, <2>2 DEF Me
<1>5. OwnedByKnown' /\ AccessWasGranted'
  BY <1>2, <1>4 DEF AccessInv, OwnedByKnown, AccessWasGranted, Knows, Sid, runner
<1>6. Identified'
  BY <1>4 DEF AccessInv, Identified, Me
<1>7. DeliveryWasGranted'
  <2>1. ASSUME NEW s \in Sessions
        PROVE  /\ ws_response_senders'[s] \in Conns =>
                    ws_response_senders'[s] = ws_response_senders[s]
               /\ ws_priority_senders'[s] \in Conns =>
                    ws_priority_senders'[s] = ws_priority_senders[s]
    BY <1>3, GatewayAssumption
  <2>2. \A u \in Conns : conn'[u].known = conn[u].known
    BY <1>4 DEF Tasks
  <2>3. creator' = creator
    BY <1>2 DEF runner
  <2> QED
    BY <2>1, <2>2, <2>3 DEF AccessInv, DeliveryWasGranted, Knows
<1> QED
  BY <1>5, <1>6, <1>7 DEF AccessInv

(* A request starts with a ConnectionState of its own. *)
LEMMA RequestAccess ==
  ASSUME IInv, AccessInv, NEW r \in Reqs, NEW e \in Externals, Request(r, e)
  PROVE  AccessInv'
<1>1. /\ conn \in [Tasks -> ConnectionState] /\ task \in [Tasks -> HandlerState]
      /\ r \in Tasks /\ r \notin Conns
  BY TypeParts, GatewayAssumption DEF TypeOK, Tasks
<1>2. PICK p, op, force :
        /\ conn' = [conn EXCEPT ![r].principal = p, ![r].owned = {}, ![r].known = {p}]
        /\ BeginInbound(r, p, e, op, force)
  BY DEF Request
<1>3. UNCHANGED registry /\ UNCHANGED runner
  BY DEF Request
<1>4. /\ conn'[r].owned = {} /\ conn'[r].principal = p /\ conn'[r].known = {p}
      /\ task'[r].pc = "read_route" /\ Others(r)
  BY <1>1, <1>2 DEF ConnectionState, HandlerState, BeginInbound, Others
<1>5. Identified'
  BY <1>1, <1>4 DEF AccessInv, Identified, Others, Me, Tasks
<1> QED
  BY <1>1, <1>3, <1>4, <1>5, BecomesAccess, AccessEdgesHold DEF AccessEdges

(* The forwarder and the polls grant nothing. *)
LEMMA HandlersAccess ==
  ASSUME AccessInv, UNCHANGED <<registry, runner, conn, task>>
  PROVE  AccessInv'
BY DEF AccessInv, OwnedByKnown, Identified, AccessWasGranted, DeliveryWasGranted,
   Knows, Me, Sid, registry, runner

(* Every step of a handler keeps AccessInv. *)
LEMMA HandlerAccess ==
  ASSUME IInv, AccessInv, NEW t \in Tasks, HandlerStep(t)
  PROVE  AccessInv'
BY AuthorizeAccess, BindAccess, CreateAccess, NewSessionAccess, RemoveAccess,
   RetainRoutesAccess, EndTerminatedAccess, ReturningAccess, ReadRouteAccess
   DEF HandlerStep

(* AccessInv holds at the start. *)
LEMMA AccessInit == Init => AccessInv
<1> SUFFICES ASSUME Init PROVE AccessInv
  OBVIOUS
<1>1. ASSUME NEW t \in Tasks
      PROVE  /\ conn[t].owned = {} /\ Me(t) = None /\ conn[t].known = {}
             /\ task[t].pc = "idle"
  BY DEF Init, NewConn, IdleTask, Me
<1>2. \A s \in Sessions : ws_response_senders[s] = None /\ ws_priority_senders[s] = None
  BY DEF Init
<1> QED
  BY <1>1, <1>2, GatewayAssumption DEF AccessInv, OwnedByKnown, Identified,
     AccessWasGranted, AccessSteps, DeliveryWasGranted

(* Every step keeps AccessInv, given IInv. *)
LEMMA AccessNext ==
  ASSUME IInv, AccessInv, [Next]_vars
  PROVE  AccessInv'
<1>1. ASSUME NEW c \in Conns, ClientStep(c) PROVE AccessInv'
  BY <1>1, OpenAccess, PairAccess, CloseAccess, BeginAccess DEF ClientStep
<1>2. CASE \E r \in Reqs, e \in Externals : Request(r, e)
  BY <1>2, RequestAccess
<1>3. CASE \E r \in Cancellable : Cancel(r)
  BY <1>3, GatewayAssumption, ReturningAccess DEF Tasks
<1>4. CASE \E t \in Tasks : HandlerStep(t)
  BY <1>4, HandlerAccess
<1>5. CASE UNCHANGED vars
  BY <1>5, HandlersAccess DEF vars
<1>6. CASE \E s \in Sessions : ReceiveFinal(s)
  BY <1>6, HandlersAccess DEF ReceiveFinal
<1>7. CASE ForwarderStep
  BY <1>7, HandlersAccess DEF ForwarderStep, SendFinal, LookUpRoute, PushOutbound
<1>8. CASE \E k \in Keys, n \in 1..MaxFinals : Poll(k, n)
  BY <1>8, HandlersAccess DEF Poll
<1> QED
  BY <1>1, <1>2, <1>3, <1>4, <1>5, <1>6, <1>7, <1>8 DEF Next

----------------------------------------------------------------------------
(* Theorems *)

(* AccessInv holds in every reachable state. *)
THEOREM AccessHolds == Spec => []AccessInv
<1>1. Spec => []IInv
  BY InvariantHolds
<1>2. IInv /\ AccessInv /\ [Next]_vars => AccessInv'
  BY AccessNext
<1> QED
  BY <1>1, <1>2, AccessInit, PTL DEF Spec

(* Whoever acts on a session - binds a mailbox to it, calls a tool in it,  *)
(* terminates it - has proved on its connection to be the principal it was *)
(* created for, although the check of the owner and the action are steps   *)
(* apart, a connection caches the sessions it owns, and it may             *)
(* authenticate again as somebody else.                                    *)
THEOREM AccessStaysWithOwner == Spec => []AccessWasGranted
<1>1. AccessInv => AccessWasGranted
  BY DEF AccessInv
<1>2. Spec => []AccessInv
  BY AccessHolds
<1> QED
  BY <1>1, <1>2, PTL

(* The output pushed for a session goes only to connections that have      *)
(* proved to be the principal it was created for, whoever bound it last    *)
(* and whoever the connection is now.                                      *)
THEOREM DeliveryStaysWithOwner == Spec => []DeliveryWasGranted
<1>1. AccessInv => DeliveryWasGranted
  BY DEF AccessInv
<1>2. Spec => []AccessInv
  BY AccessHolds
<1> QED
  BY <1>1, <1>2, PTL
=============================================================================
