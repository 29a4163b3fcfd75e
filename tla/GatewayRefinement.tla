------------------------- MODULE GatewayRefinement --------------------------
(***************************************************************************)
(* The gateway implements SessionLifecycle: every step of every task       *)
(* either leaves the stage of every session as it is or takes one session  *)
(* along one edge of the life cycle.                                       *)
(***************************************************************************)
EXTENDS GatewayProofs

InCreation(s)    == \E t \in Tasks : Creating(t, s)
InTermination(s) == \E t \in Tasks : Terminating(t, s)

(* What the stage of a session is, in terms of the runner's table, the     *)
(* registry and the handlers on the way.                                   *)
StageOf(s) ==
  /\ creator[s] = None => Status(s) = "unborn"
  /\ creator[s] # None /\ live[s] = None => Status(s) = "closed"
  /\ creator[s] # None /\ live[s] # None =>
       /\ session_owners[s] # None => Status(s) = "published"
       /\ session_owners[s] = None =>
            /\ InCreation(s) => Status(s) = "started"
            /\ InTermination(s) => Status(s) = "hidden"
            /\ ~InCreation(s) /\ ~InTermination(s) => Status(s) = "abandoned"

(* A session under creation is not under termination, and who is running   *)
(* has a creator.                                                          *)
Separate(s) ==
  /\ ~(InCreation(s) /\ InTermination(s))
  /\ live[s] # None => creator[s] # None

(* Both hold in every state with IInv. *)
LEMMA Stages == IInv => \A s \in Sessions : StageOf(s) /\ Separate(s)
<1> SUFFICES ASSUME IInv, NEW s \in Sessions PROVE StageOf(s) /\ Separate(s)
  OBVIOUS
<1>1. ~(InCreation(s) /\ InTermination(s))
  <2> SUFFICES ASSUME NEW t \in Tasks, NEW u \in Tasks, Creating(t, s), Terminating(u, s)
               PROVE  FALSE
    BY DEF InCreation, InTermination
  <2>1. t # u
    BY DEF Creating, Terminating, At
  <2> QED
    BY <2>1 DEF IInv, Exclusive, CreateSteps, Creating, Terminating, At
<1>2. live[s] # None => creator[s] # None
  BY DEF IInv, Ownership
<1>3. creator[s] = None => Status(s) = "unborn"
  BY <1>2 DEF Status
<1>4. creator[s] # None /\ live[s] = None => Status(s) = "closed"
  BY DEF Status
<1>5. ASSUME creator[s] # None, live[s] # None, session_owners[s] # None
      PROVE  Status(s) = "published"
  BY <1>5 DEF Status
<1>6. ASSUME creator[s] # None, live[s] # None, session_owners[s] = None
      PROVE  /\ InCreation(s) => Status(s) = "started"
             /\ InTermination(s) => Status(s) = "hidden"
             /\ ~InCreation(s) /\ ~InTermination(s) => Status(s) = "abandoned"
  BY <1>1, <1>6 DEF Status, InCreation, InTermination
<1> QED
  BY <1>1, <1>2, <1>3, <1>4, <1>5, <1>6 DEF StageOf, Separate

(* And after every step. *)
LEMMA StagesNext == (IInv => \A s \in Sessions : StageOf(s) /\ Separate(s))'
BY Stages, PTL

Stage == [s \in Sessions |-> Status(s)]

SameTables == UNCHANGED <<session_owners, live, creator>>

(* A session whose entries stay, and which no handler starts or stops to   *)
(* create or terminate, stays at its stage.                                *)
LEMMA StageKept ==
  ASSUME IInv, IInv', NEW s \in Sessions,
         creator'[s] = creator[s], live'[s] = live[s],
         session_owners'[s] = session_owners[s],
         InCreation(s)' <=> InCreation(s), InTermination(s)' <=> InTermination(s)
  PROVE  Status(s)' = Status(s)
<1>1. StageOf(s) /\ Separate(s) /\ StageOf(s)' /\ Separate(s)'
  BY Stages, StagesNext
<1> QED
  BY <1>1 DEF StageOf, Separate

OnTheWay == TerminatingSteps \cup {"own"}

(* A step of a task that neither enters nor leaves those steps. *)
Steady(t) ==
  /\ SameTables
  /\ \A u \in Tasks \ {t} : task'[u] = task[u]
  /\ \/ {task[t].pc, task'[t].pc} \cap OnTheWay = {}
     \/ {task[t].pc, task'[t].pc} \subseteq TerminatingSteps /\ task'[t].sid = Sid(t)

(* It changes the stage of no session. *)
LEMMA SteadyStages ==
  ASSUME IInv, IInv', NEW t \in Tasks, Steady(t)
  PROVE  Stage' = Stage
<1>1. ASSUME NEW s \in Sessions
      PROVE  /\ InCreation(s)' <=> InCreation(s)
             /\ InTermination(s)' <=> InTermination(s)
  BY DEF Steady, OnTheWay, TerminatingSteps, InCreation, InTermination, Creating,
     Terminating, At, Sid
<1>2. \A s \in Sessions : Status(s)' = Status(s)
  BY <1>1, StageKept DEF Steady, SameTables
<1> QED
  BY <1>2 DEF Stage

Moving(t) ==
  NewSession(t) \/ InsertOwner(t) \/ RemoveOwner(t) \/ EndTerminated(t) \/ EndReplaced(t)

(* Every handler step but those is steady. *)
LEMMA HandlerSteady ==
  ASSUME IInv, NEW t \in Tasks, HandlerStep(t), ~Moving(t)
  PROVE  Steady(t)
<1>1. task \in [Tasks -> HandlerState] /\ conn \in [Tasks -> ConnectionState]
  BY TypeParts DEF TypeOK
<1> USE <1>1 DEF HandlerState, At, Sid, Steady, SameTables, OnTheWay, TerminatingSteps,
                 registry, runner
<1>2. CASE AuthorizeOwned(t) \/ AuthorizeByOwner(t) \/ BindPriority(t)
  <2>1. /\ \A u \in Tasks \ {t} : task'[u] = task[u]
        /\ {task[t].pc, task'[t].pc} \cap OnTheWay = {}
    BY <1>2 DEF AuthorizeOwned, AuthorizeByOwner, BindPriority, Granted, AfterAccess,
       Go, Return, GoOwning, ReturnOwning, IdleTask
  <2> QED
    BY <1>2, <2>1 DEF AuthorizeOwned, AuthorizeByOwner, BindPriority
<1>3. CASE InsertPrioritySender(t)
  BY <1>3 DEF InsertPrioritySender, Created, Go, GoOwning, ReturnOwning, IdleTask
<1>4. CASE NewSessionFails(t) \/ ToolCall(t)
  BY <1>4 DEF NewSessionFails, ToolCall, Return, IdleTask
<1>5. CASE ReadRoute(t) \/ CheckOwner(t) \/ InsertRoute(t) \/ InsertIndex(t)
  BY <1>5 DEF ReadRoute, CheckOwner, InsertRoute, InsertIndex, Go
<1>6. CASE BindResponses(t) \/ InsertResponseSender(t) \/ RemoveResponseSender(t)
             \/ RemovePrioritySender(t)
  BY <1>6 DEF BindResponses, InsertResponseSender, RemoveResponseSender,
     RemovePrioritySender, Go
<1>7. CASE RetainRoutes(t) \/ UnindexTerminated(t) \/ DiscardOutboxes(t)
  BY <1>7 DEF RetainRoutes, UnindexTerminated, DiscardOutboxes, Go
<1>8. CASE RemoveRoute(t) \/ UnindexReplaced(t) \/ DiscardOutbox(t)
  BY <1>8 DEF RemoveRoute, UnindexReplaced, DiscardOutbox, Go
<1> QED
  BY <1>2, <1>3, <1>4, <1>5, <1>6, <1>7, <1>8 DEF HandlerStep, Moving

(* So is every step of a client, *)
LEMMA ClientSteady ==
  ASSUME IInv, NEW t \in Tasks,
         \/ t \in Conns /\ ClientStep(t)
         \/ \E e \in Externals : t \in Reqs /\ Request(t, e)
  PROVE  Steady(t)
<1>1. task \in [Tasks -> HandlerState] /\ conn \in [Tasks -> ConnectionState]
  BY TypeParts DEF TypeOK
<1> USE <1>1 DEF HandlerState, At, Sid, Steady, SameTables, OnTheWay, TerminatingSteps,
                 registry, runner
<1>2. CASE t \in Conns /\ Open(t)
  <2>1. task[t].pc = "idle"
    BY <1>2 DEF Open, IInv, Locals, LocalsAt
  <2> QED
    BY <1>2, <2>1 DEF Open
<1>3. CASE t \in Conns /\ (Pair(t) \/ Authenticate(t) \/ Close(t))
  BY <1>3 DEF Pair, Authenticate, Identify, Close, Ready
<1>4. CASE t \in Conns /\ BeginCreate(t)
  BY <1>4 DEF BeginCreate, Ready
<1>5. CASE t \in Conns /\ \E s \in Sessions : BeginUse(t, s) \/ BeginTerminate(t, s)
  BY <1>5 DEF BeginUse, BeginTerminate, BeginOn, Ready
<1>6. ASSUME NEW p, NEW e, NEW op, NEW force, BeginInbound(t, p, e, op, force)
      PROVE  task'[t].pc = "read_route" /\ \A u \in Tasks \ {t} : task'[u] = task[u]
  BY <1>6 DEF BeginInbound
<1>7. CASE t \in Conns /\ \E e \in Externals : ConnInbound(t, e)
  BY <1>6, <1>7 DEF ConnInbound, Ready
<1>8. CASE \E e \in Externals : t \in Reqs /\ Request(t, e)
  BY <1>6, <1>8 DEF Request
<1> QED
  BY <1>2, <1>3, <1>4, <1>5, <1>7, <1>8 DEF ClientStep

(* and every step that leaves the tasks and the runner alone. *)
LEMMA AsideStages ==
  ASSUME IInv, IInv', SameTables, task' = task
  PROVE  Stage' = Stage
<1>1. ASSUME NEW s \in Sessions
      PROVE  /\ InCreation(s)' <=> InCreation(s)
             /\ InTermination(s)' <=> InTermination(s)
  BY DEF InCreation, InTermination, Creating, Terminating, At, Sid
<1>2. \A s \in Sessions : Status(s)' = Status(s)
  BY <1>1, StageKept DEF SameTables
<1> QED
  BY <1>2 DEF Stage

----------------------------------------------------------------------------
(* The steps that take a session along *)

(* The step of a task that deals with one session before and after leaves  *)
(* every other session at its stage.                                       *)
LEMMA OnlyOne ==
  ASSUME IInv, IInv', NEW t \in Tasks, NEW s \in Sessions,
         \A u \in Tasks \ {t} : task'[u] = task[u],
         task[t].pc \in OnTheWay => Sid(t) = s,
         task'[t].pc \in OnTheWay => task'[t].sid = s,
         \A r \in Sessions \ {s} : /\ creator'[r] = creator[r] /\ live'[r] = live[r]
                                   /\ session_owners'[r] = session_owners[r]
  PROVE  Stage' = [Stage EXCEPT ![s] = Status(s)']
<1>1. ASSUME NEW r \in Sessions \ {s}
      PROVE  /\ InCreation(r)' <=> InCreation(r)
             /\ InTermination(r)' <=> InTermination(r)
  BY DEF OnTheWay, TerminatingSteps, InCreation, InTermination, Creating,
     Terminating, At, Sid
<1>2. \A r \in Sessions \ {s} : Status(r)' = Status(r)
  BY <1>1, StageKept
<1> QED
  BY <1>2 DEF Stage

Along == [Lifecycle!Next]_(Lifecycle!lifecycleVars)

(* A session that goes from one stage to another along an edge. *)
LEMMA OneEdge ==
  ASSUME NEW s \in Sessions, Stage' = [Stage EXCEPT ![s] = Status(s)'],
         creator' = creator,
         \/ Status(s)' = Status(s)
         \/ Status(s) = "started" /\ Status(s)' = "published"
         \/ Status(s) = "published" /\ Status(s)' = "hidden"
         \/ Status(s) = "hidden" /\ Status(s)' = "closed"
         \/ Status(s) = "abandoned" /\ Status(s)' = "hidden"
         \/ /\ Cancellable # {}
            /\ Status(s) \in {"started", "hidden"} /\ Status(s)' = "abandoned"
  PROVE  Along
<1>1. Stage[s] = Status(s)
  BY DEF Stage
<1>2. CASE Status(s)' = Status(s)
  <2>1. Stage' = Stage
    BY <1>1, <1>2 DEF Stage
  <2> QED
    BY <2>1 DEF Along, Lifecycle!lifecycleVars, Stage
<1>3. CASE Status(s)' # Status(s)
  <2>1. \/ Lifecycle!Publish(s) \/ Lifecycle!Hide(s) \/ Lifecycle!Finish(s)
        \/ Lifecycle!Abandon(s) \/ Lifecycle!Recover(s)
    BY <1>1, <1>3 DEF Lifecycle!Publish, Lifecycle!Hide, Lifecycle!Finish,
       Lifecycle!Abandon, Lifecycle!Recover, Lifecycle!Change, Stage
  <2> QED
    BY <2>1 DEF Along, Lifecycle!Next
<1> QED
  BY <1>2, <1>3

(* Nothing happens to any session. *)
LEMMA NoEdge == ASSUME Stage' = Stage, creator' = creator PROVE Along
BY DEF Along, Lifecycle!lifecycleVars, Stage

(* runner.create_session starts one, *)
LEMMA NewSessionAlong ==
  ASSUME IInv, IInv', NEW t \in Tasks, NewSession(t)
  PROVE  Along
<1>1. PICK s \in Sessions :
        /\ creator[s] = None
        /\ live' = [live EXCEPT ![s] = Me(t)]
        /\ creator' = [creator EXCEPT ![s] = Me(t)]
        /\ task' = [task EXCEPT ![t].pc = "own", ![t].sid = s]
        /\ session_owners' = session_owners
        /\ At(t, "new_session")
  BY DEF NewSession, registry
<1>2. /\ task \in [Tasks -> HandlerState]
      /\ live \in [Sessions -> Principals \cup {None}]
      /\ creator \in [Sessions -> Principals \cup {None}]
  BY TypeParts DEF MapTypes, TypeOK
<1>3. Me(t) \in Principals /\ Me(t) # None
  BY <1>1, GatewayAssumption DEF IInv, Locals, LocalsAt, At
<1>4. session_owners[s] = None
  BY <1>1 DEF IInv, Ownership, OwnedIsLive
<1>5. Creating(t, s)'
  BY <1>1, <1>2 DEF Creating, At, Sid, HandlerState
<1>6. Status(s) = "unborn" /\ Status(s)' = "started"
  BY <1>1, <1>2, <1>3, <1>4, <1>5, Stages, StagesNext DEF StageOf, InCreation
<1>7. Stage' = [Stage EXCEPT ![s] = Status(s)']
  <2>1. /\ \A u \in Tasks \ {t} : task'[u] = task[u]
        /\ task[t].pc \notin OnTheWay /\ task'[t].sid = s
    BY <1>1, <1>2 DEF OnTheWay, TerminatingSteps, HandlerState, At
  <2> QED
    BY <1>1, <1>2, <2>1, OnlyOne
<1>8. Lifecycle!Start(s, Me(t))
  BY <1>1, <1>6, <1>7 DEF Lifecycle!Start, Lifecycle!Change, Stage
<1> QED
  BY <1>3, <1>8 DEF Along, Lifecycle!Next

(* the record of its owner publishes it, *)
LEMMA InsertOwnerAlong ==
  ASSUME IInv, IInv', NEW t \in Tasks, InsertOwner(t)
  PROVE  Along
<1>1. /\ At(t, "own") /\ live' = live /\ creator' = creator
      /\ session_owners' = [session_owners EXCEPT ![Sid(t)] = Me(t)]
  BY DEF InsertOwner, runner
<1>2. /\ task \in [Tasks -> HandlerState]
      /\ session_owners \in [Sessions -> Principals \cup {None}]
  BY TypeParts DEF MapTypes, TypeOK
<1>3. PICK s \in Sessions : /\ s = Sid(t) /\ creator[s] # None
                            /\ Me(t) # None /\ live[s] = Me(t)
  BY <1>1, SidTyped, GatewayAssumption DEF At, SessionSteps, PCs, IInv, Ownership
<1>4. /\ \A u \in Tasks \ {t} : task'[u] = task[u]
      /\ task'[t].pc \in {"own_response", "idle", "route"}
  BY <1>2 DEF InsertOwner, Created, Go, GoOwning, ReturnOwning, IdleTask, HandlerState
<1>5. Stage' = [Stage EXCEPT ![s] = Status(s)']
  BY <1>1, <1>2, <1>3, <1>4, OnlyOne DEF OnTheWay, TerminatingSteps
<1>6. InCreation(s)
  BY <1>1, <1>3 DEF InCreation, Creating
<1>7. Status(s) \in {"started", "published"}
  BY <1>3, <1>6, Stages DEF StageOf
<1>8. Status(s)' = "published"
  BY <1>1, <1>2, <1>3, StagesNext DEF StageOf
<1> QED
  BY <1>1, <1>3, <1>5, <1>7, <1>8, OneEdge

(* its removal hides it, *)
LEMMA RemoveOwnerAlong ==
  ASSUME IInv, IInv', NEW t \in Tasks, RemoveOwner(t)
  PROVE  Along
<1>1. /\ At(t, "t_owner") \/ At(t, "f_owner")
      /\ live' = live /\ creator' = creator
      /\ session_owners' = [session_owners EXCEPT ![Sid(t)] = None]
  BY DEF RemoveOwner, runner
<1>2. /\ task \in [Tasks -> HandlerState]
      /\ session_owners \in [Sessions -> Principals \cup {None}]
  BY TypeParts DEF MapTypes, TypeOK
<1>3. PICK s \in Sessions : s = Sid(t) /\ creator[s] # None
  BY <1>1, SidTyped DEF At, SessionSteps, PCs
<1>4. /\ \A u \in Tasks \ {t} : task'[u] = task[u]
      /\ task'[t].pc \in {"t_routes", "f_runner"} /\ task'[t].sid = s
  BY <1>2, <1>3 DEF RemoveOwner, Go, HandlerState, Sid
<1>5. Stage' = [Stage EXCEPT ![s] = Status(s)']
  BY <1>1, <1>2, <1>3, <1>4, OnlyOne DEF OnTheWay, TerminatingSteps
<1>6. ~InCreation(s)
  <2> SUFFICES ASSUME NEW u \in Tasks, Creating(u, s) PROVE FALSE
    BY DEF InCreation
  <2>1. u # t
    BY <1>1 DEF Creating, At
  <2> QED
    BY <1>3, <2>1 DEF IInv, Exclusive, CreateSteps, Creating, At
<1>7. InTermination(s)'
  BY <1>4 DEF InTermination, Terminating, Sid
<1>8. \/ live[s] = None /\ Status(s) = "closed" /\ Status(s)' = "closed"
      \/ Status(s) \in {"published", "hidden", "abandoned"} /\ Status(s)' = "hidden"
  BY <1>1, <1>2, <1>3, <1>6, <1>7, Stages, StagesNext DEF StageOf
<1> QED
  BY <1>1, <1>3, <1>5, <1>8, OneEdge

(* and runner.terminate_session closes it. *)
LEMMA EndAlong ==
  ASSUME IInv, IInv', NEW t \in Tasks, EndTerminated(t) \/ EndReplaced(t)
  PROVE  Along
<1>1. /\ At(t, "t_runner") \/ At(t, "f_runner")
      /\ live' = [live EXCEPT ![Sid(t)] = None]
      /\ creator' = creator /\ session_owners' = session_owners
  BY DEF EndTerminated, EndReplaced, registry
<1>2. /\ task \in [Tasks -> HandlerState]
      /\ live \in [Sessions -> Principals \cup {None}]
  BY TypeParts DEF MapTypes, TypeOK
<1>3. PICK s \in Sessions : /\ s = Sid(t) /\ creator[s] # None
                            /\ session_owners[s] = None
  BY <1>1, SidTyped DEF At, SessionSteps, PCs, IInv, Ownership, TerminatingSteps
<1>4. /\ \A u \in Tasks \ {t} : task'[u] = task[u]
      /\ task'[t].pc \in {"idle", "new_session"}
  BY <1>2 DEF EndTerminated, EndReplaced, Go, ReturnOwning, IdleTask, HandlerState
<1>5. Stage' = [Stage EXCEPT ![s] = Status(s)']
  BY <1>1, <1>2, <1>3, <1>4, OnlyOne DEF OnTheWay, TerminatingSteps
<1>6. InTermination(s)
  BY <1>1, <1>3 DEF InTermination, Terminating, At
<1>7. Status(s) \in {"hidden", "closed"} /\ Status(s)' = "closed"
  BY <1>1, <1>2, <1>3, <1>6, Stages, StagesNext DEF StageOf
<1> QED
  BY <1>1, <1>3, <1>5, <1>7, OneEdge

(* A dropped handler abandons the session it was creating or terminating,  *)
(* unless another terminates it too.                                       *)
LEMMA CancelAlong ==
  ASSUME IInv, IInv', NEW r \in Cancellable, Cancel(r)
  PROVE  Along
<1>1. r \in Tasks /\ Cancellable # {}
  BY GatewayAssumption DEF Tasks
<1>2. task \in [Tasks -> HandlerState]
  BY TypeParts DEF TypeOK
<1>3. /\ SameTables /\ task'[r].pc = "idle"
      /\ \A u \in Tasks \ {r} : task'[u] = task[u]
  BY <1>1, <1>2 DEF Cancel, Return, SameTables, registry, runner, IdleTask
<1>4. CASE task[r].pc \notin OnTheWay
  <2>1. Steady(r)
    BY <1>3, <1>4 DEF Steady, OnTheWay, TerminatingSteps
  <2> QED
    BY <1>1, <1>3, <2>1, SteadyStages, NoEdge DEF SameTables
<1>5. CASE task[r].pc \in OnTheWay
  <2>1. PICK s \in Sessions : s = Sid(r) /\ creator[s] # None
    BY <1>1, <1>5, SidTyped DEF OnTheWay, TerminatingSteps, SessionSteps, PCs
  <2>2. Stage' = [Stage EXCEPT ![s] = Status(s)']
    BY <1>1, <1>3, <2>1, OnlyOne DEF SameTables, OnTheWay, TerminatingSteps
  <2>3. InCreation(s) \/ InTermination(s)
    BY <1>1, <1>5, <2>1 DEF OnTheWay, InCreation, InTermination, Creating, Terminating,
       TerminatingSteps, At
  <2>4. ~InCreation(s)'
    <3> SUFFICES ASSUME NEW u \in Tasks, Creating(u, s)' PROVE FALSE
      BY DEF InCreation
    <3>1. u # r /\ Creating(u, s)
      BY <1>3 DEF Creating, At, Sid
    <3> QED
      BY <1>1, <2>1, <3>1 DEF IInv, Exclusive, CreateSteps, Creating, At
  <2>5. InTermination(s)' => InTermination(s)
    BY <1>3 DEF InTermination, Terminating, Sid
  <2>6. StageOf(s) /\ StageOf(s)' /\ Separate(s)
    BY <2>1, Stages, StagesNext
  <2>7. \/ Status(s)' = Status(s)
        \/ Status(s) \in {"started", "hidden"} /\ Status(s)' = "abandoned"
    BY <1>3, <2>1, <2>3, <2>4, <2>5, <2>6 DEF StageOf, Separate, SameTables
  <2> QED
    BY <1>1, <1>3, <2>1, <2>2, <2>7, OneEdge DEF SameTables
<1> QED
  BY <1>4, <1>5

----------------------------------------------------------------------------
(* The refinement *)

(* The gateway starts with every session unborn. *)
LEMMA LifecycleInit == Init => Lifecycle!Init
<1> SUFFICES ASSUME Init PROVE Lifecycle!Init
  OBVIOUS
<1>1. \A s \in Sessions : Status(s) = "unborn"
  BY InvariantInit, Stages DEF Init, StageOf
<1> QED
  BY <1>1 DEF Init, Lifecycle!Init

(* Every step of the gateway is a step of the life cycle, or none. *)
LEMMA LifecycleNext == IInv /\ IInv' /\ [Next]_vars => Along
<1> SUFFICES ASSUME IInv, IInv', [Next]_vars PROVE Along
  OBVIOUS
<1>1. ASSUME NEW t \in Tasks, Steady(t) PROVE Along
  BY <1>1, SteadyStages, NoEdge DEF Steady, SameTables
<1>2. CASE \E c \in Conns : ClientStep(c)
  BY <1>1, <1>2, ClientSteady DEF Tasks
<1>3. CASE \E r \in Reqs, e \in Externals : Request(r, e)
  BY <1>1, <1>3, ClientSteady DEF Tasks
<1>4. CASE \E r \in Cancellable : Cancel(r)
  BY <1>4, CancelAlong
<1>5. CASE \E t \in Tasks : HandlerStep(t)
  BY <1>1, <1>5, HandlerSteady, NewSessionAlong, InsertOwnerAlong, RemoveOwnerAlong,
     EndAlong DEF Moving
<1>6. ASSUME SameTables, task' = task PROVE Along
  BY <1>6, AsideStages, NoEdge DEF SameTables
<1>7. CASE \E s \in Sessions : ReceiveFinal(s)
  BY <1>6, <1>7 DEF ReceiveFinal, SameTables, registry, runner
<1>8. CASE ForwarderStep
  BY <1>6, <1>8 DEF ForwarderStep, SendFinal, LookUpRoute, PushOutbound, SameTables,
     registry, runner
<1>9. CASE \E k \in Keys, n \in 1..MaxFinals : Poll(k, n)
  BY <1>6, <1>9 DEF Poll, SameTables, registry, runner
<1>10. CASE UNCHANGED vars
  BY <1>6, <1>10 DEF vars, SameTables, registry, runner
<1> QED
  BY <1>2, <1>3, <1>4, <1>5, <1>7, <1>8, <1>9, <1>10 DEF Next

(* The gateway keeps the promise of SessionLifecycle about every session:  *)
(* the runner starts it once and for one principal, clients can reach it   *)
(* only from then until its removal begins, the runner lets go of it only  *)
(* after that, and it never comes back, for any number of connections and  *)
(* requests, also when requests are dropped half-way.                      *)
THEOREM GatewayImplementsLifecycle == Spec => ImplementsLifecycle
BY LifecycleInit, LifecycleNext, InvariantHolds, PTL
   DEF Spec, ImplementsLifecycle, Lifecycle!Spec, Along
=============================================================================
