-------------------------- MODULE SupervisedAction --------------------------
(***************************************************************************)
(* In which session, and with which role, the supervised action webhook    *)
(* runs its tool (channel_webhook_supervised_action_handler in server.rs). *)
(* Requests of one route run concurrently: messages, which create sessions *)
(* with the default role, and actions, which may or may not ask for the    *)
(* session of the route to be replaced.  The locks of each access and the  *)
(* rest of the shared state are in GatewayChannels.                        *)
(***************************************************************************)
EXTENDS Naturals, Sequences

CONSTANTS
  Messages, Actions,  \* requests of the route
  DefaultRole,        \* security.default_role
  Forced              \* actions that ask for a replacement, as by default

SupervisedActionAssumption ==
  /\ Messages \cap Actions = {}
  /\ Forced \subseteq Actions

Requests == Messages \cup Actions

VARIABLES
  route,    \* the session the route leads to, 0 for none
  roles,    \* the role of every session created so far, in order of creation
  live,     \* sessions that have an owner
  request,  \* where a request is, and the session it works on
  ran       \* History: the role an action ran its tool with

vars == <<route, roles, live, request, ran>>

At(r, pc) == request[r].pc = pc
Moves(r, pc, s) == request' = [request EXCEPT ![r] = [pc |-> pc, session |-> s]]
Newest == Len(roles)

Init ==
  /\ route = 0 /\ roles = <<>> /\ live = {}
  /\ request = [r \in Requests |-> [pc |-> "look", session |-> 0]]
  /\ ran = [a \in Actions |-> "none"]

(* Mutant of Look: a forced action uses the session it finds. *)
Look_Kept(r) ==
  /\ At(r, "look")
  /\ IF route # 0 THEN Moves(r, "check", route) ELSE Moves(r, "create", 0)
  /\ UNCHANGED <<route, roles, live, ran>>

(* The route is read; a forced action goes on to replace what it finds.    *)
Look(r) ==
  /\ At(r, "look")
  /\ \/ /\ route = 0
        /\ Moves(r, "create", 0)
     \/ /\ route # 0 /\ r \in Forced
        /\ Moves(r, "replace", route)
     \/ /\ route # 0 /\ r \notin Forced
        /\ Moves(r, "check", route)
  /\ UNCHANGED <<route, roles, live, ran>>

Replace(r) ==
  /\ At(r, "replace")
  /\ route' = 0
  /\ live' = live \ {request[r].session}
  /\ Moves(r, "create", 0)
  /\ UNCHANGED <<roles, ran>>

(* A session without an owner is not used. *)
Check(r) ==
  /\ At(r, "check")
  /\ \/ /\ request[r].session \in live
        /\ Moves(r, "use", request[r].session)
        /\ UNCHANGED route
     \/ /\ request[r].session \notin live
        /\ Moves(r, "create", 0)
        /\ route' = 0
  /\ UNCHANGED <<roles, live, ran>>

Create(r) ==
  /\ At(r, "create")
  /\ roles' = Append(roles, IF r \in Actions THEN "supervised" ELSE DefaultRole)
  /\ live' = live \cup {Newest + 1}
  /\ Moves(r, "map", Newest + 1)
  /\ UNCHANGED <<route, ran>>

InsertRoute(r) ==
  /\ At(r, "map")
  /\ route' = request[r].session
  /\ Moves(r, "use", request[r].session)
  /\ UNCHANGED <<roles, live, ran>>

(* The tool is called in the session the message was routed to; a session  *)
(* that has ended meanwhile answers with an error.                         *)
Use(r) ==
  /\ At(r, "use")
  /\ ran' = IF r \in Actions /\ request[r].session \in live
            THEN [ran EXCEPT ![r] = roles[request[r].session]] ELSE ran
  /\ Moves(r, "done", request[r].session)
  /\ UNCHANGED <<route, roles, live>>

Next ==
  \E r \in Requests :
    Look(r) \/ Replace(r) \/ Check(r) \/ Create(r) \/ InsertRoute(r) \/ Use(r)

Spec == Init /\ [][Next]_vars

----------------------------------------------------------------------------
(* An action that replaces the session runs its tool supervised, and in a  *)
(* session of its own, whatever other requests of the route do meanwhile.  *)
ForcedIsSupervised ==
  \A a \in Forced :
    /\ ran[a] \in {"none", "supervised"}
    /\ \A b \in Forced \ {a} : At(a, "use") /\ At(b, "use") =>
         request[a].session # request[b].session

(* The parity board: the entrypoint has an enforced role "supervised".     *)
AlwaysSupervised == \A a \in Actions : ran[a] \in {"none", "supervised"}
=============================================================================
