----------------------------- MODULE MCRequests ------------------------------
(* The parts that handle one request or event each, side by side for TLC:  *)
(* a behaviour is one of the part it starts with, and the variables of the *)
(* others keep their initial values.  The states of the parts add up       *)
(* instead of multiplying.                                                 *)
EXTENDS PairingGuard, TLC

CONSTANTS
  MaxTries,                                 \* ChannelIngress
  Messages, Actions, Forced, DefaultRole,   \* SupervisedAction
  Conns, MaxCommands,                       \* SessionTurns
  RateLimit, Ids, Calls, Tools, OtherName, Allowlist, NoId  \* ToolCalls

VARIABLES
  part,          \* the part that moves
  event, event_pc, tries, session, outcomes, told, asked,
  route, roles, live, request, ran,
  owned, cached, runtime, client, answers, buffer, conversation,
  settings, table, loops, call, audit, total, failed, runs, tool_late

Ingress == INSTANCE ChannelIngress WITH pc <- event_pc
Supervised == INSTANCE SupervisedAction
Turns == INSTANCE SessionTurns
Tool == INSTANCE ToolCalls WITH late <- tool_late

ASSUME RequestsAssumption ==
  /\ Ingress!IngressAssumption /\ Supervised!SupervisedActionAssumption
  /\ Turns!SessionTurnsAssumption /\ Tool!ToolCallsAssumption

ingressVars == <<event, event_pc, tries, session, outcomes, told, asked>>
actionVars == <<route, roles, live, request, ran>>
turnVars == <<owned, cached, runtime, client, answers, buffer, conversation>>
toolVars == <<settings, table, loops, call, audit, total, failed, runs, tool_late>>
requestsVars == <<part, vars, ingressVars, actionVars, turnVars, toolVars>>

(* Only one part moves. *)
OnlyPairing ==
  /\ part = "pairing"
  /\ UNCHANGED <<part, ingressVars, actionVars, turnVars, toolVars>>
OnlyIngress ==
  /\ part = "ingress"
  /\ UNCHANGED <<part, vars, actionVars, turnVars, toolVars>>
OnlyActions ==
  /\ part = "actions"
  /\ UNCHANGED <<part, vars, ingressVars, turnVars, toolVars>>
OnlyTurns ==
  /\ part = "turns"
  /\ UNCHANGED <<part, vars, ingressVars, actionVars, toolVars>>
OnlyTools ==
  /\ part = "tools"
  /\ UNCHANGED <<part, vars, ingressVars, actionVars, turnVars>>

(* The actions of the parts. *)
PairingCheckLockout(c) == OnlyPairing /\ CheckLockout(c)
PairingCompareRight(c) == OnlyPairing /\ CompareRight(c)
PairingCompareWrong(c) == OnlyPairing /\ CompareWrong(c)
PairingResetAttempts(c) == OnlyPairing /\ ResetAttempts(c)
PairingPushToken(c) == OnlyPairing /\ PushToken(c)
PairingComputeUntil(c) == OnlyPairing /\ ComputeUntil(c)
PairingWriteLockout(c) == OnlyPairing /\ WriteLockout(c)
PairingZeroAttempts(c) == OnlyPairing /\ ZeroAttempts(c)
PairingTick == OnlyPairing /\ Tick

IngressDeliver == OnlyIngress /\ Ingress!Deliver
IngressScreen == OnlyIngress /\ Ingress!Screen
IngressAuthenticate == OnlyIngress /\ Ingress!Authenticate
IngressRoute == OnlyIngress /\ Ingress!Route
IngressEndSession == OnlyIngress /\ Ingress!EndSession
IngressAuthorize == OnlyIngress /\ Ingress!Authorize
IngressSendText == OnlyIngress /\ Ingress!SendText
IngressCreateResponse == OnlyIngress /\ Ingress!CreateResponse
IngressReply == OnlyIngress /\ Ingress!Reply
IngressTimeOut == OnlyIngress /\ Ingress!TimeOut

ActionLook(r) == OnlyActions /\ Supervised!Look(r)
ActionReplace(r) == OnlyActions /\ Supervised!Replace(r)
ActionCheck(r) == OnlyActions /\ Supervised!Check(r)
ActionCreate(r) == OnlyActions /\ Supervised!Create(r)
ActionInsertRoute(r) == OnlyActions /\ Supervised!InsertRoute(r)
ActionUse(r) == OnlyActions /\ Supervised!Use(r)

TurnBegin(c, cmd) == OnlyTurns /\ Turns!Begin(c, cmd)
TurnStep(c) == OnlyTurns /\ Turns!Step(c)

ToolCreate(i) == OnlyTools /\ Tool!Create(i)
ToolEnd(i) == OnlyTools /\ Tool!End(i)
ToolAbort(i) == OnlyTools /\ Tool!Abort(i)
ToolLookup(c, i, name) == OnlyTools /\ Tool!Lookup(c, i, name)
ToolDispatch(c, i, name) == OnlyTools /\ Tool!Dispatch(c, i, name)
ToolResolve(c) == OnlyTools /\ Tool!Resolve(c)
ToolFind(c) == OnlyTools /\ Tool!Find(c)
ToolCheck(c) == OnlyTools /\ Tool!Check(c)
ToolRun(c) == OnlyTools /\ Tool!Run(c)
ToolReturn(c, result) == OnlyTools /\ Tool!Return(c, result)
ToolAnswer(c) == OnlyTools /\ Tool!Answer(c)
ToolCount(c) == OnlyTools /\ Tool!Count(c)
ToolCountFailure(c) == OnlyTools /\ Tool!CountFailure(c)
ToolGraphFails(c) == OnlyTools /\ Tool!GraphFails(c)

(* The parts that do not move start in one of their initial states.        *)
RequestsInit ==
  /\ part \in {"pairing", "ingress", "actions", "turns", "tools"}
  /\ Init
  /\ part # "pairing" => config = [required |-> TRUE, code |-> TRUE]
  /\ Supervised!Init /\ Turns!Init /\ Tool!Init
  /\ part = "ingress" \/ event = CHOOSE e \in Ingress!Events : TRUE
  /\ part = "ingress" \/ session = FALSE
  /\ part = "turns" \/ cached = {}
  /\ Ingress!Init

RequestsNext ==
  \/ \E c \in Callers :
       \/ PairingCheckLockout(c) \/ PairingCompareRight(c) \/ PairingCompareWrong(c)
       \/ PairingResetAttempts(c) \/ PairingPushToken(c) \/ PairingComputeUntil(c)
       \/ PairingWriteLockout(c) \/ PairingZeroAttempts(c)
  \/ PairingTick
  \/ IngressDeliver \/ IngressScreen \/ IngressAuthenticate \/ IngressRoute
  \/ IngressEndSession \/ IngressAuthorize \/ IngressSendText
  \/ IngressCreateResponse \/ IngressReply \/ IngressTimeOut
  \/ \E r \in Supervised!Requests :
       \/ ActionLook(r) \/ ActionReplace(r) \/ ActionCheck(r) \/ ActionCreate(r)
       \/ ActionInsertRoute(r) \/ ActionUse(r)
  \/ \E c \in Conns : TurnStep(c) \/ \E cmd \in Turns!Commands : TurnBegin(c, cmd)
  \/ \E i \in Ids : ToolCreate(i) \/ ToolEnd(i) \/ ToolAbort(i)
  \/ \E c \in Calls :
       \/ \E i \in Ids, name \in Tools \cup {OtherName} :
            ToolLookup(c, i, name) \/ ToolDispatch(c, i, name)
       \/ ToolResolve(c) \/ ToolFind(c) \/ ToolCheck(c) \/ ToolRun(c)
       \/ \E result \in {"ok", "error"} : ToolReturn(c, result)
       \/ ToolAnswer(c) \/ ToolCount(c) \/ ToolCountFailure(c) \/ ToolGraphFails(c)

RequestsSpec == RequestsInit /\ [][RequestsNext]_requestsVars

(* Connections and tool calls are named alike in the configuration. *)
RequestsSymmetry == Permutations(Conns \cup Calls) \cup Permutations(Ids)

----------------------------------------------------------------------------
(* ChannelIngress: an event that reaches the runner twice was answered     *)
(* with a failure or not at all before, a success is final and complete,   *)
(* what was refused leaves nothing behind, and bots do not hear            *)
(* themselves.                                                             *)
EventsDeliveredOnce ==
  part = "ingress" =>
    /\ Ingress!TypeOK /\ Ingress!CopiesExplained /\ Ingress!SuccessIsFinal
    /\ Ingress!OnlyMessagesReach /\ Ingress!NoEchoes

(* SupervisedAction: an action that replaces the session runs its tool     *)
(* supervised, in a session of its own.                                    *)
ForcedIsSupervised ==
  part = "actions" => Supervised!ForcedIsSupervised

(* SessionTurns: an accepted command reaches the provider once, a refused  *)
(* one never, commits cover the audio sent before them, every command is   *)
(* answered once, and a session that has ended takes nothing from whoever  *)
(* still has it cached.                                                    *)
TurnsAnswered ==
  part = "turns" =>
    /\ Turns!TypeOK /\ Turns!AcceptedOnce /\ Turns!CommitsCover
    /\ Turns!AnsweredOnce /\ Turns!EndedRefuses

(* ToolCalls: what a call is answered is what happened, a tool runs only   *)
(* if the role permits it and no tool of a supervised graph does, the      *)
(* metrics count the calls of the provider, and a session that has ended   *)
(* runs no tool for a call that began after that.                          *)
ToolsAnswerable ==
  /\ [](part = "tools" =>
         /\ Tool!TypeOK /\ Tool!AnswersTrue /\ Tool!RunsArePermitted
         /\ Tool!GraphPauses /\ Tool!MetricsCount)
  /\ Tool!EndedRunsNothingNew
=============================================================================
