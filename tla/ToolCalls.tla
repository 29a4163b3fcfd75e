------------------------------ MODULE ToolCalls ------------------------------
(***************************************************************************)
(* How a tool is called in a session (main.rs): by a client, through the   *)
(* tool graph or directly (session_tool_call), or by the provider, through *)
(* the loop of the session (AdkToolHandler).  Calls of all kinds run       *)
(* concurrently with each other and with the end of their session.         *)
(*                                                                         *)
(* The tools come from adk-auth's AuthMiddleware, which checks the role of *)
(* the session and audits every attempt; the graph engine is adk-graph.    *)
(***************************************************************************)
EXTENDS Naturals, FiniteSets

CONSTANTS
  Ids,          \* sessions
  Calls,        \* tool calls
  Tools,        \* names of the registered tools
  OtherName,    \* a name that is not registered
  Allowlist,    \* security.tool_allowlist
  RateLimit,    \* security.rate_limit_per_session
  NoId

ToolCallsAssumption ==
  /\ OtherName \notin Tools /\ NoId \notin Ids
  /\ Allowlist \subseteq Tools /\ RateLimit \in Nat

Roles == {"readonly", "supervised", "full"}

VARIABLES
  settings,       \* role and graph_enabled of a session
  table,          \* RunnerAdapter.sessions
  loops,          \* sessions whose loop can still call tools
  call,           \* who calls what in which session, and how far it is
  audit,          \* what AuthMiddleware has written: call and outcome
  total, failed,  \* ToolExecutionMetrics
  \* History.
  runs,           \* how often a call has run its tool
  late            \* calls that were under way when their session ended

vars == <<settings, table, loops, call, audit, total, failed, runs, late>>

NoCall == [by |-> "nobody", session |-> NoId, name |-> OtherName,
           pc |-> "idle", result |-> "none"]
Finals == {"answered", "unregistered", "interrupted", "not_found",
           "graph_failed", "aborted"}
By(c, who) == call[c].by = who
At(c, pc) == call[c].pc = pc
Goes(c, pc) == call' = [call EXCEPT ![c].pc = pc]
Settings(c) == settings[call[c].session]
InGraph(c) == By(c, "client") /\ Settings(c).graph
UnderWay(c) == call[c].pc \notin Finals \cup {"idle"}
ProviderCalls == {c \in Calls : By(c, "provider")}

(* readonly may use no tool, supervised the listed ones, full all. *)
Permitted(role, name) ==
  role = "full" \/ (role = "supervised" /\ name \in Allowlist)

Init ==
  /\ settings = [i \in Ids |-> [role |-> "none", graph |-> FALSE]]
  /\ table = {} /\ loops = {}
  /\ call = [c \in Calls |-> NoCall]
  /\ audit = {} /\ total = 0 /\ failed = 0
  /\ runs = [c \in Calls |-> 0] /\ late = {}

----------------------------------------------------------------------------
(* Sessions.                                                               *)

(* A session has the role and the graph switch its client asks for, or the *)
(* configured ones; another role is refused.                               *)
Create(i) ==
  /\ settings[i].role = "none"
  /\ \E role \in Roles, graph \in BOOLEAN :
       settings' = [settings EXCEPT ![i] = [role |-> role, graph |-> graph]]
  /\ table' = table \cup {i} /\ loops' = loops \cup {i}
  /\ UNCHANGED <<call, audit, total, failed, runs, late>>

(* terminate_session takes the session out of the table ... *)
End(i) ==
  /\ i \in table
  /\ table' = table \ {i}
  /\ late' = late \cup {c \in Calls : UnderWay(c) /\ call[c].session = i}
  /\ UNCHANGED <<settings, loops, call, audit, total, failed, runs>>

(* ... and then aborts its loop, which drops the call it awaits; *)
(* a call that has its result is counted without another await.            *)
Abort(i) ==
  /\ i \in loops \ table
  /\ \A c \in ProviderCalls :
       call[c].session = i => call[c].pc \notin {"finished", "count_failure"}
  /\ loops' = loops \ {i}
  /\ call' = [c \in Calls |->
       IF c \in ProviderCalls /\ call[c].session = i /\ UnderWay(c)
       THEN [call[c] EXCEPT !.pc = "aborted"] ELSE call[c]]
  /\ UNCHANGED <<settings, table, audit, total, failed, runs, late>>

----------------------------------------------------------------------------
(* A client calls a tool.                                                  *)

(* Mutant of Lookup: the session is not looked up in the table. *)
Lookup_Ended(c, i, name) ==
  /\ At(c, "idle") /\ settings[i].role # "none"
  /\ call' = [call EXCEPT ![c] =
       [by |-> "client", session |-> i, name |-> name, result |-> "none",
        pc |-> IF settings[i].graph THEN "resolve" ELSE "find"]]
  /\ UNCHANGED <<settings, table, loops, audit, total, failed, runs, late>>

(* session_tool_call copies what it needs of the session. *)
Lookup(c, i, name) ==
  /\ At(c, "idle") /\ settings[i].role # "none"
  /\ call' = [call EXCEPT ![c] =
       [by |-> "client", session |-> i, name |-> name, result |-> "none",
        pc |-> IF i \notin table THEN "not_found"
               ELSE IF settings[i].graph THEN "resolve" ELSE "find"]]
  /\ UNCHANGED <<settings, table, loops, audit, total, failed, runs, late>>

(* The node resolve_tool_call queues the call and the edge leads to tools, *)
(* before which a supervised session is interrupted.                       *)
Resolve(c) ==
  /\ At(c, "resolve")
  /\ Goes(c, IF Settings(c).role = "supervised" THEN "interrupted" ELSE "find")
  /\ UNCHANGED <<settings, table, loops, audit, total, failed, runs, late>>

(* The engine gives up between two nodes, for one at the recursion limit. *)
GraphFails(c) ==
  /\ InGraph(c) /\ call[c].pc \in {"resolve", "find", "finished"}
  /\ Goes(c, "graph_failed")
  /\ UNCHANGED <<settings, table, loops, audit, total, failed, runs, late>>

(* A name that is not registered is answered without an attempt. *)
Find(c) ==
  /\ At(c, "find")
  /\ Goes(c, IF call[c].name \in Tools THEN "execute" ELSE "unregistered")
  /\ UNCHANGED <<settings, table, loops, audit, total, failed, runs, late>>

(* The result is answered, by the graph after its tools node.             *)
Answer(c) ==
  /\ By(c, "client") /\ At(c, "finished")
  /\ Goes(c, "answered")
  /\ UNCHANGED <<settings, table, loops, audit, total, failed, runs, late>>

----------------------------------------------------------------------------
(* The provider calls a registered tool, one at a time in a session.       *)
Dispatch(c, i, name) ==
  /\ At(c, "idle") /\ i \in loops /\ name \in Tools
  /\ \A d \in ProviderCalls : UnderWay(d) => call[d].session # i
  /\ call' = [call EXCEPT ![c] = [by |-> "provider", session |-> i,
                name |-> name, result |-> "none", pc |-> "execute"]]
  /\ UNCHANGED <<settings, table, loops, audit, total, failed, runs, late>>

(* ToolExecutionMetrics::record, two additions without an await.           *)
Count(c) ==
  /\ By(c, "provider") /\ At(c, "finished")
  /\ total' = total + 1
  /\ Goes(c, IF call[c].result = "ok" THEN "answered" ELSE "count_failure")
  /\ UNCHANGED <<settings, table, loops, audit, failed, runs, late>>

CountFailure(c) ==
  /\ At(c, "count_failure")
  /\ failed' = failed + 1
  /\ Goes(c, "answered")
  /\ UNCHANGED <<settings, table, loops, audit, total, runs, late>>

----------------------------------------------------------------------------
(* The protected tool.                                                     *)

(* AuthMiddleware checks the role and audits before the tool may run. *)
Check(c) ==
  /\ At(c, "execute")
  /\ LET ok == Permitted(Settings(c).role, call[c].name)
     IN /\ audit' = audit \cup
             {[call |-> c, outcome |-> IF ok THEN "allowed" ELSE "denied"]}
        /\ call' = [call EXCEPT
             ![c].pc = IF ok THEN "run" ELSE "finished",
             ![c].result = IF ok THEN "none" ELSE "error"]
  /\ UNCHANGED <<settings, table, loops, total, failed, runs, late>>

Run(c) ==
  /\ At(c, "run")
  /\ runs' = [runs EXCEPT ![c] = @ + 1]
  /\ Goes(c, "ran")
  /\ UNCHANGED <<settings, table, loops, audit, total, failed, late>>

Return(c, result) ==
  /\ At(c, "ran")
  /\ call' = [call EXCEPT ![c].pc = "finished", ![c].result = result]
  /\ UNCHANGED <<settings, table, loops, audit, total, failed, runs, late>>

----------------------------------------------------------------------------
Step(c) ==
  \/ Resolve(c) \/ Find(c) \/ Check(c) \/ Run(c)
  \/ Return(c, "ok") \/ Return(c, "error")
  \/ Answer(c) \/ Count(c) \/ CountFailure(c)

Next ==
  \/ \E i \in Ids : Create(i) \/ End(i) \/ Abort(i)
  \/ \E c \in Calls :
       \/ Step(c) \/ GraphFails(c)
       \/ \E i \in Ids, name \in Tools \cup {OtherName} :
            Lookup(c, i, name) \/ Dispatch(c, i, name)

Spec == Init /\ [][Next]_vars

----------------------------------------------------------------------------
(* Types. *)
TypeOK ==
  /\ settings \in [Ids -> [role : Roles \cup {"none"}, graph : BOOLEAN]]
  /\ table \subseteq loops /\ loops \subseteq Ids
  /\ \A c \in Calls :
       /\ call[c].result \in {"none", "ok", "error"}
       /\ call[c].result # "none" =>
            call[c].pc \in Finals \cup {"finished", "count_failure"}
  /\ audit \subseteq [call : Calls, outcome : {"allowed", "denied"}]

(* What a call is answered is what happened: a result of a tool means that *)
(* it ran once, a refusal that it did not run.  Only a graph that failed   *)
(* and a call that was dropped leave it open.                              *)
AnswersTrue ==
  \A c \in Calls :
    /\ runs[c] <= 1
    /\ At(c, "answered") =>
         runs[c] = IF [call |-> c, outcome |-> "denied"] \in audit THEN 0 ELSE 1
    /\ call[c].pc \in {"unregistered", "interrupted", "not_found"} => runs[c] = 0

(* A tool runs only if the role its session was created with permits it,   *)
(* whoever calls it and by whichever way, and the audit says so before.    *)
RunsArePermitted ==
  \A c \in Calls : runs[c] > 0 =>
    /\ Permitted(Settings(c).role, call[c].name)
    /\ [call |-> c, outcome |-> "allowed"] \in audit

(* In the graph of a supervised session no tool runs. *)
GraphPauses ==
  \A c \in Calls : runs[c] > 0 /\ InGraph(c) => Settings(c).role # "supervised"

(* Once a session has ended a client runs a tool in it only with a call    *)
(* that had begun before, and the provider none once the loop is gone.     *)
EndedRunsNothingNew ==
  [][\A c \in Calls : runs'[c] > runs[c] =>
       IF By(c, "client") THEN call[c].session \in table \/ c \in late
       ELSE call[c].session \in loops]_vars

(* The metrics are those of the provider's calls that were not dropped,    *)
(* although calls of several sessions are counted concurrently.            *)
MetricsCount ==
  LET answered == {c \in ProviderCalls : At(c, "answered")}
      counting == {c \in ProviderCalls : At(c, "count_failure")}
  IN /\ total = Cardinality(answered \cup counting)
     /\ failed = Cardinality({c \in answered : call[c].result = "error"})

(* requirements.md: the Supervised role interrupts before tool nodes, for  *)
(* human approval of tool calls.                                           *)
SupervisedPauses ==
  \A c \in Calls : runs[c] > 0 => Settings(c).role # "supervised"

(* README: per-session rate limiting on tool executions. *)
RateLimited ==
  \A i \in Ids :
    Cardinality({c \in Calls : runs[c] > 0 /\ call[c].session = i}) <= RateLimit
=============================================================================
