--------------------------- MODULE RuntimeSessions ---------------------------
(***************************************************************************)
(* The session table of the runner (RunnerAdapter in main.rs): creating a  *)
(* session connects a runtime and spawns its loop, the loop reconnects     *)
(* with a budget of attempts, terminating a session closes the runtime and *)
(* ends the loop.  All three run concurrently.                             *)
(*                                                                         *)
(* A session id is a fresh uuid (handle_create_session in server.rs), so a *)
(* session is created at most once and never finds its id taken.           *)
(***************************************************************************)
EXTENDS Naturals, FiniteSets

CONSTANTS
  Ids,              \* session ids, one create_session each
  Terminators,      \* concurrent calls of terminate_session
  MaxAttempts,      \* max_reconnect_attempts, 0 when reconnecting is disabled
  MaxLosses,        \* bound: how often the provider drops a connection
  Droppable,        \* sessions whose calls the HTTP server may drop
  NoId

RuntimeSessionsAssumption ==
  /\ {MaxAttempts, MaxLosses} \subseteq Nat
  /\ Droppable \subseteq Ids /\ NoId \notin Ids

VARIABLES
  table,       \* RunnerAdapter.sessions
  shutdown,    \* sessions whose shutdown flag is set
  tracking,    \* SessionLifecycleManager.compaction_counts
  creator,     \* where create_session of a session is
  terminator,  \* where a call of terminate_session is, and of which session
  loop,        \* the task of spawn_runtime_loop: its point and its attempt
  closed,      \* runtimes that were told to close
  attempts, successes, failures,  \* RuntimeDiagnosticsCounters
  \* History.
  losses,      \* connections the provider has dropped
  abandoned,   \* attempts that ended without a result
  released     \* for each session, the calls that returned Ok for it

counters == <<attempts, successes, failures>>
vars == <<table, shutdown, tracking, creator, terminator, loop, closed,
          counters, losses, abandoned, released>>

LoopPoints == {"none", "top", "run", "retry", "sleep", "dial", "ended"}
Waiting == {"sleep", "dial"}   \* an attempt is counted and has no result
Running(i) == loop[i].pc \notin {"none", "ended"}
Attempting == {i \in Ids : loop[i].pc \in Waiting}
LoopGoes(i, pc) == loop' = [loop EXCEPT ![i].pc = pc]
LoopEnds(i) == loop' = [loop EXCEPT ![i] = [pc |-> "ended", attempt |-> 0]]

Init ==
  /\ table = {} /\ shutdown = {} /\ tracking = {} /\ closed = {}
  /\ creator = [i \in Ids |-> "idle"]
  /\ terminator = [t \in Terminators |-> [pc |-> "idle", id |-> NoId]]
  /\ loop = [i \in Ids |-> [pc |-> "none", attempt |-> 0]]
  /\ attempts = 0 /\ successes = 0 /\ failures = 0
  /\ losses = 0 /\ abandoned = 0
  /\ released = [i \in Ids |-> 0]

----------------------------------------------------------------------------
(* create_session.                                                         *)

CreatorGoes(i, pc) == creator' = [creator EXCEPT ![i] = pc]

(* The principal is allowed and the lifecycle session is initialized. *)
Initialize(i) ==
  /\ creator[i] = "idle"
  /\ CreatorGoes(i, "configure")
  /\ tracking' = tracking \cup {i}
  /\ UNCHANGED <<table, shutdown, terminator, loop, closed, counters, losses,
                 abandoned, released>>

(* No API key, an unsupported role, no audit sink, no base URL: the session *)
(* stays in compaction_counts.                                              *)
Configure(i) ==
  /\ creator[i] = "configure"
  /\ CreatorGoes(i, "connect") \/ CreatorGoes(i, "failed")
  /\ UNCHANGED <<table, shutdown, tracking, terminator, loop, closed, counters,
                 losses, abandoned, released>>

(* runtime.connect() returns, the loop is spawned before the session is in *)
(* the table.                                                              *)
Connect(i) ==
  /\ creator[i] = "connect"
  /\ \/ CreatorGoes(i, "failed") /\ UNCHANGED loop
     \/ CreatorGoes(i, "insert") /\ LoopGoes(i, "top")
  /\ UNCHANGED <<table, shutdown, tracking, terminator, closed, counters,
                 losses, abandoned, released>>

Insert(i) ==
  /\ creator[i] = "insert"
  /\ CreatorGoes(i, "done")
  /\ table' = table \cup {i}
  /\ UNCHANGED <<shutdown, tracking, terminator, loop, closed, counters,
                 losses, abandoned, released>>

(* The client of an HTTP request leaves and its handler is dropped at an   *)
(* await; dropping a JoinHandle detaches the task.                         *)
DropCreate(i) ==
  /\ i \in Droppable
  /\ creator[i] \in {"configure", "connect", "insert"}
  /\ CreatorGoes(i, "dropped")
  /\ UNCHANGED <<table, shutdown, tracking, terminator, loop, closed, counters,
                 losses, abandoned, released>>

----------------------------------------------------------------------------
(* spawn_runtime_loop and reconnect_with_backoff.                          *)

LoopTop(i) ==
  /\ loop[i].pc = "top"
  /\ IF i \in shutdown THEN LoopEnds(i)
     ELSE loop' = [loop EXCEPT ![i] = [pc |-> "run", attempt |-> 0]]
  /\ UNCHANGED <<table, shutdown, tracking, creator, terminator, closed,
                 counters, losses, abandoned, released>>

(* run() ends: Ok stops the loop, an error starts to reconnect.  A closed  *)
(* runtime ends either way.                                                *)
RunEnds(i) ==
  /\ loop[i].pc = "run"
  /\ \/ LoopEnds(i) /\ UNCHANGED losses
     \/ /\ i \in closed \/ losses < MaxLosses
        /\ losses' = IF i \in closed THEN losses ELSE losses + 1
        /\ IF MaxAttempts = 0 THEN LoopEnds(i)
           ELSE loop' = [loop EXCEPT ![i] = [pc |-> "retry", attempt |-> 1]]
  /\ UNCHANGED <<table, shutdown, tracking, creator, terminator, closed,
                 counters, abandoned, released>>

Retry(i) ==
  /\ loop[i].pc = "retry"
  /\ IF i \in shutdown
     THEN LoopEnds(i) /\ UNCHANGED attempts
     ELSE LoopGoes(i, "sleep") /\ attempts' = attempts + 1
  /\ UNCHANGED <<table, shutdown, tracking, creator, terminator, closed,
                 successes, failures, losses, abandoned, released>>

(* The backoff is over and the flag is read again. *)
Wake(i) ==
  /\ loop[i].pc = "sleep"
  /\ IF i \in shutdown
     THEN LoopEnds(i) /\ abandoned' = abandoned + 1
     ELSE LoopGoes(i, "dial") /\ UNCHANGED abandoned
  /\ UNCHANGED <<table, shutdown, tracking, creator, terminator, closed,
                 counters, losses, released>>

DialFails(i) ==
  /\ loop[i].pc = "dial"
  /\ failures' = failures + 1
  /\ IF loop[i].attempt = MaxAttempts THEN LoopEnds(i)
     ELSE loop' = [loop EXCEPT ![i] =
                     [pc |-> "retry", attempt |-> loop[i].attempt + 1]]
  /\ UNCHANGED <<table, shutdown, tracking, creator, terminator, closed,
                 attempts, successes, losses, abandoned, released>>

DialSucceeds(i) ==
  /\ loop[i].pc = "dial"
  /\ successes' = successes + 1
  /\ LoopGoes(i, "top")
  /\ UNCHANGED <<table, shutdown, tracking, creator, terminator, closed,
                 attempts, failures, losses, abandoned, released>>

LoopStep(i) ==
  \/ LoopTop(i) \/ RunEnds(i) \/ Retry(i) \/ Wake(i)
  \/ DialFails(i) \/ DialSucceeds(i)

----------------------------------------------------------------------------
(* terminate_session.                                                      *)

Terminating(t, pc) == terminator[t].pc = pc
TerminatorGoes(t, pc) == terminator' = [terminator EXCEPT ![t].pc = pc]
Idle == [pc |-> "idle", id |-> NoId]

(* Mutant of Remove: the session is looked up and removed at the end. *)
Remove_Lookup(t) ==
  /\ Terminating(t, "idle")
  /\ \E i \in table :
       /\ shutdown' = shutdown \cup {i}
       /\ terminator' = [terminator EXCEPT ![t] = [pc |-> "untrack", id |-> i]]
  /\ UNCHANGED <<table, tracking, creator, loop, closed, counters, losses,
                 abandoned, released>>

(* An unknown session is an error and changes nothing. *)
Remove(t) ==
  /\ Terminating(t, "idle")
  /\ \E i \in table :
       /\ table' = table \ {i}
       /\ shutdown' = shutdown \cup {i}
       /\ terminator' = [terminator EXCEPT ![t] = [pc |-> "untrack", id |-> i]]
  /\ UNCHANGED <<tracking, creator, loop, closed, counters, losses, abandoned,
                 released>>

ClearTracking(t) ==
  /\ Terminating(t, "untrack")
  /\ tracking' = tracking \ {terminator[t].id}
  /\ TerminatorGoes(t, "close")
  /\ UNCHANGED <<table, shutdown, creator, loop, closed, counters, losses,
                 abandoned, released>>

(* runtime.close(), whatever it returns, and the summary of the session. *)
Close(t) ==
  /\ Terminating(t, "close")
  /\ closed' = closed \cup {terminator[t].id}
  /\ TerminatorGoes(t, "abort")
  /\ UNCHANGED <<table, shutdown, tracking, creator, loop, counters, losses,
                 abandoned, released>>

(* Mutant of Abort: the loop is joined and not aborted. *)
Abort_JoinOnly(t) ==
  /\ Terminating(t, "abort")
  /\ ~Running(terminator[t].id)
  /\ released' = [released EXCEPT ![terminator[t].id] = @ + 1]
  /\ terminator' = [terminator EXCEPT ![t] = Idle]
  /\ UNCHANGED <<table, shutdown, tracking, creator, loop, closed, counters,
                 losses, abandoned>>

(* The loop is aborted and joined.  It may have ended by itself. *)
Abort(t) ==
  /\ Terminating(t, "abort")
  /\ LET i == terminator[t].id
     IN /\ abandoned' = IF loop[i].pc \in Waiting THEN abandoned + 1 ELSE abandoned
        /\ LoopEnds(i)
        /\ released' = [released EXCEPT ![i] = @ + 1]
  /\ terminator' = [terminator EXCEPT ![t] = Idle]
  /\ UNCHANGED <<table, shutdown, tracking, creator, closed, counters, losses>>

DropTerminate(t) ==
  /\ terminator[t].id \in Droppable
  /\ terminator' = [terminator EXCEPT ![t] = Idle]
  /\ UNCHANGED <<table, shutdown, tracking, creator, loop, closed, counters,
                 losses, abandoned, released>>

TerminateStep(t) == ClearTracking(t) \/ Close(t) \/ Abort(t)

----------------------------------------------------------------------------
Next ==
  \/ \E i \in Ids :
       \/ Initialize(i) \/ Configure(i) \/ Connect(i) \/ Insert(i)
       \/ DropCreate(i) \/ LoopStep(i)
  \/ \E t \in Terminators : Remove(t) \/ TerminateStep(t) \/ DropTerminate(t)

Spec == Init /\ [][Next]_vars

(* The runtime polls every task that is ready; a sleep, a connect and a    *)
(* close end.  run() may go on forever, even after a close, and nobody has *)
(* to create or terminate a session.                                       *)
Fairness ==
  /\ \A i \in Ids :
       /\ WF_vars(Configure(i) \/ Connect(i) \/ Insert(i))
       /\ WF_vars(LoopTop(i) \/ Retry(i) \/ Wake(i)
                  \/ DialFails(i) \/ DialSucceeds(i))
  /\ \A t \in Terminators : WF_vars(TerminateStep(t))

FairSpec == Spec /\ Fairness

----------------------------------------------------------------------------
(* Types: the attempt of a loop is within its budget, and a session in the *)
(* table has been created.                                                 *)
TypeOK ==
  /\ table \subseteq {i \in Ids : creator[i] = "done"}
  /\ shutdown \subseteq Ids /\ tracking \subseteq Ids /\ closed \subseteq Ids
  /\ creator \in [Ids -> {"idle", "configure", "connect", "insert", "done",
                          "failed", "dropped"}]
  /\ terminator \in [Terminators ->
       [pc : {"idle", "untrack", "close", "abort"}, id : Ids \cup {NoId}]]
  /\ loop \in [Ids -> [pc : LoopPoints, attempt : 0..MaxAttempts]]
  /\ {attempts, successes, failures, losses, abandoned} \subseteq Nat
  /\ released \in [Ids -> Nat]

(* No loop runs on its own: its session is in the table, or about to be    *)
(* inserted by its creator, or being terminated.  A loop nobody can reach  *)
(* holds the connection to the provider until the process ends.            *)
LoopsOwned ==
  \A i \in Ids : Running(i) =>
    \/ i \in table
    \/ creator[i] = "insert"
    \/ \E t \in Terminators : terminator[t].id = i

(* A session that was terminated is terminated once, it is gone from the   *)
(* table and its task has ended.                                           *)
TerminatedOnce ==
  \A i \in Ids :
    released[i] > 0 => released[i] = 1 /\ i \notin table /\ ~Running(i)

(* The counters of the diagnostics add up: every attempt has succeeded,    *)
(* failed, was abandoned by a shutdown or is in progress.                  *)
AttemptsAccounted ==
  attempts = successes + failures + abandoned + Cardinality(Attempting)

(* A session that is being terminated dials the provider at most once      *)
(* more: a dial that was under way when the flag was set.                  *)
NoNewDial == [][\A i \in shutdown : loop'[i].pc \in {"sleep", "dial"} =>
                                      loop[i].pc = loop'[i].pc]_vars

(* A call of terminate_session returns, wherever the loop of its session   *)
(* is, even when run() does not end.                                       *)
TerminateReturns ==
  \A t \in Terminators : terminator[t].pc # "idle" ~> terminator[t].pc = "idle"

(* Reconnecting comes to an end: the session runs again or its loop has    *)
(* given up after the budget.                                              *)
ReconnectEnds ==
  \A i \in Ids : loop[i].pc = "retry" ~> loop[i].pc \in {"run", "ended"}

----------------------------------------------------------------------------
(* The inductive invariant *)

(* A loop begins with its session, and a session is released after it was  *)
(* in the table.                                                           *)
CreatedInv ==
  \A i \in Ids :
    /\ creator[i] \in {"idle", "configure", "connect", "failed"} =>
         loop[i].pc = "none"
    /\ creator[i] # "done" => released[i] = 0
    /\ i \in table => released[i] = 0

(* One call at most terminates a session, and it has taken the session out *)
(* of the table before.                                                    *)
TerminatorsInv ==
  \A t \in Terminators :
    LET i == terminator[t].id
    IN /\ terminator[t].pc = "idle" <=> i = NoId
       /\ i # NoId =>
            /\ creator[i] = "done" /\ i \notin table /\ released[i] = 0
            /\ i \in shutdown
            /\ \A u \in Terminators : terminator[u].id = i => u = t

IInv ==
  /\ TypeOK /\ CreatedInv /\ TerminatorsInv /\ TerminatedOnce
  /\ IsFiniteSet(Attempting) /\ AttemptsAccounted
=============================================================================
