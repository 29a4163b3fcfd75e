---------------------------- MODULE DockerBridge ----------------------------
(***************************************************************************)
(* DockerRuntimeBridgeRuntime (main.rs): commands to a worker process over *)
(* its stdin, acknowledgements over its stdout, timeouts, the end of the   *)
(* worker, reconnects and close; with the worker of run_docker_runtime_    *)
(* worker at the other end of the pipes.                                   *)
(*                                                                         *)
(* next_command_id gives every command an id of its own, so a command is   *)
(* its id.  A connection is a number: the 1st, 2nd, ... the session makes; *)
(* it lives as long as the bridge, run(), close() or a command in progress *)
(* holds a clone of it.                                                    *)
(***************************************************************************)
EXTENDS Naturals, Sequences

CONSTANTS
  Commands,        \* commands callers send in the life of the session
  MaxConnections,  \* bound: connections the session makes
  MaxEvents        \* bound: outputs and errors of a worker in a row

ASSUME BridgeAssumption ==
  /\ "close" \notin Commands  \* the Close command is none of the callers'
  /\ MaxConnections \in Nat \ {0}
  /\ MaxEvents \in Nat

VARIABLES
  connection,  \* the bridge's connection, 0 for None
  made,        \* connections made so far
  pending,     \* connection -> ids in pending_acks
  commands,    \* connection -> commands on their way to the worker
  writer,      \* connection -> the task that writes stdin has not failed
  messages,    \* connection -> messages on their way from the worker
  worker,      \* connection -> the worker process
  call,        \* command -> where its send_worker_command is
  ack,         \* command -> what its oneshot holds
  loop,        \* the runtime task of the session: connect, run, ...
  closer,      \* terminate_session: shutdown, close, abort
  shutdown,
  executed     \* history: <<connection, command>> the worker has carried out

pipes == <<pending, commands, writer, messages, worker>>
vars == <<connection, made, pipes, call, ack, loop, closer, shutdown, executed>>

Connections == 1..MaxConnections
Results == {"ok", "failed", "timeout", "unsent", "dropped"}

Ack(k, ok) == [kind |-> "ack", id |-> k, ok |-> ok]
Event(kind) == [kind |-> kind, id |-> kind, ok |-> FALSE]
CloseCommand == "close"

(* Which connection a command, run() or close() has a clone of. *)
InProgress(k) == call[k].pc \notin {"idle", "done"}
Holders(g) ==
  {k \in Commands : InProgress(k) /\ call[k].gen = g}
    \cup {p \in {"loop"} : loop.gen = g} \cup {p \in {"closer"} : closer.gen = g}
    \cup {p \in {"bridge"} : connection = g}

Init ==
  /\ connection = 0 /\ made = 0
  /\ pending = [g \in Connections |-> {}]
  /\ commands = [g \in Connections |-> <<>>]
  /\ writer = [g \in Connections |-> TRUE]
  /\ messages = [g \in Connections |-> <<>>]
  /\ worker = [g \in Connections |-> "none"]
  /\ call = [k \in Commands |-> [pc |-> "idle", gen |-> 0, result |-> "none"]]
  /\ ack = [k \in Commands |-> "none"]
  /\ loop = [pc |-> "connect", gen |-> 0]
  /\ closer = [pc |-> "idle", gen |-> 0]
  /\ shutdown = FALSE
  /\ executed = {}

----------------------------------------------------------------------------
(* send_worker_command *)

Step(k, pc) == call' = [call EXCEPT ![k].pc = pc]
Finish(k, result) ==
  call' = [call EXCEPT ![k].pc = "done", ![k].result = result]

Clone(k) ==
  /\ call[k].pc = "idle"
  /\ IF connection = 0 THEN Finish(k, "unsent")
     ELSE call' = [call EXCEPT ![k].pc = "insert", ![k].gen = connection]
  /\ UNCHANGED <<connection, made, pipes, ack, loop, closer, shutdown, executed>>

Insert(k) ==
  /\ call[k].pc = "insert"
  /\ pending' = [pending EXCEPT ![call[k].gen] = @ \cup {k}]
  /\ Step(k, "send")
  /\ UNCHANGED <<connection, made, commands, writer, messages, worker, ack, loop,
                 closer, shutdown, executed>>

Send(k) ==
  /\ call[k].pc = "send"
  /\ IF writer[call[k].gen]
     THEN /\ commands' = [commands EXCEPT ![call[k].gen] = Append(@, k)]
          /\ Step(k, "wait")
     ELSE commands' = commands /\ Step(k, "withdraw")
  /\ UNCHANGED <<connection, made, pending, writer, messages, worker, ack, loop,
                 closer, shutdown, executed>>

Receive(k) ==
  /\ call[k].pc = "wait" /\ ack[k] # "none"
  /\ Finish(k, ack[k])
  /\ UNCHANGED <<connection, made, pipes, ack, loop, closer, shutdown, executed>>

(* 15 seconds without an acknowledgement. *)
Timeout(k) ==
  /\ call[k].pc = "wait" /\ ack[k] = "none"
  /\ Step(k, "expire")
  /\ UNCHANGED <<connection, made, pipes, ack, loop, closer, shutdown, executed>>

(* The handler of an HTTP request that sends the command is dropped with   *)
(* its connection, wherever it waits: for a lock or for the answer.  What  *)
(* is in pending_acks stays there.  (Between the entry and the send there  *)
(* is nothing to wait for; WebSocket and job tasks are not dropped.)       *)
Drop(k) ==
  /\ call[k].pc \in {"insert", "wait", "withdraw", "expire"}
  /\ Finish(k, "dropped")
  /\ UNCHANGED <<connection, made, pipes, ack, loop, closer, shutdown, executed>>

(* Mutant of Remove: the entry stays in pending_acks. *)
Remove_Forgotten(k) ==
  /\ \/ call[k].pc = "withdraw" /\ Finish(k, "unsent")
     \/ call[k].pc = "expire" /\ Finish(k, "timeout")
  /\ UNCHANGED <<connection, made, pipes, ack, loop, closer, shutdown, executed>>

Remove(k) ==
  /\ \/ call[k].pc = "withdraw" /\ Finish(k, "unsent")
     \/ call[k].pc = "expire" /\ Finish(k, "timeout")
  /\ pending' = [pending EXCEPT ![call[k].gen] = @ \ {k}]
  /\ UNCHANGED <<connection, made, commands, writer, messages, worker, ack, loop,
                 closer, shutdown, executed>>

----------------------------------------------------------------------------
(* The worker process and the pipes *)

(* A command is read, passed to the provider and acknowledged. *)
Execute(g) ==
  /\ worker[g] = "running" /\ commands[g] # <<>> /\ Head(commands[g]) # CloseCommand
  /\ LET k == Head(commands[g]) IN \E ok \in BOOLEAN :
       /\ messages' = [messages EXCEPT ![g] = Append(@, Ack(k, ok))]
       /\ executed' = IF ok THEN executed \cup {<<g, k>>} ELSE executed
  /\ commands' = [commands EXCEPT ![g] = Tail(@)]
  /\ UNCHANGED <<connection, made, pending, writer, worker, call, ack, loop,
                 closer, shutdown>>

(* The process ends: on a Close command, when stdin ends because nobody    *)
(* holds the connection any more, or because it dies.  What it had not     *)
(* written yet is lost.                                                    *)
Exit(g) ==
  /\ worker' = [worker EXCEPT ![g] = "exited"]
  /\ \E n \in 0..Len(messages[g]) :
       messages' = [messages EXCEPT ![g] = SubSeq(@, 1, n)]

WorkerCloses(g) ==
  /\ worker[g] = "running"
  /\ \/ commands[g] # <<>> /\ Head(commands[g]) = CloseCommand
     \/ commands[g] = <<>> /\ Holders(g) = {}
  /\ Exit(g)
  /\ UNCHANGED <<connection, made, pending, commands, writer, call, ack, loop,
                 closer, shutdown, executed>>

WorkerDies(g) ==
  /\ worker[g] = "running"
  /\ Exit(g)
  /\ UNCHANGED <<connection, made, pending, commands, writer, call, ack, loop,
                 closer, shutdown, executed>>

(* Audio, text or a transcript of the provider; or a RuntimeError, after   *)
(* which the process goes on.                                              *)
WorkerEvent(g) ==
  /\ worker[g] = "running" /\ Len(messages[g]) < MaxEvents
  /\ \E kind \in {"output", "error"} :
       messages' = [messages EXCEPT ![g] = Append(@, Event(kind))]
  /\ UNCHANGED <<connection, made, pending, commands, writer, worker, call, ack,
                 loop, closer, shutdown, executed>>

(* Writing to a process that has exited fails and ends the writer task.    *)
WriterFails(g) ==
  /\ worker[g] = "exited" /\ commands[g] # <<>> /\ writer[g]
  /\ writer' = [writer EXCEPT ![g] = FALSE]
  /\ commands' = [commands EXCEPT ![g] = <<>>]
  /\ UNCHANGED <<connection, made, pending, messages, worker, call, ack, loop,
                 closer, shutdown, executed>>

----------------------------------------------------------------------------
(* The runtime task: connect, run, and again unless the session shuts down.*)

(* The container has the name of the session: docker refuses to run a      *)
(* second one as long as the first one runs.                               *)
Connect ==
  /\ loop.pc = "connect" /\ connection = 0 /\ made < MaxConnections
  /\ made' = made + 1
  /\ connection' = made + 1
  /\ worker' = [worker EXCEPT ![made + 1] =
       IF \E g \in Connections : worker[g] = "running" THEN "exited" ELSE "running"]
  /\ loop' = [loop EXCEPT !.pc = "run"]
  /\ UNCHANGED <<pending, commands, writer, messages, call, ack, closer, shutdown,
                 executed>>

(* run() clones the connection and takes its stdout. *)
Run ==
  /\ loop.pc = "run"
  /\ loop' = IF connection = 0 THEN [loop EXCEPT !.pc = "ended"]
             ELSE [pc |-> "read", gen |-> connection]
  /\ UNCHANGED <<connection, made, pipes, call, ack, closer, shutdown, executed>>

(* Mutant of ReadAck: the entry of the acknowledged command is found, but  *)
(* the answer is taken for a success.                                      *)
ReadAck_AlwaysOk ==
  /\ loop.pc = "read" /\ messages[loop.gen] # <<>>
  /\ LET m == Head(messages[loop.gen]) IN
       /\ m.kind = "ack"
       /\ ack' = IF m.id \in pending[loop.gen] THEN [ack EXCEPT ![m.id] = "ok"]
                 ELSE ack
       /\ pending' = [pending EXCEPT ![loop.gen] = @ \ {m.id}]
  /\ messages' = [messages EXCEPT ![loop.gen] = Tail(@)]
  /\ UNCHANGED <<connection, made, commands, writer, worker, call, loop, closer,
                 shutdown, executed>>

(* Mutant of ReadAck: the entry is dropped without an answer. *)
ReadAck_Lost ==
  /\ loop.pc = "read" /\ messages[loop.gen] # <<>>
  /\ LET m == Head(messages[loop.gen]) IN
       /\ m.kind = "ack"
       /\ ack' = ack
       /\ pending' = [pending EXCEPT ![loop.gen] = @ \ {m.id}]
  /\ messages' = [messages EXCEPT ![loop.gen] = Tail(@)]
  /\ UNCHANGED <<connection, made, commands, writer, worker, call, loop, closer,
                 shutdown, executed>>

ReadAck ==
  /\ loop.pc = "read" /\ messages[loop.gen] # <<>>
  /\ LET m == Head(messages[loop.gen]) IN
       /\ m.kind = "ack"
       /\ ack' = IF m.id \in pending[loop.gen]
                 THEN [ack EXCEPT ![m.id] = IF m.ok THEN "ok" ELSE "failed"]
                 ELSE ack
       /\ pending' = [pending EXCEPT ![loop.gen] = @ \ {m.id}]
  /\ messages' = [messages EXCEPT ![loop.gen] = Tail(@)]
  /\ UNCHANGED <<connection, made, commands, writer, worker, call, loop, closer,
                 shutdown, executed>>

(* An output goes to the event handler, whose failure ends run(), as an    *)
(* error of the worker and the end of its output do.                       *)
ReadEvent ==
  /\ loop.pc = "read" /\ messages[loop.gen] # <<>>
  /\ LET m == Head(messages[loop.gen]) IN
       /\ m.kind # "ack"
       /\ \/ m.kind = "output" /\ loop' = loop
          \/ loop' = [loop EXCEPT !.pc = "clear"]
  /\ messages' = [messages EXCEPT ![loop.gen] = Tail(@)]
  /\ UNCHANGED <<connection, made, pending, commands, writer, worker, call, ack,
                 closer, shutdown, executed>>

ReadEnd ==
  /\ loop.pc = "read" /\ messages[loop.gen] = <<>> /\ worker[loop.gen] = "exited"
  /\ loop' = [loop EXCEPT !.pc = "clear"]
  /\ UNCHANGED <<connection, made, pipes, call, ack, closer, shutdown, executed>>

ClearConnection ==
  /\ loop.pc = "clear"
  /\ connection' = 0
  /\ loop' = [loop EXCEPT !.pc = "fail"]
  /\ UNCHANGED <<made, pipes, call, ack, closer, shutdown, executed>>

(* What a drain of pending_acks does to the commands that wait. *)
Drain(g) ==
  /\ ack' = [k \in Commands |-> IF k \in pending[g] THEN "failed" ELSE ack[k]]
  /\ pending' = [pending EXCEPT ![g] = {}]

(* fail_pending_acks looks for the connection that was just cleared: it    *)
(* finds none, and the commands in flight are left to their timeout.       *)
FailPending ==
  /\ loop.pc = "fail"
  /\ IF connection = 0 THEN UNCHANGED <<ack, pending>> ELSE Drain(connection)
  /\ loop' = [pc |-> "ended", gen |-> 0]
  /\ UNCHANGED <<connection, made, commands, writer, messages, worker, call, closer,
                 shutdown, executed>>

Again ==
  /\ loop.pc = "ended"
  /\ loop' = [loop EXCEPT !.pc = IF shutdown THEN "stopped" ELSE "connect"]
  /\ UNCHANGED <<connection, made, pipes, call, ack, closer, shutdown, executed>>

----------------------------------------------------------------------------
(* terminate_session: shutdown, close(), abort of the runtime task         *)

Terminate ==
  /\ closer.pc = "idle"
  /\ shutdown' = TRUE
  /\ closer' = [closer EXCEPT !.pc = "take"]
  /\ UNCHANGED <<connection, made, pipes, call, ack, loop, executed>>

CloseTake ==
  /\ closer.pc = "take"
  /\ closer' = IF connection = 0 THEN [pc |-> "abort", gen |-> 0]
               ELSE [pc |-> "kill", gen |-> connection]
  /\ commands' = IF connection # 0 /\ writer[connection]
                 THEN [commands EXCEPT ![connection] = Append(@, CloseCommand)]
                 ELSE commands
  /\ connection' = 0
  /\ UNCHANGED <<made, pending, writer, messages, worker, call, ack, loop, shutdown,
                 executed>>

(* 50 milliseconds later. *)
CloseKill ==
  /\ closer.pc = "kill"
  /\ IF worker[closer.gen] = "running" THEN Exit(closer.gen)
     ELSE UNCHANGED <<worker, messages>>
  /\ closer' = [closer EXCEPT !.pc = "drain"]
  /\ UNCHANGED <<connection, made, pending, commands, writer, call, ack, loop,
                 shutdown, executed>>

CloseDrain ==
  /\ closer.pc = "drain"
  /\ Drain(closer.gen)
  /\ closer' = [pc |-> "abort", gen |-> 0]
  /\ UNCHANGED <<connection, made, commands, writer, messages, worker, call, loop,
                 shutdown, executed>>

(* Mutant of Abort: the runtime task is left to see shutdown for itself. *)
Abort_Missing ==
  /\ \/ closer.pc = "abort" /\ closer' = [closer EXCEPT !.pc = "drop"]
     \/ /\ closer.pc = "drop" /\ \A k \in Commands : ~InProgress(k)
        /\ closer' = [closer EXCEPT !.pc = "done"]
  /\ connection' = IF closer.pc = "drop" THEN 0 ELSE connection
  /\ UNCHANGED <<made, pipes, call, ack, loop, shutdown, executed>>

(* The task is aborted wherever it waits, and the session goes with its    *)
(* bridge once no command uses it.                                         *)
Abort ==
  /\ \/ closer.pc = "abort" /\ closer' = [closer EXCEPT !.pc = "drop"]
     \/ /\ closer.pc = "drop" /\ \A k \in Commands : ~InProgress(k)
        /\ closer' = [closer EXCEPT !.pc = "done"]
  /\ loop' = [pc |-> "stopped", gen |-> 0]
  /\ connection' = IF closer.pc = "drop" THEN 0 ELSE connection
  /\ UNCHANGED <<made, pipes, call, ack, shutdown, executed>>

----------------------------------------------------------------------------

CallStep(k) ==
  \/ closer.pc # "done" /\ Clone(k)
  \/ Insert(k) \/ Send(k) \/ Receive(k) \/ Timeout(k) \/ Remove(k) \/ Drop(k)

WorkerStep(g) == Execute(g) \/ WorkerCloses(g) \/ WriterFails(g)

LoopStep ==
  \/ Connect \/ Run \/ ReadAck \/ ReadEvent \/ ReadEnd \/ ClearConnection
  \/ FailPending \/ Again

CloseStep == CloseTake \/ CloseKill \/ CloseDrain \/ Abort

Next ==
  \/ \E k \in Commands : CallStep(k)
  \/ \E g \in Connections : WorkerStep(g) \/ WorkerDies(g) \/ WorkerEvent(g)
  \/ LoopStep
  \/ Terminate \/ CloseStep

Spec == Init /\ [][Next]_vars

(* Tasks that are ready are polled, the clock goes on, and a worker reads  *)
(* its stdin.  A worker need not acknowledge, fail or say anything else,   *)
(* and nobody has to call or to terminate.                                 *)
Fairness ==
  /\ \A k \in Commands :
       WF_vars(Insert(k) \/ Send(k) \/ Receive(k) \/ Timeout(k) \/ Remove(k))
  /\ \A g \in Connections : WF_vars(WorkerStep(g))
  /\ WF_vars(LoopStep)
  /\ WF_vars(CloseStep)

FairSpec == Spec /\ Fairness

----------------------------------------------------------------------------
(* Properties *)

(* The bridge has the newest connection or none, and none when the task    *)
(* connects: the early return of connect() is never taken (main.rs:386).   *)
TypeOK ==
  /\ connection \in {0, made}
  /\ loop.pc \in {"connect", "fail", "ended"} => connection = 0
  /\ made \in 0..MaxConnections
  /\ pending \in [Connections -> SUBSET Commands]
  /\ commands \in [Connections -> Seq(Commands \cup {CloseCommand})]
  /\ writer \in [Connections -> BOOLEAN]
  /\ messages \in [Connections ->
       Seq([kind : {"ack"}, id : Commands, ok : BOOLEAN]
             \cup {Event("output"), Event("error")})]
  /\ worker \in [Connections -> {"none", "running", "exited"}]
  /\ call \in [Commands ->
       [pc : {"idle", "insert", "send", "wait", "withdraw", "expire", "done"},
        gen : 0..MaxConnections, result : Results \cup {"none"}]]
  /\ ack \in [Commands -> {"none", "ok", "failed"}]
  /\ loop \in [pc : {"connect", "run", "read", "clear", "fail", "ended", "stopped"},
               gen : 0..MaxConnections]
  /\ closer \in [pc : {"idle", "take", "kill", "drain", "abort", "drop", "done"},
                 gen : 0..MaxConnections]
  /\ shutdown \in BOOLEAN
  /\ executed \subseteq Connections \X Commands

(* A caller that is told Ok was told so by the worker of the connection it *)
(* sent its command to, after that worker carried it out: no answer goes   *)
(* to another command or comes from another connection.                    *)
OkMeansExecuted ==
  \A k \in Commands : call[k].result = "ok" => <<call[k].gen, k>> \in executed

(* A command or its acknowledgement is on its way, or was lost with the    *)
(* worker.                                                                 *)
OnItsWay(g, k) ==
  \/ \E i \in 1..Len(commands[g]) : commands[g][i] = k
  \/ \E i \in 1..Len(messages[g]) :
       messages[g][i].kind = "ack" /\ messages[g][i].id = k
  \/ worker[g] = "exited"

(* pending_acks holds an entry for no command whose caller has returned,   *)
(* whatever timeouts, failures, closes and late acknowledgements overlap.  *)
(* The entry of a caller that was dropped stays behind, and only until its *)
(* acknowledgement is read or its worker is gone: as long as the worker    *)
(* answers, the map does not grow.                                         *)
PendingIsAccounted ==
  \A g \in Connections : \A k \in pending[g] :
    /\ call[k].gen = g
    /\ \/ call[k].pc \in {"send", "wait", "withdraw", "expire"}
       \/ call[k].result = "dropped" /\ OnItsWay(g, k)

(* A command that waits has an entry or an answer: nothing takes an entry  *)
(* out without answering it.                                               *)
WaitingIsAnswerable ==
  \A k \in Commands :
    call[k].pc = "wait" => k \in pending[call[k].gen] \/ ack[k] # "none"

(* A command that failed before it was sent has not been carried out; only *)
(* a timeout leaves the caller in the dark.                                *)
UnsentNotExecuted ==
  \A k \in Commands, g \in Connections :
    call[k].result = "unsent" => <<g, k>> \notin executed

(* Every command returns, although fail_pending_acks answers nobody.       *)
EveryCommandReturns == \A k \in Commands : InProgress(k) ~> call[k].pc = "done"

(* A worker whose connection was given up ends: nobody keeps its stdin     *)
(* open for ever, and the name of its container becomes free.              *)
GivenUpWorkersExit ==
  \A g \in Connections :
    (worker[g] = "running" /\ connection # g /\ loop.gen # g) ~> worker[g] = "exited"

(* Termination ends the runtime task and every worker of the session, also *)
(* one it was connecting to.                                               *)
TerminationEndsWorkers ==
  closer.pc # "idle" ~>
    (loop.pc = "stopped" /\ \A g \in Connections : worker[g] # "running")
=============================================================================
