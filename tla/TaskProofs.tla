----------------------------- MODULE TaskProofs -----------------------------
(***************************************************************************)
(* What the parts of MCTasks promise, for any number of commands, jobs,    *)
(* sessions and events.  A behaviour of MCTasks is one of each of its      *)
(* parts (PartsRun), so each part is proved by an invariant of its own.    *)
(***************************************************************************)
EXTENDS MCTasks, FiniteSetTheorems, FunctionTheorems, TLAPS

(* What is in a queue. *)
Elems(s) == {s[i] : i \in 1..Len(s)}

(* What an append adds. *)
LEMMA AppendElems ==
  ASSUME NEW S, NEW s \in Seq(S), NEW e \in S
  PROVE  Append(s, e) \in Seq(S) /\ Elems(Append(s, e)) = Elems(s) \cup {e}
<1>1. /\ Append(s, e) \in Seq(S)
      /\ Len(Append(s, e)) = Len(s) + 1
      /\ \A i \in 1..Len(s) : Append(s, e)[i] = s[i]
      /\ Append(s, e)[Len(s) + 1] = e
      /\ Len(s) \in Nat
  OBVIOUS
<1> QED
  BY <1>1 DEF Elems

(* What is left without the head. *)
LEMMA TailElems ==
  ASSUME NEW S, NEW s \in Seq(S), s # <<>>
  PROVE  /\ Tail(s) \in Seq(S) /\ Elems(Tail(s)) \subseteq Elems(s)
         /\ Head(s) \in Elems(s) /\ Head(s) \in S
<1>1. /\ Tail(s) \in Seq(S)
      /\ Len(Tail(s)) = Len(s) - 1
      /\ \A i \in 1..Len(Tail(s)) : Tail(s)[i] = s[i + 1]
      /\ Head(s) = s[1] /\ Len(s) \in Nat /\ Len(s) >= 1
  OBVIOUS
<1> QED
  BY <1>1 DEF Elems

(* What the head and the rest make up. *)
LEMMA TailSplits ==
  ASSUME NEW S, NEW s \in Seq(S), s # <<>>
  PROVE  Elems(s) = Elems(Tail(s)) \cup {Head(s)}
<1>1. /\ Len(Tail(s)) = Len(s) - 1
      /\ \A i \in 1..Len(Tail(s)) : Tail(s)[i] = s[i + 1]
      /\ Head(s) = s[1] /\ Len(s) \in Nat /\ Len(s) >= 1
  OBVIOUS
<1>2. ASSUME NEW i \in 1..Len(s) PROVE s[i] \in Elems(Tail(s)) \cup {Head(s)}
  <2>1. CASE i = 1
    BY <2>1, <1>1
  <2>2. CASE i # 1
    <3>1. i - 1 \in 1..Len(Tail(s)) /\ Tail(s)[i - 1] = s[i]
      BY <2>2, <1>1
    <3> QED
      BY <3>1 DEF Elems
  <2> QED
    BY <2>1, <2>2
<1> QED
  BY <1>2, TailElems DEF Elems

(* What is left of a queue whose end is lost. *)
LEMMA PrefixElems ==
  ASSUME NEW S, NEW s \in Seq(S), NEW n \in 0..Len(s)
  PROVE  SubSeq(s, 1, n) \in Seq(S) /\ Elems(SubSeq(s, 1, n)) \subseteq Elems(s)
<1>1. /\ SubSeq(s, 1, n) \in Seq(S)
      /\ Len(SubSeq(s, 1, n)) = n
      /\ \A i \in 1..n : SubSeq(s, 1, n)[i] = s[i]
  OBVIOUS
<1> QED
  BY <1>1 DEF Elems

----------------------------------------------------------------------------
(* The inductive invariant.  An answer is backed by the worker at every    *)
(* stage of its way: as a message in the pipe, in the oneshot and as the   *)
(* result; and between the stages it is the entry in pending_acks that     *)
(* ties a command to its connection.                                       *)

Messages ==
  [kind : {"ack"}, id : Commands, ok : BOOLEAN] \cup {Event("output"), Event("error")}

CommandsType == commands \in [Connections -> Seq(Commands \cup {CloseCommand})]

MessagesType == messages \in [Connections -> Seq(Messages)]

PipesType ==
  /\ pending \in [Connections -> SUBSET Commands]
  /\ writer \in [Connections -> BOOLEAN]
  /\ worker \in [Connections -> {"none", "running", "exited"}]
  /\ executed \subseteq Connections \X Commands

CallsType ==
  /\ call \in [Commands ->
       [pc : {"idle", "insert", "send", "wait", "withdraw", "expire", "done"},
        gen : 0..MaxConnections, result : Results \cup {"none"}]]
  /\ ack \in [Commands -> {"none", "ok", "failed"}]
  /\ \A k \in Commands :
       /\ InProgress(k) => call[k].gen \in Connections
       /\ call[k].pc # "done" => call[k].result = "none"

TasksType ==
  /\ made \in 0..MaxConnections
  /\ connection \in {0, made}
  /\ loop \in [pc : {"connect", "run", "read", "clear", "fail", "ended", "stopped"},
               gen : 0..MaxConnections]
  /\ loop.pc \in {"connect", "fail", "ended"} => connection = 0
  /\ loop.pc = "read" => loop.gen \in Connections
  /\ closer \in [pc : {"idle", "take", "kill", "drain", "abort", "drop", "done"},
                 gen : 0..MaxConnections]
  /\ closer.pc \in {"kill", "drain"} => closer.gen \in Connections
  /\ shutdown \in BOOLEAN

Types == CommandsType /\ MessagesType /\ PipesType /\ CallsType /\ TasksType

AcksBacked ==
  \A g \in Connections : \A m \in Elems(messages[g]) :
    m.kind = "ack" /\ m.ok => <<g, m.id>> \in executed

AnswersBacked ==
  \A k \in Commands :
    /\ ack[k] = "ok" => <<call[k].gen, k>> \in executed
    /\ call[k].pc \in {"idle", "insert"} => ack[k] = "none"

EntriesOwned ==
  \A g \in Connections : \A k \in pending[g] :
    /\ call[k].gen = g
    /\ \/ call[k].pc \in {"send", "wait", "withdraw", "expire"}
       \/ call[k].pc = "done" /\ call[k].result = "dropped"

Acknowledged(g, k) == \E m \in Elems(messages[g]) : m.kind = "ack" /\ m.id = k

OnWay(g, k) ==
  k \in Elems(commands[g]) \/ Acknowledged(g, k) \/ worker[g] = "exited"

EntriesOnWay ==
  \A g \in Connections :
    /\ \A k \in pending[g] : call[k].pc # "send" => OnWay(g, k)
    /\ ~writer[g] => worker[g] = "exited"
    /\ g > made => worker[g] = "none"

Answerable ==
  \A k \in Commands :
    call[k].pc \in {"send", "wait"} => k \in pending[call[k].gen] \/ ack[k] # "none"

Sent(k) ==
  \/ call[k].pc \in {"wait", "expire"}
  \/ call[k].pc = "done" /\ call[k].result # "unsent"

OnlySent ==
  \A g \in Connections :
    \A k \in Commands :
      (k \in Elems(commands[g]) \/ <<g, k>> \in executed) => Sent(k)

IInv ==
  /\ Types /\ AcksBacked /\ AnswersBacked /\ OkMeansExecuted /\ EntriesOwned
  /\ EntriesOnWay /\ Answerable /\ OnlySent
----------------------------------------------------------------------------
(* What is in the pipe to a worker is a command. *)
LEMMA CommandsTyped ==
  ASSUME Types, [Next]_vars
  PROVE  CommandsType'
<1>1. ASSUME NEW k \in Commands, Send(k) PROVE CommandsType'
  <2>1. call[k].gen \in Connections
    BY <1>1, Zenon DEF Send, Types, CallsType, InProgress
  <2>2. commands[call[k].gen] \in Seq(Commands \cup {CloseCommand})
    BY <2>1 DEF Types, CommandsType
  <2>3. Append(commands[call[k].gen], k) \in Seq(Commands \cup {CloseCommand})
    BY <2>2, AppendElems
  <2> QED
    BY <1>1, <2>3 DEF Send, Types, CommandsType
<1>2. ASSUME NEW g \in Connections, Execute(g) PROVE CommandsType'
  BY <1>2, TailElems DEF Execute, Types, CommandsType
<1>3. ASSUME NEW g \in Connections, WriterFails(g) PROVE CommandsType'
  BY <1>3 DEF WriterFails, Types, CommandsType
<1>4. CASE CloseTake
  BY <1>4, AppendElems DEF CloseTake, Types, CommandsType
<1>5. CASE UNCHANGED commands
  BY <1>5 DEF Types, CommandsType
<1> QED
  BY <1>1, <1>2, <1>3, <1>4, <1>5
  DEF Next, CallStep, Drop, WorkerStep, LoopStep, CloseStep, vars, pipes, Clone,
      Insert, Receive, Timeout, Remove, WorkerCloses, WorkerDies,
      WorkerEvent, Connect, Run, ReadAck, ReadEvent, ReadEnd,
      ClearConnection, FailPending, Again, Terminate, CloseKill,
      CloseDrain, Abort

(* What is in the pipe from a worker is a message. *)
LEMMA MessagesTyped ==
  ASSUME Types, [Next]_vars
  PROVE  MessagesType'
<1>1. ASSUME NEW g \in Connections, Execute(g) PROVE MessagesType'
  <2>1. PICK ok \in BOOLEAN :
          messages' = [messages EXCEPT ![g] = Append(@, Ack(Head(commands[g]), ok))]
    BY <1>1 DEF Execute
  <2>2. Head(commands[g]) \in Commands
    BY <1>1, TailElems DEF Execute, Types, CommandsType
  <2>3. Ack(Head(commands[g]), ok) \in Messages
    BY <2>2 DEF Ack, Messages
  <2> QED
    BY <2>1, <2>3, AppendElems DEF Types, MessagesType
<1>2. ASSUME NEW g \in Connections, WorkerCloses(g) PROVE MessagesType'
  BY <1>2, PrefixElems DEF WorkerCloses, Exit, Types, MessagesType
<1>3. ASSUME NEW g \in Connections, WorkerDies(g) PROVE MessagesType'
  BY <1>3, PrefixElems DEF WorkerDies, Exit, Types, MessagesType
<1>4. ASSUME NEW g \in Connections, WorkerEvent(g) PROVE MessagesType'
  BY <1>4, AppendElems DEF WorkerEvent, Types, MessagesType, Messages
<1>5. CASE ReadAck
  BY <1>5, TailElems DEF ReadAck, Types, MessagesType
<1>6. CASE ReadEvent
  BY <1>6, TailElems DEF ReadEvent, Types, MessagesType
<1>7. CASE CloseKill
  <2>1. CASE UNCHANGED messages
    BY <2>1 DEF Types, MessagesType
  <2>2. CASE Exit(closer.gen)
    BY <1>7, <2>2, PrefixElems DEF CloseKill, Exit, Types, MessagesType, TasksType
  <2> QED
    BY <1>7, <2>1, <2>2 DEF CloseKill
<1>8. CASE UNCHANGED messages
  BY <1>8 DEF Types, MessagesType
<1> QED
  BY <1>1, <1>2, <1>3, <1>4, <1>5, <1>6, <1>7, <1>8
  DEF Next, CallStep, Drop, WorkerStep, LoopStep, CloseStep, vars, pipes, Clone,
      Insert, Send, Receive, Timeout, Remove, WriterFails, Connect, Run,
      ReadEnd, ClearConnection, FailPending, Again, Terminate, CloseTake,
      CloseDrain, Abort

(* The rest of the pipes keeps its type. *)
LEMMA PipesTyped ==
  ASSUME Types, [Next]_vars
  PROVE  PipesType'
<1>1. ASSUME NEW k \in Commands, Insert(k) PROVE PipesType'
  BY <1>1 DEF Insert, Exit, Drain, Types, PipesType
<1>2. ASSUME NEW k \in Commands, Remove(k) PROVE PipesType'
  BY <1>2 DEF Remove, Exit, Drain, Types, PipesType
<1>3. ASSUME NEW g \in Connections, Execute(g) PROVE PipesType'
  <2>1. Head(commands[g]) \in Commands
    BY <1>3, TailElems DEF Execute, Types, CommandsType
  <2> QED
    BY <1>3, <2>1 DEF Execute, Types, PipesType
<1>4. ASSUME NEW g \in Connections, WorkerCloses(g) PROVE PipesType'
  BY <1>4 DEF WorkerCloses, Exit, Drain, Types, PipesType
<1>5. ASSUME NEW g \in Connections, WorkerDies(g) PROVE PipesType'
  BY <1>5 DEF WorkerDies, Exit, Drain, Types, PipesType
<1>6. ASSUME NEW g \in Connections, WriterFails(g) PROVE PipesType'
  BY <1>6 DEF WriterFails, Exit, Drain, Types, PipesType
<1>7. CASE Connect
  BY <1>7, BridgeAssumption DEF Connect, Types, PipesType, TasksType
<1>8. CASE ReadAck
  BY <1>8 DEF ReadAck, Exit, Drain, Types, PipesType
<1>9. CASE FailPending
  BY <1>9 DEF FailPending, Drain, Types, PipesType
<1>10. CASE CloseKill
  BY <1>10 DEF CloseKill, Exit, Drain, Types, PipesType
<1>11. CASE CloseDrain
  BY <1>11 DEF CloseDrain, Exit, Drain, Types, PipesType
<1>12. CASE UNCHANGED <<pending, writer, worker, executed>>
  BY <1>12 DEF Types, PipesType
<1> QED
  BY <1>1, <1>2, <1>3, <1>4, <1>5, <1>6, <1>7, <1>8, <1>9, <1>10, <1>11,
     <1>12
  DEF Next, CallStep, Drop, WorkerStep, LoopStep, CloseStep, vars, pipes, Clone,
      Send, Receive, Timeout, WorkerEvent, Run, ReadEvent, ReadEnd,
      ClearConnection, Again, Terminate, CloseTake, Abort

(* A command in progress has a connection and no result yet. *)
LEMMA CallsTyped ==
  ASSUME Types, [Next]_vars
  PROVE  CallsType'
<1> USE BridgeAssumption
<1>1. ASSUME NEW k \in Commands, Clone(k) PROVE CallsType'
  BY <1>1 DEF Clone, Finish, Types, CallsType, TasksType, InProgress, Connections, Results
<1>2. ASSUME NEW k \in Commands, Insert(k) PROVE CallsType'
  BY <1>2 DEF Insert, Step, Finish, Types, CallsType, InProgress, Results
<1>3. ASSUME NEW k \in Commands, Send(k) PROVE CallsType'
  <2>1. CASE call' = [call EXCEPT ![k].pc = "wait"]
    BY <1>3, <2>1 DEF Send, Types, CallsType, InProgress
  <2>2. CASE call' = [call EXCEPT ![k].pc = "withdraw"]
    BY <1>3, <2>2 DEF Send, Types, CallsType, InProgress
  <2> QED
    BY <1>3, <2>1, <2>2 DEF Send, Step
<1>4. ASSUME NEW k \in Commands, Receive(k) PROVE CallsType'
  BY <1>4 DEF Receive, Step, Finish, Types, CallsType, InProgress, Results
<1>5. ASSUME NEW k \in Commands, Timeout(k) PROVE CallsType'
  BY <1>5 DEF Timeout, Step, Finish, Types, CallsType, InProgress, Results
<1>6. ASSUME NEW k \in Commands, Remove(k) PROVE CallsType'
  BY <1>6 DEF Remove, Step, Finish, Types, CallsType, InProgress, Results
<1>20. ASSUME NEW k \in Commands, Drop(k) PROVE CallsType'
  BY <1>20 DEF Drop, Finish, Types, CallsType, InProgress, Results, pipes
<1>7. CASE ReadAck
  BY <1>7 DEF ReadAck, Types, CallsType, InProgress
<1>8. CASE FailPending
  BY <1>8 DEF FailPending, Drain, Types, CallsType, InProgress
<1>9. CASE CloseDrain
  BY <1>9 DEF CloseDrain, Drain, Types, CallsType, InProgress
<1>10. CASE UNCHANGED <<call, ack>>
  BY <1>10 DEF Types, CallsType, InProgress
<1> QED
  BY <1>1, <1>2, <1>3, <1>4, <1>5, <1>6, <1>20, <1>7, <1>8, <1>9, <1>10
  DEF Next, CallStep, WorkerStep, LoopStep, CloseStep, vars, pipes,
      Execute, WorkerCloses, WorkerDies, WorkerEvent, WriterFails,
      Connect, Run, ReadEvent, ReadEnd, ClearConnection, Again, Terminate,
      CloseTake, CloseKill, Abort

(* The runtime task and the closer hold real connections. *)
LEMMA TasksTyped ==
  ASSUME Types, [Next]_vars
  PROVE  TasksType'
<1> USE BridgeAssumption DEF Types, TasksType, Connections
<1>1. CASE Connect
  BY <1>1 DEF Connect
<1>2. CASE Run
  BY <1>2 DEF Run
<1>3. CASE ReadEvent
  BY <1>3 DEF ReadEvent
<1>4. CASE ReadEnd
  BY <1>4 DEF ReadEnd
<1>5. CASE ClearConnection
  BY <1>5 DEF ClearConnection
<1>6. CASE FailPending
  BY <1>6 DEF FailPending
<1>7. CASE Again
  BY <1>7 DEF Again
<1>8. CASE Terminate
  BY <1>8 DEF Terminate
<1>9. CASE CloseTake
  BY <1>9 DEF CloseTake
<1>10. CASE CloseKill
  BY <1>10 DEF CloseKill
<1>11. CASE CloseDrain
  BY <1>11 DEF CloseDrain
<1>12. CASE Abort
  BY <1>12 DEF Abort
<1>13. CASE UNCHANGED <<made, connection, loop, closer, shutdown>>
  BY <1>13 DEF Types
<1> QED
  BY <1>1, <1>2, <1>3, <1>4, <1>5, <1>6, <1>7, <1>8, <1>9, <1>10, <1>11,
     <1>12, <1>13
  DEF Next, CallStep, Drop, WorkerStep, LoopStep, CloseStep, vars, pipes, Clone,
      Insert, Send, Receive, Timeout, Remove, Execute, WorkerCloses,
      WorkerDies, WorkerEvent, WriterFails, ReadAck

(* Types are preserved by every step. *)
LEMMA TypesNext ==
  ASSUME Types, [Next]_vars
  PROVE  Types'
BY CommandsTyped, MessagesTyped, PipesTyped, CallsTyped, TasksTyped DEF Types

(* An acknowledgement in the pipe stays backed by its worker. *)
LEMMA AcksBackedNext ==
  ASSUME Types, AcksBacked, [Next]_vars
  PROVE  AcksBacked'
<1>1. ASSUME NEW g \in Connections, Execute(g) PROVE AcksBacked'
  <2>1. PICK ok \in BOOLEAN :
          /\ messages' = [messages EXCEPT ![g] = Append(@, Ack(Head(commands[g]), ok))]
          /\ executed' = IF ok THEN executed \cup {<<g, Head(commands[g])>>} ELSE executed
    BY <1>1 DEF Execute
  <2>2. Ack(Head(commands[g]), ok) \in Messages
    BY <1>1, TailElems DEF Execute, Types, CommandsType, Ack, Messages
  <2>3. Elems(messages'[g]) = Elems(messages[g]) \cup {Ack(Head(commands[g]), ok)}
    BY <2>1, <2>2, AppendElems DEF Types, MessagesType
  <2> QED
    BY <2>1, <2>3 DEF AcksBacked, Ack, Types, MessagesType
<1>2. ASSUME NEW g \in Connections, WorkerCloses(g) PROVE AcksBacked'
  BY <1>2, PrefixElems DEF WorkerCloses, Exit, Types, MessagesType, AcksBacked
<1>3. ASSUME NEW g \in Connections, WorkerDies(g) PROVE AcksBacked'
  BY <1>3, PrefixElems DEF WorkerDies, Exit, Types, MessagesType, AcksBacked
<1>4. ASSUME NEW g \in Connections, WorkerEvent(g) PROVE AcksBacked'
  <2>1. PICK kind \in {"output", "error"} :
          messages' = [messages EXCEPT ![g] = Append(@, Event(kind))]
    BY <1>4 DEF WorkerEvent
  <2>2. Event(kind) \in Messages
    BY DEF Messages
  <2>3. Elems(messages'[g]) = Elems(messages[g]) \cup {Event(kind)}
    BY <2>1, <2>2, AppendElems DEF Types, MessagesType
  <2> QED
    BY <1>4, <2>1, <2>3 DEF WorkerEvent, AcksBacked, Event, Types, MessagesType
<1>5. CASE ReadAck
  BY <1>5, TailElems DEF ReadAck, Types, MessagesType, AcksBacked
<1>6. CASE ReadEvent
  BY <1>6, TailElems DEF ReadEvent, Types, MessagesType, AcksBacked
<1>7. CASE CloseKill
  <2>1. CASE UNCHANGED messages
    BY <1>7, <2>1 DEF CloseKill, AcksBacked
  <2>2. CASE Exit(closer.gen)
    BY <1>7, <2>2, PrefixElems
       DEF CloseKill, Exit, Types, MessagesType, TasksType, AcksBacked
  <2> QED
    BY <1>7, <2>1, <2>2 DEF CloseKill
<1>8. CASE UNCHANGED <<messages, executed>>
  BY <1>8 DEF AcksBacked
<1> QED
  BY <1>1, <1>2, <1>3, <1>4, <1>5, <1>6, <1>7, <1>8
  DEF Next, CallStep, Drop, WorkerStep, LoopStep, CloseStep, vars, pipes, Clone,
      Insert, Send, Receive, Timeout, Remove, WriterFails, Connect, Run,
      ReadEnd, ClearConnection, FailPending, Again, Terminate, CloseTake,
      CloseDrain, Abort

(* An answer in a oneshot stays backed by the worker of its command. *)
LEMMA AnswersBackedNext ==
  ASSUME Types, AcksBacked, AnswersBacked, EntriesOwned, [Next]_vars
  PROVE  AnswersBacked'
<1> USE DEF AnswersBacked
<1>1. ASSUME NEW k \in Commands, Clone(k) PROVE AnswersBacked'
  BY <1>1 DEF Clone, Step, Finish, Types, CallsType, pipes
<1>2. ASSUME NEW k \in Commands, Insert(k) PROVE AnswersBacked'
  BY <1>2 DEF Insert, Step, Finish, Types, CallsType, pipes
<1>3. ASSUME NEW k \in Commands, Send(k) PROVE AnswersBacked'
  BY <1>3 DEF Send, Step, Finish, Types, CallsType, pipes
<1>4. ASSUME NEW k \in Commands, Receive(k) PROVE AnswersBacked'
  BY <1>4 DEF Receive, Step, Finish, Types, CallsType, pipes
<1>5. ASSUME NEW k \in Commands, Timeout(k) PROVE AnswersBacked'
  BY <1>5 DEF Timeout, Step, Finish, Types, CallsType, pipes
<1>6. ASSUME NEW k \in Commands, Remove(k) PROVE AnswersBacked'
  BY <1>6 DEF Remove, Step, Finish, Types, CallsType, pipes
<1>20. ASSUME NEW k \in Commands, Drop(k) PROVE AnswersBacked'
  BY <1>20 DEF Drop, Finish, Types, CallsType, pipes
<1>7. ASSUME NEW g \in Connections, Execute(g) PROVE AnswersBacked'
  BY <1>7 DEF Execute
<1>8. CASE ReadAck
  <2> DEFINE g == loop.gen  m == Head(messages[g])
  <2>1. g \in Connections /\ m \in Elems(messages[g])
    BY <1>8, TailElems DEF ReadAck, Types, MessagesType, TasksType
  <2>2. m.ok => <<g, m.id>> \in executed
    BY <1>8, <2>1 DEF ReadAck, AcksBacked
  <2>3. m.id \in pending[g] => m.id \in Commands /\ call[m.id].gen = g
                                /\ call[m.id].pc \notin {"idle", "insert"}
    BY <2>1 DEF EntriesOwned, Types, PipesType
  <2> QED
    BY <1>8, <2>2, <2>3 DEF ReadAck, Types, CallsType
<1>9. CASE FailPending
  BY <1>9 DEF FailPending, Drain, EntriesOwned, Types, TasksType, Connections,
     PipesType
<1>10. CASE CloseDrain
  BY <1>10 DEF CloseDrain, Drain, EntriesOwned, Types, TasksType, PipesType
<1>11. CASE UNCHANGED <<call, ack, executed>>
  BY <1>11 
<1> QED
  BY <1>1, <1>2, <1>3, <1>4, <1>5, <1>6, <1>20, <1>7, <1>8, <1>9, <1>10, <1>11
  DEF Next, CallStep, WorkerStep, LoopStep, CloseStep, vars, pipes,
      WorkerCloses, WorkerDies, WorkerEvent, WriterFails, Connect, Run,
      ReadEvent, ReadEnd, ClearConnection, Again, Terminate, CloseTake,
      CloseKill, Abort

(* What a caller was told stays true. *)
LEMMA OkNext ==
  ASSUME Types, AnswersBacked, OkMeansExecuted, [Next]_vars
  PROVE  OkMeansExecuted'
<1> USE DEF OkMeansExecuted
<1>1. ASSUME NEW k \in Commands, Clone(k) PROVE OkMeansExecuted'
  BY <1>1 DEF Clone, Step, Finish, Types, CallsType, pipes
<1>2. ASSUME NEW k \in Commands, Insert(k) PROVE OkMeansExecuted'
  BY <1>2 DEF Insert, Step, Finish, Types, CallsType, pipes
<1>3. ASSUME NEW k \in Commands, Send(k) PROVE OkMeansExecuted'
  BY <1>3 DEF Send, Step, Finish, Types, CallsType, pipes
<1>4. ASSUME NEW k \in Commands, Receive(k) PROVE OkMeansExecuted'
  BY <1>4 DEF Receive, Finish, Types, CallsType, AnswersBacked, pipes
<1>5. ASSUME NEW k \in Commands, Timeout(k) PROVE OkMeansExecuted'
  BY <1>5 DEF Timeout, Step, Finish, Types, CallsType, pipes
<1>6. ASSUME NEW k \in Commands, Remove(k) PROVE OkMeansExecuted'
  BY <1>6 DEF Remove, Step, Finish, Types, CallsType, pipes
<1>20. ASSUME NEW k \in Commands, Drop(k) PROVE OkMeansExecuted'
  BY <1>20 DEF Drop, Finish, Types, CallsType, pipes
<1>7. ASSUME NEW g \in Connections, Execute(g) PROVE OkMeansExecuted'
  BY <1>7 DEF Execute
<1>8. CASE UNCHANGED <<call, executed>>
  BY <1>8 
<1> QED
  BY <1>1, <1>2, <1>3, <1>4, <1>5, <1>6, <1>20, <1>7, <1>8
  DEF Next, CallStep, WorkerStep, LoopStep, CloseStep, vars, pipes,
      WorkerCloses, WorkerDies, WorkerEvent, WriterFails, Connect, Run,
      ReadAck, ReadEvent, ReadEnd, ClearConnection, FailPending, Again,
      Terminate, CloseTake, CloseKill, CloseDrain, Abort

(* Entries of pending_acks belong to commands in progress or dropped. *)
LEMMA PendingNext ==
  ASSUME Types, EntriesOwned, AnswersBacked, Answerable, [Next]_vars
  PROVE  EntriesOwned'
<1> USE DEF EntriesOwned, Types, PipesType, CallsType
<1>1. ASSUME NEW k \in Commands, Clone(k) PROVE EntriesOwned'
  <2>1. /\ call[k].pc = "idle" /\ UNCHANGED pending
        /\ \A j \in Commands \ {k} : call'[j] = call[j]
    BY <1>1 DEF Clone, Finish, pipes
  <2> QED
    BY <2>1
<1>2. ASSUME NEW k \in Commands, Insert(k) PROVE EntriesOwned'
  BY <1>2 DEF Insert, Step, Finish, pipes
<1>3. ASSUME NEW k \in Commands, Send(k) PROVE EntriesOwned'
  <2>1. /\ call' \in {[call EXCEPT ![k].pc = "wait"], [call EXCEPT ![k].pc = "withdraw"]}
        /\ UNCHANGED pending /\ call[k].pc = "send"
    BY <1>3 DEF Send, Step
  <2> QED
    BY <2>1
<1>4. ASSUME NEW k \in Commands, Receive(k) PROVE EntriesOwned'
  BY <1>4 DEF Receive, Finish, pipes
<1>5. ASSUME NEW k \in Commands, Timeout(k) PROVE EntriesOwned'
  BY <1>5 DEF Timeout, Step, Finish, pipes
<1>6. ASSUME NEW k \in Commands, Remove(k) PROVE EntriesOwned'
  BY <1>6 DEF Remove, Step, Finish, pipes
<1>20. ASSUME NEW k \in Commands, Drop(k) PROVE EntriesOwned'
  BY <1>20 DEF Drop, Finish, pipes
<1>7. CASE ReadAck
  BY <1>7 DEF ReadAck
<1>8. CASE FailPending
  BY <1>8 DEF FailPending, Drain
<1>9. CASE CloseDrain
  BY <1>9 DEF CloseDrain, Drain
<1>10. CASE UNCHANGED <<pending, call>>
  BY <1>10 
<1> QED
  BY <1>1, <1>2, <1>3, <1>4, <1>5, <1>6, <1>20, <1>7, <1>8, <1>9, <1>10
  DEF Next, CallStep, WorkerStep, LoopStep, CloseStep, vars, pipes,
      Execute, WorkerCloses, WorkerDies, WorkerEvent, WriterFails,
      Connect, Run, ReadEvent, ReadEnd, ClearConnection, Again, Terminate,
      CloseTake, CloseKill, Abort

(* What an entry waits for is on its way, as long as the worker lives. *)
LEMMA OnWayNext ==
  ASSUME Types, EntriesOwned, EntriesOnWay, [Next]_vars
  PROVE  EntriesOnWay'
<1> USE BridgeAssumption DEF EntriesOnWay
<1>1. ASSUME NEW k \in Commands, Clone(k) PROVE EntriesOnWay'
  <2>1. /\ UNCHANGED <<pipes, made>> /\ call[k].pc = "idle"
        /\ \A j \in Commands \ {k} : call'[j] = call[j]
    BY <1>1 DEF Clone, Finish, Types, CallsType
  <2>2. \A g \in Connections : k \notin pending[g]
    BY <2>1 DEF EntriesOwned
  <2> QED
    BY <2>1, <2>2 DEF pipes, OnWay, Acknowledged, Types, PipesType
<1>2. ASSUME NEW k \in Commands, Insert(k) PROVE EntriesOnWay'
  <2>1. /\ UNCHANGED <<commands, messages, worker, writer, made>>
        /\ call'[k].pc = "send"
        /\ \A j \in Commands \ {k} : call'[j] = call[j]
        /\ \A g \in Connections : pending'[g] \subseteq pending[g] \cup {k}
    BY <1>2 DEF Insert, Step, Types, CallsType, PipesType
  <2> QED
    BY <2>1 DEF OnWay, Acknowledged, Types, PipesType
<1>3. ASSUME NEW k \in Commands, Send(k) PROVE EntriesOnWay'
  <2>1. /\ UNCHANGED <<pending, messages, worker, writer, made>>
        /\ \A j \in Commands \ {k} : call'[j] = call[j]
        /\ call[k].gen \in Connections
    <3>1. call[k].pc = "send"
      BY <1>3 DEF Send
    <3> QED
      BY <1>3, <3>1 DEF Send, Step, Types, CallsType, InProgress
  <2>2. Elems(Append(commands[call[k].gen], k)) = Elems(commands[call[k].gen]) \cup {k}
    BY <2>1, AppendElems DEF Types, CommandsType
  <2>3. \A h \in Connections : Elems(commands[h]) \subseteq Elems(commands'[h])
    BY <1>3, <2>1, <2>2 DEF Send, Types, CommandsType
  <2>4. \A h \in Connections : k \in pending[h] => h = call[k].gen
    BY DEF EntriesOwned
  <2>5. k \in Elems(commands'[call[k].gen]) \/ worker[call[k].gen] = "exited"
    BY <1>3, <2>1, <2>2 DEF Send, Types, CommandsType
  <2>6. ASSUME NEW h \in Connections, NEW j \in pending[h], call'[j].pc # "send"
        PROVE  OnWay(h, j)'
    <3>1. CASE j = k
      BY <3>1, <2>4, <2>5, <2>1 DEF OnWay
    <3>2. CASE j # k
      <4>1. OnWay(h, j)
        BY <3>2, <2>1, <2>6 DEF Types, PipesType
      <4> QED
        BY <4>1, <2>1, <2>3 DEF OnWay, Acknowledged
    <3> QED
      BY <3>1, <3>2
  <2> QED
    BY <2>1, <2>6
<1>4. ASSUME NEW k \in Commands, Receive(k) \/ Timeout(k) \/ Drop(k)
      PROVE  EntriesOnWay'
  <2>1. /\ UNCHANGED <<pipes, made>> /\ call[k].pc # "send"
        /\ \A j \in Commands \ {k} : call'[j] = call[j]
    BY <1>4 DEF Receive, Timeout, Drop, Step, Finish, Types, CallsType
  <2> QED
    BY <2>1 DEF pipes, OnWay, Acknowledged, Types, PipesType
<1>5. ASSUME NEW k \in Commands, Remove(k) PROVE EntriesOnWay'
  <2>1. /\ UNCHANGED <<commands, messages, worker, writer, made>>
        /\ call[k].pc # "send"
        /\ \A j \in Commands \ {k} : call'[j] = call[j]
        /\ \A g \in Connections : pending'[g] \subseteq pending[g]
    BY <1>5 DEF Remove, Finish, Types, CallsType, PipesType
  <2> QED
    BY <2>1 DEF OnWay, Acknowledged, Types, PipesType
<1>6. ASSUME NEW g \in Connections, Execute(g) PROVE EntriesOnWay'
  <2>1. PICK ok \in BOOLEAN :
          messages' = [messages EXCEPT ![g] = Append(@, Ack(Head(commands[g]), ok))]
    BY <1>6 DEF Execute
  <2>2. Ack(Head(commands[g]), ok) \in Messages
    BY <1>6, TailElems DEF Execute, Types, CommandsType, Ack, Messages
  <2>3. Elems(messages'[g]) = Elems(messages[g]) \cup {Ack(Head(commands[g]), ok)}
    BY <2>1, <2>2, AppendElems DEF Types, MessagesType
  <2>4. Elems(commands[g]) = Elems(commands'[g]) \cup {Head(commands[g])}
    BY <1>6, TailSplits DEF Execute, Types, CommandsType
  <2>5. \E m \in Elems(messages'[g]) : m.kind = "ack" /\ m.id = Head(commands[g])
    <3> DEFINE a == Ack(Head(commands[g]), ok)
    <3>1. a \in Elems(messages'[g])
      BY <2>3
    <3>2. a.kind = "ack" /\ a.id = Head(commands[g])
      BY DEF Ack
    <3> HIDE DEF a
    <3> QED
      BY <3>1, <3>2
  <2>6. \A h \in Connections \ {g} :
          messages'[h] = messages[h] /\ commands'[h] = commands[h]
    BY <1>6, <2>1 DEF Execute, Types, CommandsType, MessagesType
  <2>7. \A h \in Connections, k \in Commands : OnWay(h, k) => OnWay(h, k)'
    BY <1>6, <2>3, <2>4, <2>5, <2>6 DEF OnWay, Acknowledged, Execute
  <2> QED
    BY <1>6, <2>7 DEF Execute, Types, PipesType
<1>7. ASSUME NEW g \in Connections, Exit(g), g <= made,
             UNCHANGED <<made, pending, commands, writer, call>>
      PROVE  EntriesOnWay'
  <2>1. /\ worker' = [worker EXCEPT ![g] = "exited"]
        /\ \A h \in Connections \ {g} : messages'[h] = messages[h]
    BY <1>7 DEF Exit, Types, MessagesType
  <2> QED
    BY <1>7, <2>1 DEF OnWay, Acknowledged, Types, PipesType, Connections, TasksType
<1>8. ASSUME NEW g \in Connections, worker[g] = "running" PROVE g <= made
  BY <1>8 DEF Types, TasksType, Connections
<1>9. ASSUME NEW g \in Connections, WorkerCloses(g) \/ WorkerDies(g)
      PROVE  EntriesOnWay'
  BY <1>9, <1>7, <1>8 DEF WorkerCloses, WorkerDies
<1>10. ASSUME NEW g \in Connections, WorkerEvent(g) PROVE EntriesOnWay'
  <2>1. PICK kind \in {"output", "error"} :
          messages' = [messages EXCEPT ![g] = Append(@, Event(kind))]
    BY <1>10 DEF WorkerEvent
  <2>2. Event(kind) \in Messages
    BY DEF Messages
  <2>3. \A h \in Connections : Elems(messages[h]) \subseteq Elems(messages'[h])
    BY <2>1, <2>2, AppendElems DEF Types, MessagesType
  <2> QED
    BY <1>10, <2>3 DEF WorkerEvent, OnWay, Acknowledged, Types, PipesType
<1>11. ASSUME NEW g \in Connections, WriterFails(g) PROVE EntriesOnWay'
  <2>1. \A h \in Connections \ {g} : commands'[h] = commands[h] /\ writer'[h] = writer[h]
    BY <1>11 DEF WriterFails, Types, CommandsType, PipesType
  <2> QED
    BY <1>11, <2>1 DEF WriterFails, OnWay, Acknowledged, Types, PipesType
<1>12. CASE Connect
  <2>1. /\ made' = made + 1 /\ made \in Nat /\ worker[made + 1] = "none"
        /\ \A h \in Connections \ {made + 1} : worker'[h] = worker[h]
    BY <1>12 DEF Connect, Types, TasksType, PipesType, Connections
  <2> QED
    BY <1>12, <2>1 DEF Connect, OnWay, Acknowledged, Types, PipesType, Connections
<1>13. CASE ReadAck
  <2> DEFINE g == loop.gen  m == Head(messages[g])
  <2>1. g \in Connections /\ messages[g] \in Seq(Messages) /\ messages[g] # <<>>
    BY <1>13 DEF ReadAck, Types, MessagesType, TasksType
  <2>2. Elems(messages[g]) = Elems(messages'[g]) \cup {m}
    BY <1>13, <2>1, TailSplits DEF ReadAck, Types, MessagesType
  <2>3. \A h \in Connections \ {g} :
          messages'[h] = messages[h] /\ pending'[h] = pending[h]
    BY <1>13 DEF ReadAck, Types, MessagesType, PipesType
  <2>4. pending'[g] = pending[g] \ {m.id}
    BY <1>13, <2>1 DEF ReadAck, Types, PipesType
  <2>5. ASSUME NEW h \in Connections, NEW k \in pending'[h], OnWay(h, k)
        PROVE  OnWay(h, k)'
    BY <1>13, <2>2, <2>3, <2>4, <2>5 DEF ReadAck, OnWay, Acknowledged
  <2>6. \A h \in Connections : pending'[h] \subseteq pending[h]
    BY <2>3, <2>4
  <2> QED
    BY <1>13, <2>5, <2>6 DEF ReadAck
<1>14. CASE ReadEvent
  <2> DEFINE g == loop.gen  m == Head(messages[g])
  <2>1. g \in Connections /\ messages[g] \in Seq(Messages) /\ messages[g] # <<>>
    BY <1>14 DEF ReadEvent, Types, MessagesType, TasksType
  <2>2. Elems(messages[g]) = Elems(messages'[g]) \cup {m} /\ m.kind # "ack"
    BY <1>14, <2>1, TailSplits DEF ReadEvent, Types, MessagesType
  <2>3. \A h \in Connections \ {g} : messages'[h] = messages[h]
    BY <1>14 DEF ReadEvent, Types, MessagesType
  <2>4. \A h \in Connections, k \in Commands : OnWay(h, k) => OnWay(h, k)'
    BY <1>14, <2>2, <2>3 DEF ReadEvent, OnWay, Acknowledged
  <2> QED
    BY <1>14, <2>4 DEF ReadEvent, Types, PipesType
<1>15. CASE FailPending \/ CloseDrain
  <2>1. \A h \in Connections : pending'[h] \subseteq pending[h]
    BY <1>15 DEF FailPending, CloseDrain, Drain, Types, PipesType
  <2> QED
    BY <1>15, <2>1 DEF FailPending, CloseDrain, OnWay, Acknowledged
<1>16. CASE CloseTake
  <2>1. \A h \in Connections : Elems(commands[h]) \subseteq Elems(commands'[h])
    BY <1>16, AppendElems DEF CloseTake, Types, CommandsType
  <2> QED
    BY <1>16, <2>1 DEF CloseTake, OnWay, Acknowledged, Types, PipesType
<1>17. CASE CloseKill
  <2>1. CASE worker[closer.gen] = "running"
    BY <1>17, <2>1, <1>7, <1>8 DEF CloseKill, Types, TasksType
  <2>2. CASE UNCHANGED <<worker, messages>>
    BY <1>17, <2>2 DEF CloseKill, OnWay, Acknowledged
  <2> QED
    BY <1>17, <2>1, <2>2 DEF CloseKill
<1>18. CASE UNCHANGED <<made, pipes, call>>
  BY <1>18 DEF pipes, OnWay, Acknowledged
<1> QED
  BY <1>1, <1>2, <1>3, <1>4, <1>5, <1>6, <1>9, <1>10, <1>11, <1>12, <1>13, <1>14,
     <1>15, <1>16, <1>17, <1>18
  DEF Next, CallStep, WorkerStep, LoopStep, CloseStep, vars, Run, ReadEnd,
      ClearConnection, Again, Terminate, Abort

(* A command that waits has an entry or an answer. *)
LEMMA AnswerableNext ==
  ASSUME Types, EntriesOwned, Answerable, [Next]_vars
  PROVE  Answerable'
<1> USE DEF Answerable, Types, PipesType, CallsType
<1>1. ASSUME NEW k \in Commands, Clone(k) PROVE Answerable'
  BY <1>1 DEF Clone, Step, Finish, pipes
<1>2. ASSUME NEW k \in Commands, Insert(k) PROVE Answerable'
  BY <1>2 DEF Insert, Step, InProgress
<1>3. ASSUME NEW k \in Commands, Send(k) PROVE Answerable'
  BY <1>3 DEF Send, Step, Finish, pipes
<1>4. ASSUME NEW k \in Commands, Receive(k) PROVE Answerable'
  BY <1>4 DEF Receive, Step, Finish, pipes
<1>5. ASSUME NEW k \in Commands, Timeout(k) PROVE Answerable'
  BY <1>5 DEF Timeout, Step, Finish, pipes
<1>6. ASSUME NEW k \in Commands, Remove(k) PROVE Answerable'
  BY <1>6 DEF Remove, Finish, InProgress
<1>20. ASSUME NEW k \in Commands, Drop(k) PROVE Answerable'
  BY <1>20 DEF Drop, Finish, pipes
<1>7. CASE ReadAck
  BY <1>7 DEF ReadAck, EntriesOwned, TasksType
<1>8. CASE FailPending
  BY <1>8 DEF FailPending, Drain, EntriesOwned, TasksType
<1>9. CASE CloseDrain
  BY <1>9 DEF CloseDrain, Drain, EntriesOwned, TasksType
<1>10. CASE UNCHANGED <<pending, call, ack>>
  BY <1>10 
<1> QED
  BY <1>1, <1>2, <1>3, <1>4, <1>5, <1>6, <1>20, <1>7, <1>8, <1>9, <1>10
  DEF Next, CallStep, WorkerStep, LoopStep, CloseStep, vars, pipes,
      Execute, WorkerCloses, WorkerDies, WorkerEvent, WriterFails,
      Connect, Run, ReadEvent, ReadEnd, ClearConnection, Again, Terminate,
      CloseTake, CloseKill, Abort

(* Only commands that were sent are on their way or carried out. *)
LEMMA OnlySentNext ==
  ASSUME Types, OnlySent, [Next]_vars
  PROVE  OnlySent'
<1> USE DEF OnlySent, Sent
<1>1. ASSUME NEW k \in Commands, Clone(k) PROVE OnlySent'
  BY <1>1 DEF Clone, Step, Finish, Types, CallsType, pipes
<1>2. ASSUME NEW k \in Commands, Insert(k) PROVE OnlySent'
  BY <1>2 DEF Insert, Step, Finish, Types, CallsType, pipes
<1>3. ASSUME NEW k \in Commands, Send(k) PROVE OnlySent'
  <2>1. call[k].gen \in Connections
    BY <1>3, Zenon DEF Send, Types, CallsType, InProgress
  <2>2. Elems(Append(commands[call[k].gen], k)) = Elems(commands[call[k].gen]) \cup {k}
    BY <2>1, AppendElems DEF Types, CommandsType
  <2>3. CASE writer[call[k].gen]
    <3>1. /\ commands' = [commands EXCEPT ![call[k].gen] = Append(@, k)]
          /\ call' = [call EXCEPT ![k].pc = "wait"]
          /\ UNCHANGED executed
      BY <1>3, <2>3 DEF Send, Step
    <3>2. \A h \in Connections : Elems(commands'[h]) \subseteq Elems(commands[h]) \cup {k}
      BY <3>1, <2>1, <2>2 DEF Types, CommandsType
    <3>3. Sent(k)' /\ \A j \in Commands : Sent(j) => Sent(j)'
      BY <1>3, <3>1 DEF Send, Types, CallsType
    <3> QED
      BY <3>1, <3>2, <3>3
  <2>4. CASE ~writer[call[k].gen]
    BY <1>3, <2>4 DEF Send, Step, Types, CallsType
  <2> QED
    BY <2>3, <2>4
<1>4. ASSUME NEW k \in Commands, Receive(k) PROVE OnlySent'
  BY <1>4 DEF Receive, Step, Finish, Types, CallsType, pipes
<1>5. ASSUME NEW k \in Commands, Timeout(k) PROVE OnlySent'
  BY <1>5 DEF Timeout, Step, Finish, Types, CallsType, pipes
<1>6. ASSUME NEW k \in Commands, Remove(k) PROVE OnlySent'
  BY <1>6 DEF Remove, Step, Finish, Types, CallsType, pipes
<1>20. ASSUME NEW k \in Commands, Drop(k) PROVE OnlySent'
  BY <1>20 DEF Drop, Finish, Types, CallsType, pipes
<1>7. ASSUME NEW g \in Connections, Execute(g) PROVE OnlySent'
  <2>1. /\ Elems(Tail(commands[g])) \subseteq Elems(commands[g])
        /\ Head(commands[g]) \in Elems(commands[g])
    BY <1>7, TailElems DEF Execute, Types, CommandsType
  <2> QED
    BY <1>7, <2>1 DEF Execute, Types, CommandsType
<1>8. ASSUME NEW g \in Connections, WriterFails(g) PROVE OnlySent'
  <2>1. Elems(<<>>) = {}
    BY DEF Elems
  <2> QED
    BY <1>8, <2>1 DEF WriterFails, Types, CommandsType
<1>9. CASE CloseTake
  <2>1. \A h \in Connections :
          Elems(commands'[h]) \subseteq Elems(commands[h]) \cup {CloseCommand}
    BY <1>9, AppendElems DEF CloseTake, Types, CommandsType
  <2> QED
    BY <1>9, <2>1, BridgeAssumption DEF CloseTake, CloseCommand
<1>10. CASE UNCHANGED <<commands, call, executed>>
  BY <1>10 
<1> QED
  BY <1>1, <1>2, <1>3, <1>4, <1>5, <1>6, <1>20, <1>7, <1>8, <1>9, <1>10
  DEF Next, CallStep, WorkerStep, LoopStep, CloseStep, vars, pipes,
      WorkerCloses, WorkerDies, WorkerEvent, Connect, Run, ReadAck,
      ReadEvent, ReadEnd, ClearConnection, FailPending, Again, Terminate,
      CloseKill, CloseDrain, Abort

(* The inductive invariant holds throughout. *)
LEMMA Inductive == Spec => []IInv
<1>1. Init => IInv
  <2> SUFFICES ASSUME Init PROVE IInv
    OBVIOUS
  <2> USE BridgeAssumption DEF Init, Connections
  <2>1. Types
    <3>1. CommandsType /\ MessagesType
      BY DEF CommandsType, MessagesType
    <3>2. PipesType
      BY DEF PipesType
    <3>3. CallsType
      BY DEF CallsType, InProgress
    <3>4. TasksType
      <4>1. 0 \in 0..MaxConnections
        OBVIOUS
      <4> QED
        BY <4>1 DEF TasksType
    <3> QED
      BY <3>1, <3>2, <3>3, <3>4 DEF Types
  <2>2. \A g \in Connections : Elems(messages[g]) = {} /\ Elems(commands[g]) = {}
    BY DEF Elems
  <2>3. AcksBacked /\ OnlySent
    BY <2>2 DEF AcksBacked, OnlySent
  <2>4. AnswersBacked /\ OkMeansExecuted /\ EntriesOwned /\ EntriesOnWay /\ Answerable
    BY DEF AnswersBacked, OkMeansExecuted, EntriesOwned, EntriesOnWay, Answerable
  <2> QED
    BY <2>1, <2>3, <2>4 DEF IInv
<1>2. IInv /\ [Next]_vars => IInv'
  BY TypesNext, AcksBackedNext, AnswersBackedNext, OkNext, PendingNext, OnWayNext,
     AnswerableNext, OnlySentNext DEF IInv
<1> QED
  BY <1>1, <1>2, PTL DEF Spec

(* Every reachable state is well typed, and connect() never finds a        *)
(* connection in place.                                                    *)
THEOREM BridgeTypeCorrect == Spec => []TypeOK
<1>1. IInv => TypeOK
  BY DEF IInv, Types, CommandsType, MessagesType, PipesType, CallsType, TasksType,
     TypeOK, Messages
<1> QED
  BY <1>1, Inductive, PTL

(* A caller that is told Ok was answered by the worker that carried out its*)
(* command, over any number of reconnects, timeouts and closes.            *)
THEOREM OkIsTrue == Spec => []OkMeansExecuted
<1>1. IInv => OkMeansExecuted
  BY DEF IInv
<1> QED
  BY <1>1, Inductive, PTL

(* pending_acks never holds an entry of a command that has returned; the   *)
(* entry of a dropped caller stays until its acknowledgement is read or    *)
(* its worker is gone.                                                     *)
THEOREM EntriesAreAccounted == Spec => []PendingIsAccounted
<1>1. IInv => PendingIsAccounted
  <2> SUFFICES ASSUME IInv, NEW g \in Connections, NEW k \in pending[g]
               PROVE  /\ call[k].gen = g
                      /\ \/ call[k].pc \in {"send", "wait", "withdraw", "expire"}
                         \/ call[k].result = "dropped" /\ OnItsWay(g, k)
    BY DEF PendingIsAccounted
  <2>1. /\ call[k].gen = g
        /\ \/ call[k].pc \in {"send", "wait", "withdraw", "expire"}
           \/ call[k].pc = "done" /\ call[k].result = "dropped"
    BY DEF IInv, EntriesOwned
  <2>2. call[k].pc = "done" => OnWay(g, k)
    BY DEF IInv, EntriesOnWay
  <2>3. OnWay(g, k) => OnItsWay(g, k)
    BY DEF OnWay, OnItsWay, Acknowledged, Elems
  <2> QED
    BY <2>1, <2>2, <2>3
<1> QED
  BY <1>1, Inductive, PTL

(* No command waits without an entry and without an answer.                *)
THEOREM NoAnswerLost == Spec => []WaitingIsAnswerable
<1>1. IInv => WaitingIsAnswerable
  BY DEF IInv, Answerable, WaitingIsAnswerable
<1> QED
  BY <1>1, Inductive, PTL

(* A command that could not be sent is never carried out.                  *)
THEOREM UnsentIsSafe == Spec => []UnsentNotExecuted
<1>1. IInv => UnsentNotExecuted
  <2> SUFFICES ASSUME IInv, NEW k \in Commands, NEW g \in Connections,
                      call[k].result = "unsent", <<g, k>> \in executed
               PROVE  FALSE
    BY DEF UnsentNotExecuted
  <2>1. Sent(k)
    BY DEF IInv, OnlySent
  <2> QED
    BY <2>1 DEF IInv, Types, CallsType, Sent
<1> QED
  BY <1>1, Inductive, PTL

----------------------------------------------------------------------------
(* The parts of MCTasks. *)

(* A behaviour of the parts is one of each part. *)
LEMMA PartsRun ==
  TasksSpec => /\ Spec /\ Forwarding!Spec /\ ChannelJob!Spec
               /\ Runtime!Spec /\ Spoken!Spec
<1>1. TasksInit => /\ Init /\ Forwarding!Init /\ ChannelJob!Init
                   /\ Runtime!Init /\ Spoken!Init
  BY DEF TasksInit
<1>2. [TasksNext]_taskVars =>
        /\ [Next]_vars /\ [Forwarding!Next]_(Forwarding!vars)
        /\ [ChannelJob!Next]_(ChannelJob!vars)
        /\ [Runtime!Next]_(Runtime!vars) /\ [Spoken!Next]_(Spoken!vars)
  <2> SUFFICES ASSUME [TasksNext]_taskVars
               PROVE  /\ [Next]_vars /\ [Forwarding!Next]_(Forwarding!vars)
                      /\ [ChannelJob!Next]_(ChannelJob!vars)
                      /\ [Runtime!Next]_(Runtime!vars)
                      /\ [Spoken!Next]_(Spoken!vars)
    OBVIOUS
  <2> DEFINE Docker == UNCHANGED vars
             Forwards == UNCHANGED Forwarding!vars
             Job == UNCHANGED ChannelJob!vars
             Meeting == UNCHANGED Runtime!vars
             Speech == UNCHANGED Spoken!vars
  <2>1. UNCHANGED forwardingVars => Forwards
    BY DEF forwardingVars, Forwarding!vars, Forwarding!lock, Forwarding!mail
  <2>2. UNCHANGED jobVars => Job
    BY DEF jobVars, ChannelJob!vars
  <2>3. UNCHANGED sessionVars => Meeting
    BY DEF sessionVars, Runtime!vars, Runtime!counters
  <2>4. UNCHANGED eventVars => Speech
    BY DEF eventVars, Spoken!vars, Spoken!gateway
  <2> HIDE DEF Docker, Forwards, Job, Meeting, Speech
  <2>5. OnlyDocker => Forwards /\ Job /\ Meeting /\ Speech
    BY <2>1, <2>2, <2>3, <2>4 DEF OnlyDocker
  <2>6. OnlyForwarding => Docker /\ Job /\ Meeting /\ Speech
    BY <2>2, <2>3, <2>4 DEF OnlyForwarding, Docker
  <2>7. OnlyJobs => Docker /\ Forwards /\ Meeting /\ Speech
    BY <2>1, <2>3, <2>4 DEF OnlyJobs, Docker
  <2>8. OnlySessions => Docker /\ Forwards /\ Job /\ Speech
    BY <2>1, <2>2, <2>4 DEF OnlySessions, Docker
  <2>9. OnlyEvents => Docker /\ Forwards /\ Job /\ Meeting
    BY <2>1, <2>2, <2>3 DEF OnlyEvents, Docker
  <2>10. UNCHANGED taskVars => Docker /\ Forwards /\ Job /\ Meeting /\ Speech
    BY <2>1, <2>2, <2>3, <2>4 DEF taskVars, Docker
  <2>11. TasksNext =>
           \/ OnlyDocker /\ Next
           \/ OnlyForwarding /\ Forwarding!Next
           \/ OnlyJobs /\ ChannelJob!Next
           \/ OnlySessions /\ Runtime!Next
           \/ OnlyEvents /\ Spoken!Next
    <3> HAVE TasksNext
    <3>1. CASE \E k \in Commands :
                 \/ BridgeClone(k) \/ BridgeInsert(k) \/ BridgeSend(k)
                 \/ BridgeReceive(k) \/ BridgeTimeout(k) \/ BridgeRemove(k)
                 \/ BridgeDrop(k)
      BY <3>1 DEF BridgeDrop, BridgeClone, BridgeInsert, BridgeSend, BridgeReceive,
         BridgeTimeout, BridgeRemove, CallStep, Next
    <3>2. CASE \E g \in Connections :
                 \/ BridgeExecute(g) \/ BridgeWorkerCloses(g)
                 \/ BridgeWriterFails(g) \/ BridgeWorkerDies(g)
                 \/ BridgeWorkerEvent(g)
      <4>1. PICK g \in Connections :
                 \/ BridgeExecute(g) \/ BridgeWorkerCloses(g)
                 \/ BridgeWriterFails(g) \/ BridgeWorkerDies(g)
                 \/ BridgeWorkerEvent(g)
        BY <3>2
      <4> QED
        BY <4>1 DEF BridgeExecute, BridgeWorkerCloses, BridgeWriterFails,
           BridgeWorkerDies, BridgeWorkerEvent, WorkerStep, Next
    <3>3. CASE \/ BridgeConnect \/ BridgeRun \/ BridgeReadAck \/ BridgeReadEvent
               \/ BridgeReadEnd \/ BridgeClearConnection \/ BridgeFailPending
               \/ BridgeAgain \/ BridgeTerminate \/ BridgeCloseTake
               \/ BridgeCloseKill \/ BridgeCloseDrain \/ BridgeAbort
      BY <3>3 DEF BridgeConnect, BridgeRun, BridgeReadAck, BridgeReadEvent,
         BridgeReadEnd, BridgeClearConnection, BridgeFailPending, BridgeAgain,
         BridgeTerminate, BridgeCloseTake, BridgeCloseKill, BridgeCloseDrain,
         BridgeAbort, LoopStep, CloseStep, Next
    <3>4. CASE \/ \E c \in Conns :
                    ForwardingClientSends(c) \/ ForwardingTaskStep(c)
               \/ \E f \in Forwarding!Forwarders : ForwardingForwarderStep(f)
      BY <3>4 DEF ForwardingClientSends, ForwardingTaskStep,
         ForwardingForwarderStep, Forwarding!Next
    <3>5. CASE \E j \in Jobs :
                 \/ \E p \in ChannelJob!Requesters : JobCreate(j, p)
                 \/ JobInsert(j) \/ JobSpawn(j) \/ JobFirstTick(j)
                 \/ JobIntervalPasses(j) \/ JobStartTick(j) \/ JobEndTick(j)
                 \/ JobBreak(j) \/ JobRemoveOwn(j)
      BY <3>5 DEF JobCreate, JobInsert, JobSpawn, JobFirstTick, JobIntervalPasses,
         JobStartTick, JobEndTick, JobBreak, JobRemoveOwn, ChannelJob!Next
    <3>6. CASE \E c \in Cancellers :
                 \/ \E p \in ChannelJob!Requesters, j \in Jobs : JobCancel(c, p, j)
                 \/ JobRemoveEntry(c) \/ JobSendCancel(c)
      BY <3>6 DEF JobCancel, JobRemoveEntry, JobSendCancel, ChannelJob!Next
    <3>7. CASE \E i \in Ids :
                 \/ SessionInitialize(i) \/ SessionConfigure(i)
                 \/ SessionConnect(i) \/ SessionInsert(i) \/ SessionDropCreate(i)
                 \/ SessionLoopTop(i) \/ SessionRunEnds(i) \/ SessionRetry(i)
                 \/ SessionWake(i) \/ SessionDialFails(i) \/ SessionDialSucceeds(i)
      BY <3>7 DEF SessionInitialize, SessionConfigure, SessionConnect,
         SessionInsert, SessionDropCreate, SessionLoopTop, SessionRunEnds,
         SessionRetry, SessionWake, SessionDialFails, SessionDialSucceeds,
         Runtime!LoopStep, Runtime!Next
    <3>8. CASE \E t \in Terminators :
                 \/ SessionRemove(t) \/ SessionClearTracking(t) \/ SessionClose(t)
                 \/ SessionAbort(t) \/ SessionDropTerminate(t)
      BY <3>8 DEF SessionRemove, SessionClearTracking, SessionClose, SessionAbort,
         SessionDropTerminate, Runtime!TerminateStep, Runtime!Next
    <3>9. CASE \/ \E s \in Ids :
                    \/ \E k \in Media : EventSpeak(s, k)
                    \/ EventSend(s) \/ EventRemember(s) \/ EventCount(s)
                    \/ EventSaveFile(s) \/ EventAbort(s)
               \/ \E k \in Media : EventTake(k) \/ EventForward(k)
               \/ EventClose
      BY <3>9 DEF EventSpeak, EventSend, EventRemember, EventCount, EventSaveFile,
         EventAbort, EventTake, EventForward, EventClose, Spoken!Handle, Spoken!Next
    <3> QED
      BY <3>1, <3>2, <3>3, <3>4, <3>5, <3>6, <3>7, <3>8, <3>9 DEF TasksNext
  <2> QED
    BY <2>5, <2>6, <2>7, <2>8, <2>9, <2>10, <2>11
       DEF Docker, Forwards, Job, Meeting, Speech
<1> QED
  BY <1>1, <1>2, PTL DEF TasksSpec, Spec, Forwarding!Spec, ChannelJob!Spec,
     Runtime!Spec, Spoken!Spec

----------------------------------------------------------------------------
(* ChannelJobs *)

(* The invariant of ChannelJobs holds at the start ... *)
LEMMA JobsInit == ChannelJob!Init => ChannelJob!IInv
  BY TasksAssumption
     DEF ChannelJob!Init, ChannelJob!IInv, ChannelJob!TypeOK,
         ChannelJob!RequestsInv, ChannelJob!CancellersInv, ChannelJob!LateInv,
         ChannelJob!ListedRuns, ChannelJob!UnlistedWasCancelled,
         ChannelJob!Cancelling, ChannelJob!Returned, ChannelJob!RequestAt

(* ... and after every step. *)
LEMMA JobsNext ==
  ChannelJob!IInv /\ [ChannelJob!Next]_(ChannelJob!vars) => ChannelJob!IInv'
<1> SUFFICES ASSUME ChannelJob!IInv, [ChannelJob!Next]_(ChannelJob!vars)
             PROVE  ChannelJob!IInv'
  OBVIOUS
<1> USE TasksAssumption
    DEF ChannelJob!ChannelJobsAssumption, ChannelJob!IInv, ChannelJob!TypeOK,
        ChannelJob!RequestsInv, ChannelJob!CancellersInv, ChannelJob!LateInv,
        ChannelJob!ListedRuns, ChannelJob!UnlistedWasCancelled,
        ChannelJob!Cancelling, ChannelJob!Returned, ChannelJob!RequestAt,
        ChannelJob!RequestGoes, ChannelJob!CancelGoes, ChannelJob!WorkerGoes,
        ChannelJob!Requesters
<1>1. ASSUME NEW j \in Jobs, NEW p \in ChannelJob!Requesters,
             ChannelJob!Create(j, p)
      PROVE  ChannelJob!IInv'
  BY <1>1 DEF ChannelJob!Create
<1>2. ASSUME NEW j \in Jobs, ChannelJob!Insert(j)
      PROVE  ChannelJob!IInv'
  <2>1. ChannelJob!TypeOK'
    BY <1>2 DEF ChannelJob!Insert
  <2>2. ChannelJob!RequestsInv'
    BY <1>2 DEF ChannelJob!Insert
  <2>3. ChannelJob!CancellersInv'
    BY <1>2 DEF ChannelJob!Insert
  <2>4. ChannelJob!LateInv'
    BY <1>2 DEF ChannelJob!Insert
  <2>5. ChannelJob!ListedRuns'
    BY <1>2 DEF ChannelJob!Insert
  <2>6. ChannelJob!UnlistedWasCancelled'
    BY <1>2 DEF ChannelJob!Insert
  <2> QED
    BY <2>1, <2>2, <2>3, <2>4, <2>5, <2>6 DEF ChannelJob!IInv
<1>3. ASSUME NEW j \in Jobs, ChannelJob!Spawn(j)
      PROVE  ChannelJob!IInv'
  <2>1. ChannelJob!TypeOK'
    BY <1>3 DEF ChannelJob!Spawn
  <2>2. ChannelJob!RequestsInv'
    BY <1>3 DEF ChannelJob!Spawn
  <2>3. ChannelJob!CancellersInv'
    BY <1>3 DEF ChannelJob!Spawn
  <2>4. ChannelJob!LateInv'
    BY <1>3 DEF ChannelJob!Spawn
  <2>5. ChannelJob!ListedRuns'
    BY <1>3 DEF ChannelJob!Spawn
  <2>6. ChannelJob!UnlistedWasCancelled'
    BY <1>3 DEF ChannelJob!Spawn
  <2> QED
    BY <2>1, <2>2, <2>3, <2>4, <2>5, <2>6 DEF ChannelJob!IInv
<1>4. ASSUME NEW j \in Jobs, ChannelJob!FirstTick(j)
      PROVE  ChannelJob!IInv'
  BY <1>4 DEF ChannelJob!FirstTick
<1>5. ASSUME NEW j \in Jobs, ChannelJob!IntervalPasses(j)
      PROVE  ChannelJob!IInv'
  BY <1>5 DEF ChannelJob!IntervalPasses
<1>6. ASSUME NEW j \in Jobs, ChannelJob!StartTick(j)
      PROVE  ChannelJob!IInv'
  BY <1>6 DEF ChannelJob!StartTick, ChannelJob!CountLate
<1>7. ASSUME NEW j \in Jobs, ChannelJob!EndTick(j)
      PROVE  ChannelJob!IInv'
  BY <1>7 DEF ChannelJob!EndTick
<1>8. ASSUME NEW j \in Jobs, ChannelJob!Break(j)
      PROVE  ChannelJob!IInv'
  BY <1>8 DEF ChannelJob!Break
<1>9. ASSUME NEW j \in Jobs, ChannelJob!RemoveOwn(j)
      PROVE  ChannelJob!IInv'
  BY <1>9 DEF ChannelJob!RemoveOwn
<1>10. ASSUME NEW c \in Cancellers, NEW p \in ChannelJob!Requesters,
              NEW j \in Jobs, ChannelJob!Cancel(c, p, j)
       PROVE  ChannelJob!IInv'
  BY <1>10 DEF ChannelJob!Cancel
<1>11. ASSUME NEW c \in Cancellers, ChannelJob!RemoveEntry(c)
       PROVE  ChannelJob!IInv'
  <2>1. PICK j \in Jobs : j = canceller[c].job
    BY <1>11 DEF ChannelJob!RemoveEntry
  <2>2. /\ canceller[c] \in [pc : {"idle", "lock", "send", "canceled", "refused"},
                            principal : Principals \cup {None},
                            job : Jobs \cup {None}]
        /\ canceller[c].pc = "lock" /\ canceller[c].principal # None
        /\ UNCHANGED <<request, signal, job_worker, due, late>>
    BY <1>11 DEF ChannelJob!RemoveEntry
  <2>3. CASE channel_jobs[j] = canceller[c].principal
    <3>1. /\ channel_jobs' = [channel_jobs EXCEPT ![j] = None]
          /\ canceller' = [canceller EXCEPT ![c].pc = "send"]
      BY <1>11, <2>1, <2>3 DEF ChannelJob!RemoveEntry
    <3>2. ChannelJob!TypeOK'
      BY <2>1, <2>2, <2>3, <3>1
    <3>3. ChannelJob!RequestsInv'
      BY <2>1, <2>2, <2>3, <3>1
    <3>4. ChannelJob!CancellersInv'
      BY <2>1, <2>2, <2>3, <3>1
    <3>5. ChannelJob!LateInv'
      BY <2>1, <2>2, <2>3, <3>1
    <3>6. ChannelJob!ListedRuns'
      BY <2>1, <2>2, <2>3, <3>1
    <3>7. ChannelJob!UnlistedWasCancelled'
      BY <2>1, <2>2, <2>3, <3>1
    <3> QED
      BY <3>2, <3>3, <3>4, <3>5, <3>6, <3>7 DEF ChannelJob!IInv
  <2>4. CASE channel_jobs[j] # canceller[c].principal
    <3>1. /\ UNCHANGED channel_jobs
          /\ canceller' = [canceller EXCEPT ![c].pc = "refused"]
      BY <1>11, <2>1, <2>4 DEF ChannelJob!RemoveEntry
    <3> QED
      BY <2>1, <2>2, <3>1
  <2> QED
    BY <2>3, <2>4
<1>12. ASSUME NEW c \in Cancellers, ChannelJob!SendCancel(c)
       PROVE  ChannelJob!IInv'
  <2>1. ChannelJob!TypeOK'
    BY <1>12 DEF ChannelJob!SendCancel
  <2>2. ChannelJob!RequestsInv'
    BY <1>12 DEF ChannelJob!SendCancel
  <2>3. ChannelJob!CancellersInv'
    BY <1>12 DEF ChannelJob!SendCancel
  <2>4. ChannelJob!LateInv'
    BY <1>12 DEF ChannelJob!SendCancel
  <2>5. ChannelJob!ListedRuns'
    BY <1>12 DEF ChannelJob!SendCancel
  <2>6. ChannelJob!UnlistedWasCancelled'
    BY <1>12 DEF ChannelJob!SendCancel
  <2> QED
    BY <2>1, <2>2, <2>3, <2>4, <2>5, <2>6 DEF ChannelJob!IInv
<1>13. CASE UNCHANGED ChannelJob!vars
  BY <1>13 DEF ChannelJob!vars
<1> QED
  BY <1>1, <1>2, <1>3, <1>4, <1>5, <1>6, <1>7, <1>8, <1>9, <1>10, <1>11,
     <1>12, <1>13 DEF ChannelJob!Next

(* A listed job ticks, a worker nobody can list or cancel has been told to *)
(* stop by its owner, and it begins at most one tick more, however many    *)
(* jobs and cancellations there are (start_channel_job and                 *)
(* cancel_channel_job in server.rs).                                       *)
THEOREM JobsHold == TasksSpec => []JobsAccounted
<1>1. ChannelJob!Spec => []ChannelJob!IInv
  BY JobsInit, JobsNext, PTL DEF ChannelJob!Spec
<1>2. ChannelJob!IInv => JobsAccounted
  BY DEF ChannelJob!IInv, ChannelJob!LateInv, ChannelJob!OneLateTick, JobsAccounted
<1> QED
  BY <1>1, <1>2, PartsRun, PTL

----------------------------------------------------------------------------
(* RuntimeSessions *)

(* Cardinality means the same in RuntimeSessions. *)
LEMMA SessionsCardinality ==
  ASSUME NEW S
  PROVE  Runtime!Cardinality(S) = Cardinality(S)
  BY DEF Runtime!Cardinality, Cardinality

(* The same for finite sets. *)
LEMMA SessionsFinite ==
  ASSUME NEW S
  PROVE  Runtime!IsFiniteSet(S) = IsFiniteSet(S)
  BY DEF Runtime!IsFiniteSet, IsFiniteSet

(* The points of the calls, without the counters. *)
LEMMA SessionsSteady ==
  /\ Runtime!TypeOK /\ Runtime!CreatedInv /\ Runtime!TerminatorsInv
  /\ Runtime!TerminatedOnce
  /\ [Runtime!Next]_(Runtime!vars)
  => /\ Runtime!TypeOK' /\ Runtime!CreatedInv' /\ Runtime!TerminatorsInv'
     /\ Runtime!TerminatedOnce'
<1> DEFINE Inv == /\ Runtime!TypeOK /\ Runtime!CreatedInv
                  /\ Runtime!TerminatorsInv /\ Runtime!TerminatedOnce
<1> SUFFICES ASSUME Inv, [Runtime!Next]_(Runtime!vars)
             PROVE  Inv'
  OBVIOUS
<1> USE TasksAssumption
    DEF Runtime!RuntimeSessionsAssumption, Runtime!TypeOK, Runtime!CreatedInv,
        Runtime!TerminatorsInv, Runtime!TerminatedOnce, Runtime!Running,
        Runtime!LoopGoes, Runtime!LoopEnds, Runtime!CreatorGoes,
        Runtime!Terminating, Runtime!TerminatorGoes, Runtime!Idle,
        Runtime!LoopPoints, Runtime!counters
<1>1. ASSUME NEW i \in Ids, Runtime!Initialize(i)
      PROVE  Inv'
  BY <1>1 DEF Runtime!Initialize
<1>2. ASSUME NEW i \in Ids, Runtime!Configure(i)
      PROVE  Inv'
  BY <1>2 DEF Runtime!Configure
<1>3. ASSUME NEW i \in Ids, Runtime!Connect(i)
      PROVE  Inv'
  BY <1>3 DEF Runtime!Connect
<1>4. ASSUME NEW i \in Ids, Runtime!Insert(i)
      PROVE  Inv'
  BY <1>4 DEF Runtime!Insert
<1>5. ASSUME NEW i \in Ids, Runtime!DropCreate(i)
      PROVE  Inv'
  BY <1>5 DEF Runtime!DropCreate
<1>6. ASSUME NEW i \in Ids, Runtime!LoopTop(i)
      PROVE  Inv'
  <2>1. /\ session_loop[i].pc \notin {"none", "ended"}
        /\ session_loop' \in [Ids -> [pc : Runtime!LoopPoints, attempt : 0..MaxAttempts]]
        /\ session_loop'[i].pc # "none"
        /\ \A k \in Ids \ {i} : session_loop'[k] = session_loop[k]
        /\ UNCHANGED <<table, session_shutdown, tracking, creator, terminator,
                       closed, attempts, successes, failures, losses, released>>
        /\ abandoned' \in Nat
    BY <1>6 DEF Runtime!LoopTop
  <2> QED
    BY <2>1
<1>7. ASSUME NEW i \in Ids, Runtime!RunEnds(i)
      PROVE  Inv'
  BY <1>7 DEF Runtime!RunEnds
<1>8. ASSUME NEW i \in Ids, Runtime!Retry(i)
      PROVE  Inv'
  <2>1. CASE i \in session_shutdown
    BY <1>8, <2>1 DEF Runtime!Retry
  <2>2. CASE i \notin session_shutdown
    BY <1>8, <2>2 DEF Runtime!Retry
  <2> QED
    BY <2>1, <2>2
<1>9. ASSUME NEW i \in Ids, Runtime!Wake(i)
      PROVE  Inv'
  <2>1. /\ session_loop[i].pc \notin {"none", "ended"}
        /\ session_loop' \in [Ids -> [pc : Runtime!LoopPoints, attempt : 0..MaxAttempts]]
        /\ session_loop'[i].pc # "none"
        /\ \A k \in Ids \ {i} : session_loop'[k] = session_loop[k]
        /\ UNCHANGED <<table, session_shutdown, tracking, creator, terminator,
                       closed, attempts, successes, failures, losses, released>>
        /\ abandoned' \in Nat
    BY <1>9 DEF Runtime!Wake
  <2> QED
    BY <2>1
<1>10. ASSUME NEW i \in Ids, Runtime!DialFails(i)
      PROVE  Inv'
  BY <1>10 DEF Runtime!DialFails
<1>11. ASSUME NEW i \in Ids, Runtime!DialSucceeds(i)
      PROVE  Inv'
  BY <1>11 DEF Runtime!DialSucceeds
<1>12. ASSUME NEW t \in Terminators, Runtime!Remove(t)
      PROVE  Inv'
  BY <1>12 DEF Runtime!Remove
<1>13. ASSUME NEW t \in Terminators, Runtime!ClearTracking(t)
      PROVE  Inv'
  BY <1>13 DEF Runtime!ClearTracking
<1>14. ASSUME NEW t \in Terminators, Runtime!Close(t)
      PROVE  Inv'
  BY <1>14 DEF Runtime!Close
<1>15. ASSUME NEW t \in Terminators, Runtime!Abort(t)
      PROVE  Inv'
  BY <1>15 DEF Runtime!Abort
<1>16. ASSUME NEW t \in Terminators, Runtime!DropTerminate(t)
      PROVE  Inv'
  BY <1>16 DEF Runtime!DropTerminate
<1>17. CASE UNCHANGED Runtime!vars
  BY <1>17 DEF Runtime!vars
<1> QED
  BY <1>1, <1>2, <1>3, <1>4, <1>5, <1>6, <1>7, <1>8, <1>9, <1>10, <1>11, <1>12,
     <1>13, <1>14, <1>15, <1>16, <1>17
     DEF Runtime!Next, Runtime!LoopStep, Runtime!TerminateStep

(* What a step does to the attempts in progress. *)
LEMMA AttemptEnds ==
  ASSUME NEW i \in Ids, Runtime!TypeOK, Runtime!TypeOK',
         \A k \in Ids \ {i} : session_loop'[k] = session_loop[k],
         session_loop'[i].pc \notin Runtime!Waiting,
         IsFiniteSet(Runtime!Attempting)
  PROVE  /\ IsFiniteSet(Runtime!Attempting')
         /\ Cardinality(Runtime!Attempting) =
              Cardinality(Runtime!Attempting')
                + IF session_loop[i].pc \in Runtime!Waiting THEN 1 ELSE 0
<1>1. Runtime!Attempting' = Runtime!Attempting \ {i}
  BY DEF Runtime!Attempting
<1>2. i \in Runtime!Attempting <=> session_loop[i].pc \in Runtime!Waiting
  BY DEF Runtime!Attempting
<1>3. Cardinality(Runtime!Attempting) \in Nat
  BY FS_CardinalityType
<1>4. /\ IsFiniteSet(Runtime!Attempting \ {i})
      /\ Cardinality(Runtime!Attempting \ {i}) =
           IF i \in Runtime!Attempting THEN Cardinality(Runtime!Attempting) - 1
           ELSE Cardinality(Runtime!Attempting)
  BY FS_RemoveElement
<1> QED
  BY <1>1, <1>2, <1>3, <1>4

(* The other way around. *)
LEMMA AttemptGoesOn ==
  ASSUME NEW i \in Ids, Runtime!TypeOK, Runtime!TypeOK',
         \A k \in Ids \ {i} : session_loop'[k] = session_loop[k],
         session_loop'[i].pc \in Runtime!Waiting,
         IsFiniteSet(Runtime!Attempting)
  PROVE  /\ IsFiniteSet(Runtime!Attempting')
         /\ Cardinality(Runtime!Attempting') =
              Cardinality(Runtime!Attempting)
                + IF session_loop[i].pc \in Runtime!Waiting THEN 0 ELSE 1
<1>1. Runtime!Attempting' = Runtime!Attempting \cup {i}
  BY DEF Runtime!Attempting
<1>2. i \in Runtime!Attempting <=> session_loop[i].pc \in Runtime!Waiting
  BY DEF Runtime!Attempting
<1>3. Cardinality(Runtime!Attempting) \in Nat
  BY FS_CardinalityType
<1>4. /\ IsFiniteSet(Runtime!Attempting \cup {i})
      /\ Cardinality(Runtime!Attempting \cup {i}) =
           IF i \in Runtime!Attempting THEN Cardinality(Runtime!Attempting)
           ELSE Cardinality(Runtime!Attempting) + 1
  BY FS_AddElement
<1> QED
  BY <1>1, <1>2, <1>3, <1>4

(* The counters of the diagnostics. *)
LEMMA CountersNext ==
  ASSUME Runtime!TypeOK, Runtime!TypeOK', Runtime!CreatedInv,
         Runtime!TerminatorsInv, IsFiniteSet(Runtime!Attempting),
         Runtime!AttemptsAccounted, [Runtime!Next]_(Runtime!vars)
  PROVE  IsFiniteSet(Runtime!Attempting') /\ Runtime!AttemptsAccounted'
<1> DEFINE Goal == IsFiniteSet(Runtime!Attempting') /\ Runtime!AttemptsAccounted'
<1>1. /\ attempts = successes + failures + abandoned
                     + Cardinality(Runtime!Attempting)
      /\ Runtime!AttemptsAccounted' <=>
           attempts' = successes' + failures' + abandoned'
                         + Cardinality(Runtime!Attempting')
  BY SessionsCardinality DEF Runtime!AttemptsAccounted
<1>2. /\ Cardinality(Runtime!Attempting) \in Nat
      /\ IsFiniteSet(Runtime!Attempting') =>
           Cardinality(Runtime!Attempting') \in Nat
  BY FS_CardinalityType
<1>3. ASSUME UNCHANGED <<session_loop, attempts, successes, failures, abandoned>>
      PROVE  Goal
  BY <1>3 DEF Runtime!AttemptsAccounted, Runtime!Attempting
<1>4. ASSUME NEW i \in Ids, Runtime!LoopTop(i) \/ Runtime!RunEnds(i)
      PROVE  Goal
  <2>1. /\ \A k \in Ids \ {i} : session_loop'[k] = session_loop[k]
        /\ session_loop'[i].pc \notin Runtime!Waiting
        /\ session_loop[i].pc \notin Runtime!Waiting
        /\ UNCHANGED <<attempts, successes, failures, abandoned>>
    BY <1>4 DEF Runtime!LoopTop, Runtime!RunEnds, Runtime!LoopEnds,
       Runtime!Waiting, Runtime!TypeOK, Runtime!counters
  <2>2. /\ IsFiniteSet(Runtime!Attempting')
        /\ Cardinality(Runtime!Attempting) = Cardinality(Runtime!Attempting') + 0
    BY <2>1, AttemptEnds
  <2> QED
    BY <1>1, <1>2, <2>1, <2>2
<1>5. ASSUME NEW i \in Ids, Runtime!Retry(i)
      PROVE  Goal
  <2>1. /\ \A k \in Ids \ {i} : session_loop'[k] = session_loop[k]
        /\ session_loop[i].pc \notin Runtime!Waiting
        /\ UNCHANGED <<successes, failures, abandoned>>
    BY <1>5 DEF Runtime!Retry, Runtime!LoopEnds, Runtime!LoopGoes,
       Runtime!Waiting, Runtime!TypeOK
  <2>2. CASE i \in session_shutdown
    <3>1. session_loop'[i].pc \notin Runtime!Waiting /\ UNCHANGED attempts
      BY <1>5, <2>2 DEF Runtime!Retry, Runtime!LoopEnds, Runtime!Waiting,
         Runtime!TypeOK
    <3>2. /\ IsFiniteSet(Runtime!Attempting')
          /\ Cardinality(Runtime!Attempting) =
               Cardinality(Runtime!Attempting') + 0
      BY <2>1, <3>1, AttemptEnds
    <3> QED
      BY <1>1, <1>2, <2>1, <3>1, <3>2
  <2>3. CASE i \notin session_shutdown
    <3>1. session_loop'[i].pc \in Runtime!Waiting /\ attempts' = attempts + 1
      BY <1>5, <2>3 DEF Runtime!Retry, Runtime!LoopGoes, Runtime!Waiting,
         Runtime!TypeOK
    <3>2. /\ IsFiniteSet(Runtime!Attempting')
          /\ Cardinality(Runtime!Attempting') =
               Cardinality(Runtime!Attempting) + 1
      BY <2>1, <3>1, AttemptGoesOn
    <3> QED
      BY <1>1, <1>2, <2>1, <3>1, <3>2 DEF Runtime!TypeOK
  <2> QED
    BY <2>2, <2>3
<1>6. ASSUME NEW i \in Ids, Runtime!Wake(i)
      PROVE  Goal
  <2>1. /\ \A k \in Ids \ {i} : session_loop'[k] = session_loop[k]
        /\ session_loop[i].pc \in Runtime!Waiting
        /\ UNCHANGED <<attempts, successes, failures>>
    BY <1>6 DEF Runtime!Wake, Runtime!LoopEnds, Runtime!LoopGoes,
       Runtime!Waiting, Runtime!TypeOK, Runtime!counters
  <2>2. CASE i \in session_shutdown
    <3>1. /\ session_loop'[i].pc \notin Runtime!Waiting
          /\ abandoned' = abandoned + 1
      BY <1>6, <2>2 DEF Runtime!Wake, Runtime!LoopEnds, Runtime!Waiting,
         Runtime!TypeOK
    <3>2. /\ IsFiniteSet(Runtime!Attempting')
          /\ Cardinality(Runtime!Attempting) =
               Cardinality(Runtime!Attempting') + 1
      BY <2>1, <3>1, AttemptEnds
    <3> QED
      BY <1>1, <1>2, <2>1, <3>1, <3>2 DEF Runtime!TypeOK
  <2>3. CASE i \notin session_shutdown
    <3>1. session_loop'[i].pc \in Runtime!Waiting /\ UNCHANGED abandoned
      BY <1>6, <2>3 DEF Runtime!Wake, Runtime!LoopGoes, Runtime!Waiting,
         Runtime!TypeOK
    <3>2. /\ IsFiniteSet(Runtime!Attempting')
          /\ Cardinality(Runtime!Attempting') =
               Cardinality(Runtime!Attempting) + 0
      BY <2>1, <3>1, AttemptGoesOn
    <3> QED
      BY <1>1, <1>2, <2>1, <3>1, <3>2
  <2> QED
    BY <2>2, <2>3
<1>7. ASSUME NEW i \in Ids, Runtime!DialFails(i) \/ Runtime!DialSucceeds(i)
      PROVE  Goal
  <2>1. /\ \A k \in Ids \ {i} : session_loop'[k] = session_loop[k]
        /\ session_loop'[i].pc \notin Runtime!Waiting
        /\ session_loop[i].pc \in Runtime!Waiting
        /\ UNCHANGED <<attempts, abandoned>>
        /\ \/ failures' = failures + 1 /\ UNCHANGED successes
           \/ successes' = successes + 1 /\ UNCHANGED failures
    BY <1>7 DEF Runtime!DialFails, Runtime!DialSucceeds, Runtime!LoopEnds,
       Runtime!LoopGoes, Runtime!Waiting, Runtime!TypeOK
  <2>2. /\ IsFiniteSet(Runtime!Attempting')
        /\ Cardinality(Runtime!Attempting) = Cardinality(Runtime!Attempting') + 1
    BY <2>1, AttemptEnds
  <2> QED
    BY <1>1, <1>2, <2>1, <2>2 DEF Runtime!TypeOK
<1>8. ASSUME NEW i \in Ids, Runtime!Connect(i)
      PROVE  Goal
  <2>1. CASE UNCHANGED session_loop
    BY <1>3, <1>8, <2>1 DEF Runtime!Connect, Runtime!counters
  <2>2. CASE Runtime!LoopGoes(i, "top")
    <3>1. /\ \A k \in Ids \ {i} : session_loop'[k] = session_loop[k]
          /\ session_loop'[i].pc \notin Runtime!Waiting
          /\ session_loop[i].pc \notin Runtime!Waiting
          /\ UNCHANGED <<attempts, successes, failures, abandoned>>
      BY <1>8, <2>2 DEF Runtime!Connect, Runtime!LoopGoes, Runtime!Waiting,
         Runtime!TypeOK, Runtime!CreatedInv, Runtime!counters
    <3>2. /\ IsFiniteSet(Runtime!Attempting')
          /\ Cardinality(Runtime!Attempting) =
               Cardinality(Runtime!Attempting') + 0
      BY <3>1, AttemptEnds
    <3> QED
      BY <1>1, <1>2, <3>1, <3>2
  <2> QED
    BY <1>8, <2>1, <2>2 DEF Runtime!Connect
<1>9. ASSUME NEW t \in Terminators, Runtime!Abort(t)
      PROVE  Goal
  <2>1. PICK i \in Ids : i = terminator[t].id
    BY <1>9 DEF Runtime!Abort, Runtime!Terminating, Runtime!TypeOK,
       Runtime!TerminatorsInv
  <2>2. /\ \A k \in Ids \ {i} : session_loop'[k] = session_loop[k]
        /\ session_loop'[i].pc \notin Runtime!Waiting
        /\ UNCHANGED <<attempts, successes, failures>>
        /\ abandoned' = abandoned
             + IF session_loop[i].pc \in Runtime!Waiting THEN 1 ELSE 0
    BY <1>9, <2>1 DEF Runtime!Abort, Runtime!LoopEnds, Runtime!Waiting,
       Runtime!TypeOK, Runtime!counters
  <2>3. /\ IsFiniteSet(Runtime!Attempting')
        /\ Cardinality(Runtime!Attempting) = Cardinality(Runtime!Attempting')
             + IF session_loop[i].pc \in Runtime!Waiting THEN 1 ELSE 0
    BY <2>2, AttemptEnds
  <2> QED
    BY <1>1, <1>2, <2>2, <2>3 DEF Runtime!TypeOK
<1>10. CASE \/ \E i \in Ids : \/ Runtime!Initialize(i) \/ Runtime!Configure(i)
                              \/ Runtime!Insert(i) \/ Runtime!DropCreate(i)
            \/ \E t \in Terminators :
                 \/ Runtime!Remove(t) \/ Runtime!ClearTracking(t)
                 \/ Runtime!Close(t) \/ Runtime!DropTerminate(t)
            \/ UNCHANGED Runtime!vars
  BY <1>3, <1>10
     DEF Runtime!Initialize, Runtime!Configure, Runtime!Insert,
         Runtime!DropCreate, Runtime!Remove, Runtime!ClearTracking,
         Runtime!Close, Runtime!DropTerminate, Runtime!counters, Runtime!vars
<1> QED
  BY <1>4, <1>5, <1>6, <1>7, <1>8, <1>9, <1>10
     DEF Runtime!Next, Runtime!LoopStep, Runtime!TerminateStep

(* The invariant of RuntimeSessions is inductive. *)
LEMMA SessionsInductive == Runtime!Spec => []Runtime!IInv
<1>1. Runtime!Init => Runtime!IInv
  <2> HAVE Runtime!Init
  <2>1. Runtime!Attempting = {}
    BY DEF Runtime!Init, Runtime!Attempting, Runtime!Waiting
  <2>2. Runtime!IsFiniteSet(Runtime!Attempting) /\ Runtime!AttemptsAccounted
    BY <2>1, FS_EmptySet, SessionsCardinality, SessionsFinite
       DEF Runtime!Init, Runtime!AttemptsAccounted
  <2> QED
    BY <2>2, TasksAssumption
       DEF Runtime!RuntimeSessionsAssumption, Runtime!Init, Runtime!IInv,
           Runtime!TypeOK, Runtime!CreatedInv, Runtime!TerminatorsInv,
           Runtime!TerminatedOnce, Runtime!Running, Runtime!LoopPoints
<1>2. Runtime!IInv /\ [Runtime!Next]_(Runtime!vars) => Runtime!IInv'
  <2> SUFFICES ASSUME Runtime!IInv, [Runtime!Next]_(Runtime!vars)
               PROVE  Runtime!IInv'
    OBVIOUS
  <2>1. /\ Runtime!TypeOK' /\ Runtime!CreatedInv' /\ Runtime!TerminatorsInv'
        /\ Runtime!TerminatedOnce'
    BY SessionsSteady DEF Runtime!IInv
  <2>2. IsFiniteSet(Runtime!Attempting)
    BY SessionsFinite DEF Runtime!IInv
  <2>3. IsFiniteSet(Runtime!Attempting') /\ Runtime!AttemptsAccounted'
    BY <2>1, <2>2, CountersNext DEF Runtime!IInv
  <2>4. Runtime!IsFiniteSet(Runtime!Attempting')
    BY <2>3, SessionsFinite
  <2> QED
    BY <2>1, <2>3, <2>4 DEF Runtime!IInv
<1> QED
  BY <1>1, <1>2, PTL DEF Runtime!Spec

(* A session is terminated once and its loop has ended, and the counters   *)
(* of the reconnect attempts add up, whoever aborts a loop in a backoff    *)
(* (terminate_session and spawn_runtime_loop in main.rs).                  *)
THEOREM SessionsHold == TasksSpec => []SessionsAccounted
<1>1. Runtime!IInv => SessionsAccounted
  BY DEF Runtime!IInv, SessionsAccounted
<1> QED
  BY <1>1, PartsRun, SessionsInductive, PTL

(* A session that is being terminated dials the provider at most once      *)
(* more, even if it is told so in the middle of a backoff (main.rs,        *)
(* reconnect_with_backoff).                                                *)
THEOREM NoDialAfterShutdown == TasksSpec => Runtime!NoNewDial
<1> DEFINE Dials == \A i \in session_shutdown :
                      session_loop'[i].pc \in {"sleep", "dial"} =>
                        session_loop[i].pc = session_loop'[i].pc
<1>1. Runtime!IInv /\ [Runtime!Next]_(Runtime!vars) => [Dials]_(Runtime!vars)
  <2> SUFFICES ASSUME Runtime!IInv, Runtime!Next,
                      NEW i \in session_shutdown,
                      session_loop'[i].pc \in {"sleep", "dial"}
               PROVE  session_loop[i].pc = session_loop'[i].pc
    OBVIOUS
  <2>1. /\ session_loop \in [Ids -> [pc : Runtime!LoopPoints,
                                     attempt : 0 .. MaxAttempts]]
        /\ i \in Ids /\ Runtime!TypeOK /\ Runtime!TerminatorsInv
    BY DEF Runtime!IInv, Runtime!TypeOK
  <2>2. CASE UNCHANGED session_loop
    BY <2>2
  <2>3. ASSUME NEW k \in Ids, Runtime!LoopStep(k)
        PROVE  session_loop[i].pc = session_loop'[i].pc
    BY <2>1, <2>3
       DEF Runtime!LoopStep, Runtime!LoopTop, Runtime!RunEnds, Runtime!Retry,
           Runtime!Wake, Runtime!DialFails, Runtime!DialSucceeds,
           Runtime!LoopGoes, Runtime!LoopEnds
  <2>4. ASSUME NEW k \in Ids, Runtime!Connect(k)
        PROVE  session_loop[i].pc = session_loop'[i].pc
    BY <2>1, <2>4 DEF Runtime!Connect, Runtime!LoopGoes
  <2>5. ASSUME NEW t \in Terminators, Runtime!Abort(t)
        PROVE  session_loop[i].pc = session_loop'[i].pc
    BY <2>1, <2>5 DEF Runtime!Abort, Runtime!LoopEnds
  <2> QED
    BY <2>2, <2>3, <2>4, <2>5
       DEF Runtime!Next, Runtime!Initialize, Runtime!Configure, Runtime!Insert,
           Runtime!DropCreate, Runtime!TerminateStep, Runtime!Remove,
           Runtime!ClearTracking, Runtime!Close, Runtime!DropTerminate
<1> QED
  BY <1>1, PartsRun, SessionsInductive, PTL DEF Runtime!Spec, Runtime!NoNewDial

(* If no handler is dropped, every loop that runs is in the table or has a *)
(* handler that will put it there or end it (create_session and            *)
(* terminate_session in main.rs).                                          *)
THEOREM EveryLoopIsOwned ==
  Droppable = {} => (TasksSpec => []Runtime!LoopsOwned)
<1> SUFFICES ASSUME Droppable = {}
             PROVE  TasksSpec => []Runtime!LoopsOwned
  OBVIOUS
<1> USE TasksAssumption
    DEF Runtime!RuntimeSessionsAssumption, Runtime!IInv, Runtime!TypeOK,
        Runtime!CreatedInv, Runtime!TerminatorsInv, Runtime!LoopsOwned,
        Runtime!Running, Runtime!LoopGoes, Runtime!LoopEnds,
        Runtime!CreatorGoes, Runtime!Terminating, Runtime!TerminatorGoes,
        Runtime!Idle, Runtime!LoopPoints, Runtime!counters
<1>1. Runtime!Init => Runtime!LoopsOwned
  BY DEF Runtime!Init
<1>2. /\ Runtime!IInv /\ Runtime!LoopsOwned /\ [Runtime!Next]_(Runtime!vars)
      => Runtime!LoopsOwned'
  <2> SUFFICES ASSUME Runtime!IInv, Runtime!LoopsOwned,
                      [Runtime!Next]_(Runtime!vars)
               PROVE  Runtime!LoopsOwned'
    OBVIOUS
  <2>1. ASSUME NEW i \in Ids,
               \/ Runtime!Initialize(i) \/ Runtime!Configure(i)
               \/ Runtime!Connect(i) \/ Runtime!Insert(i)
        PROVE  Runtime!LoopsOwned'
    BY <2>1 DEF Runtime!Initialize, Runtime!Configure, Runtime!Connect,
       Runtime!Insert
  <2>2. ASSUME NEW i \in Ids, Runtime!LoopStep(i)
        PROVE  Runtime!LoopsOwned'
    <3>1. /\ Runtime!Running(i) /\ UNCHANGED <<table, creator, terminator>>
          /\ \A k \in Ids \ {i} : session_loop'[k] = session_loop[k]
      BY <2>2 DEF Runtime!LoopStep, Runtime!LoopTop, Runtime!RunEnds,
         Runtime!Retry, Runtime!Wake, Runtime!DialFails, Runtime!DialSucceeds
    <3> QED
      BY <3>1
  <2>3. ASSUME NEW t \in Terminators, Runtime!Remove(t)
        PROVE  Runtime!LoopsOwned'
    BY <2>3 DEF Runtime!Remove
  <2>4. ASSUME NEW t \in Terminators,
               Runtime!ClearTracking(t) \/ Runtime!Close(t)
        PROVE  Runtime!LoopsOwned'
    BY <2>4 DEF Runtime!ClearTracking, Runtime!Close
  <2>5. ASSUME NEW t \in Terminators, Runtime!Abort(t)
        PROVE  Runtime!LoopsOwned'
    BY <2>5 DEF Runtime!Abort
  <2>6. CASE UNCHANGED Runtime!vars
    BY <2>6 DEF Runtime!vars
  <2> QED
    BY <2>1, <2>2, <2>3, <2>4, <2>5, <2>6
       DEF Runtime!Next, Runtime!TerminateStep, Runtime!DropCreate,
           Runtime!DropTerminate
<1> QED
  BY PartsRun, <1>1, <1>2, SessionsInductive, PTL DEF Runtime!Spec

----------------------------------------------------------------------------
(* EventForwarder *)

(* Cardinality means the same in EventForwarder. *)
LEMMA EventsCardinality ==
  ASSUME NEW S
  PROVE  Spoken!Cardinality(S) = Cardinality(S)
  BY DEF Spoken!Cardinality, Cardinality

(* Counting one event more. *)
CountUpto(q, k, n) == Cardinality({i \in 1 .. n : q[i] = k})

(* An event more in a list of events. *)
LEMMA OneMore ==
  ASSUME NEW q, NEW k, NEW n \in Nat
  PROVE  /\ CountUpto(q, k, n) \in 0 .. n
         /\ CountUpto(q, k, n + 1) = CountUpto(q, k, n) + IF q[n + 1] = k THEN 1 ELSE 0
<1> USE DEF CountUpto
<1> DEFINE Upto(m) == {i \in 1 .. m : q[i] = k}
<1>1. IsFiniteSet(1 .. n) /\ Cardinality(1 .. n) = n
  BY FS_Interval
<1>2. /\ IsFiniteSet(Upto(n)) /\ Cardinality(Upto(n)) <= n
  BY <1>1, FS_Subset
<1>3. Cardinality(Upto(n)) \in Nat
  BY <1>2, FS_CardinalityType
<1>4. CASE q[n + 1] = k
  <2>1. Upto(n + 1) = Upto(n) \cup {n + 1} /\ n + 1 \notin Upto(n)
    BY <1>4
  <2>2. Cardinality(Upto(n) \cup {n + 1}) = Cardinality(Upto(n)) + 1
    BY <1>2, <2>1, FS_AddElement
  <2> QED
    BY <1>2, <1>3, <1>4, <2>1, <2>2
<1>5. CASE q[n + 1] # k
  <2>1. Upto(n + 1) = Upto(n)
    BY <1>5
  <2> QED
    BY <1>2, <1>3, <1>5, <2>1
<1> QED
  BY <1>4, <1>5

(* How many events are of a kind, as a count over a fixed sequence. *)
LEMMA HowManyIs ==
  ASSUME NEW s, NEW k, NEW n
  PROVE  Spoken!HowMany(s, k, n) = CountUpto(spoken[s], k, n)
<1>1. Spoken!HowMany(s, k, n) = Cardinality({m \in 1 .. n : spoken[s][m] = k})
  BY EventsCardinality DEF Spoken!HowMany
<1> QED
  BY <1>1 DEF CountUpto

(* One event more counts for its own kind. *)
LEMMA HowManyOneMore ==
  ASSUME NEW s, NEW k, NEW n \in Nat
  PROVE  /\ Spoken!HowMany(s, k, n) \in 0 .. n
         /\ Spoken!HowMany(s, k, n + 1) = Spoken!HowMany(s, k, n)
              + IF spoken[s][n + 1] = k THEN 1 ELSE 0
  BY OneMore, HowManyIs

(* A longer sequence counts the same for what was there before. *)
LEMMA HowManyKept ==
  ASSUME NEW s, NEW k, NEW n \in Nat,
         \A m \in 1 .. n : spoken'[s][m] = spoken[s][m]
  PROVE  Spoken!HowMany(s, k, n)' = Spoken!HowMany(s, k, n)
<1>1. {m \in 1 .. n : spoken'[s][m] = k} = {m \in 1 .. n : spoken[s][m] = k}
  OBVIOUS
<1> QED
  BY <1>1, EventsCardinality DEF Spoken!HowMany


(* The type of an element. *)
LEMMA ElementOfSeq ==
  ASSUME NEW S, NEW q \in Seq(S), NEW i \in 1 .. Len(q)
  PROVE  q[i] \in S
  OBVIOUS

(* What waits in a channel is an event of a session. *)
LEMMA EventsTyped ==
  ASSUME Spoken!IInv, NEW k \in Media, NEW i \in 1 .. Len(channel[k])
  PROVE  /\ channel[k][i].session \in Ids /\ channel[k][i].number \in Nat
         /\ channel[k] \in Seq([session : Ids, number : Nat, is_final : BOOLEAN])
<1>1. channel[k] \in Seq([session : Ids, number : Nat, is_final : BOOLEAN])
  BY DEF Spoken!IInv, Spoken!Shapes
<1>2. channel[k][i] \in [session : Ids, number : Nat, is_final : BOOLEAN]
  BY <1>1, ElementOfSeq
<1> QED
  BY <1>1, <1>2

(* Whatever is on file has been handed over. *)
LEMMA FilesAreHanded == Spoken!IInv => Spoken!FilesHanded
  BY DEF Spoken!IInv, Spoken!FilesHanded, Spoken!HandedInv, Spoken!FilesInv,
     Spoken!NumberedAsSpoken, Spoken!Old, Spoken!Latest

(* What a step that leaves the channels and the gateway alone preserves. *)
LEMMA HandedSteady ==
  ASSUME Spoken!IInv, UNCHANGED <<spoken, channel, open, arrived>>,
         \A r \in Ids : event_handler'[r] = "send" => event_handler[r] = "send",
         \A r \in Ids : event_handler[r] # "send"
                          \/ event_handler'[r] = "send"
  PROVE  /\ Spoken!QueuedInv' /\ Spoken!QueueOrder' /\ Spoken!ArrivedFirst'
         /\ Spoken!ArrivedInv' /\ Spoken!HandedInv'
         /\ Spoken!InOrder' /\ Spoken!WithoutGaps'
<1>1. \A r \in Ids : \A n : Spoken!Old(r, n)' = Spoken!Old(r, n)
  BY DEF Spoken!Old, Spoken!Latest
<1>2. \A r \in Ids : \A k, n : Spoken!Handed(r, k, n)' = Spoken!Handed(r, k, n)
  BY DEF Spoken!Handed
<1>4. Spoken!QueuedInv' /\ Spoken!QueueOrder' /\ Spoken!ArrivedFirst'
  BY <1>1 DEF Spoken!IInv, Spoken!QueuedInv, Spoken!QueueOrder,
     Spoken!ArrivedFirst
<1>5. Spoken!ArrivedInv'
  BY <1>1 DEF Spoken!IInv, Spoken!ArrivedInv
<1>6. Spoken!HandedInv'
  BY <1>1, <1>2 DEF Spoken!IInv, Spoken!HandedInv, Spoken!Latest
<1>7. Spoken!InOrder' /\ Spoken!WithoutGaps'
  BY DEF Spoken!IInv, Spoken!InOrder, Spoken!WithoutGaps, Spoken!Alike,
     Spoken!Latest
<1> QED
  BY <1>4, <1>5, <1>6, <1>7

(* Numbers do not change while nobody speaks. *)
LEMMA CountsSteady ==
  ASSUME UNCHANGED spoken
  PROVE  \A r, k, n : Spoken!HowMany(r, k, n)' = Spoken!HowMany(r, k, n)
  BY DEF Spoken!HowMany

(* A new event of the provider. *)
LEMMA SpeakKeeps ==
  ASSUME Spoken!IInv, NEW s \in Ids, NEW k \in Media, Spoken!Speak(s, k)
  PROVE  Spoken!IInv'
<1> USE DEF Spoken!Latest
<1>0. /\ event_handler[s] = "idle" /\ Len(spoken[s]) < MaxSpoken
      /\ UNCHANGED <<channel, open, taken, sequence, files, outbox, arrived>>
  BY DEF Spoken!Speak, Spoken!gateway
<1>1. /\ event_handler[s] = "idle" /\ Len(spoken[s]) < MaxSpoken
      /\ spoken' = [spoken EXCEPT ![s] = Append(spoken[s], k)]
      /\ event_handler' = [event_handler EXCEPT ![s] = "send"]
      /\ UNCHANGED <<channel, open, taken, sequence, files, outbox, arrived>>
  BY DEF Spoken!Speak, Spoken!Go, Spoken!gateway
<1>2. /\ spoken \in [Ids -> Seq(Media)] /\ spoken' \in [Ids -> Seq(Media)]
      /\ \A r \in Ids \ {s} : spoken'[r] = spoken[r]
                                /\ event_handler'[r] = event_handler[r]
      /\ Len(spoken'[s]) = Len(spoken[s]) + 1
      /\ spoken'[s][Len(spoken[s]) + 1] = k
      /\ event_handler'[s] = "send"
  BY <1>1 DEF Spoken!IInv, Spoken!TypeOK
<1>3. \A r \in Ids :
        /\ Len(spoken[r]) \in Nat
        /\ \A n \in 1 .. Len(spoken[r]) : spoken'[r][n] = spoken[r][n]
  <2> TAKE r \in Ids
  <2>1. CASE r # s
    BY <1>2, <2>1
  <2>2. CASE r = s
    <3>1. spoken[s] \in Seq(Media) /\ spoken'[s] = Append(spoken[s], k)
      BY <1>1, <1>2
    <3> QED
      BY <2>2, <3>1
  <2> QED
    BY <2>1, <2>2
<1>4. \A r \in Ids, h \in Media, n \in Nat : n <= Len(spoken[r]) =>
        Spoken!HowMany(r, h, n)' = Spoken!HowMany(r, h, n)
  BY <1>3, HowManyKept
<1>5. \A r \in Ids : \A n : Spoken!Old(r, n)' <=> n \in 1 .. Len(spoken[r])
        /\ (r # s => Spoken!Old(r, n))
  BY <1>1, <1>2, <1>3 DEF Spoken!Old
<1>6. \A r \in Ids : \A n : Spoken!Old(r, n) => Spoken!Old(r, n)'
  BY <1>3, <1>5 DEF Spoken!Old
<1>7. \A r \in Ids : \A h, n : Spoken!Handed(r, h, n)' = Spoken!Handed(r, h, n)
  BY <1>1 DEF Spoken!Handed
<1>8. Spoken!TypeOK'
  BY <1>1, <1>2 DEF Spoken!IInv, Spoken!TypeOK
<1>9. Spoken!Shapes'
  <2>1. \A r \in Ids : Len(spoken'[r]) <= MaxSpoken /\ Len(spoken'[s]) > 0
    <3>1. /\ MaxSpoken \in Nat /\ Len(spoken[s]) \in Nat
          /\ Len(spoken[s]) < MaxSpoken /\ Len(spoken'[s]) = Len(spoken[s]) + 1
      BY <1>0, <1>2, <1>3, TasksAssumption DEF Spoken!EventForwarderAssumption
    <3>2. \A r \in Ids : Len(spoken[r]) <= MaxSpoken
      BY DEF Spoken!IInv, Spoken!Shapes
    <3>3. ASSUME NEW r \in Ids
          PROVE  Len(spoken'[r]) <= MaxSpoken
      <4>1. r # s => spoken'[r] = spoken[r]
        BY <1>2
      <4> QED
        BY <3>1, <3>2, <4>1
    <3> QED
      BY <3>1, <3>3
  <2>2. \A r \in Ids : event_handler'[r] # "idle" => Len(spoken'[r]) > 0
    BY <1>2, <2>1 DEF Spoken!IInv, Spoken!Shapes
  <2> QED
    BY <1>0, <2>1, <2>2 DEF Spoken!IInv, Spoken!Shapes
<1>10. Spoken!CountsInv'
  <2> SUFFICES ASSUME NEW r \in Ids, NEW h \in Media
               PROVE  sequence[r][h] = Spoken!HowMany(r, h, Spoken!Counted(r))'
    BY <1>0 DEF Spoken!CountsInv
  <2>1. /\ Spoken!Counted(r)' = Spoken!Counted(r)
        /\ Spoken!Counted(r) \in 0 .. Len(spoken[r])
    <3>1. Len(spoken[r]) \in Nat /\ (event_handler[r] # "idle" => Len(spoken[r]) > 0)
      BY <1>3 DEF Spoken!IInv, Spoken!Shapes
    <3>2. CASE r = s
      <4>1. /\ Len(spoken'[s]) = Len(spoken[s]) + 1
            /\ event_handler[s] = "idle" /\ event_handler'[s] = "send"
        BY <1>0, <1>2
      <4>2. /\ Spoken!Counted(s) = Len(spoken[s])
            /\ Spoken!Counted(s)' = Len(spoken'[s]) - 1
        BY <4>1 DEF Spoken!Counted
      <4> QED
        BY <3>1, <3>2, <4>1, <4>2
    <3>3. CASE r # s
      BY <1>2, <3>1, <3>3 DEF Spoken!Counted
    <3> QED
      BY <3>2, <3>3
  <2>2. Spoken!HowMany(r, h, Spoken!Counted(r))' = Spoken!HowMany(r, h, Spoken!Counted(r))
    BY <1>4, <2>1
  <2> QED
    BY <2>2 DEF Spoken!IInv, Spoken!CountsInv
<1>11. Spoken!FilesInv'
  BY <1>1, <1>2, <1>3 DEF Spoken!IInv, Spoken!FilesInv, Spoken!NumberedAsSpoken
<1>12. Spoken!NumberedAsSpoken'
  BY <1>1, <1>2, <1>3, <1>4 DEF Spoken!IInv, Spoken!NumberedAsSpoken
<1>13. Spoken!QueuedInv' /\ Spoken!QueueOrder' /\ Spoken!ArrivedFirst'
  <2>1. Spoken!QueuedInv'
    <3> SUFFICES ASSUME NEW h \in Media, NEW i \in 1 .. Len(channel[h]),
                        NEW r \in Ids, channel[h][i].session = r
                 PROVE  /\ Spoken!Old(r, channel[h][i].number)'
                        /\ spoken'[r][channel[h][i].number] = h
      BY <1>0 DEF Spoken!QueuedInv
    <3>1. Spoken!Old(r, channel[h][i].number) /\ spoken[r][channel[h][i].number] = h
      BY DEF Spoken!IInv, Spoken!QueuedInv
    <3>2. channel[h][i].number \in 1 .. Len(spoken[r])
      BY <3>1 DEF Spoken!Old
    <3> QED
      BY <1>0, <1>3, <1>6, <3>1, <3>2
  <2>2. Spoken!QueueOrder'
    BY <1>0 DEF Spoken!IInv, Spoken!QueueOrder
  <2>3. \A r \in Ids : \A j \in 1 .. Len(arrived[r]) :
          spoken'[r][arrived[r][j]] = spoken[r][arrived[r][j]]
    BY <1>3 DEF Spoken!IInv, Spoken!ArrivedInv, Spoken!Old
  <2>4. Spoken!ArrivedFirst'
    <3>1. Spoken!ArrivedFirst /\ channel' = channel /\ arrived' = arrived
      BY <1>0 DEF Spoken!IInv
    <3> SUFFICES ASSUME NEW h \in Media, NEW i \in 1 .. Len(channel[h]),
                        NEW r \in Ids, channel[h][i].session = r,
                        NEW j \in 1 .. Len(arrived[r]), spoken'[r][arrived[r][j]] = h
                 PROVE  arrived[r][j] < channel[h][i].number
      BY <3>1 DEF Spoken!ArrivedFirst
    <3>2. spoken[r][arrived[r][j]] = h
      BY <2>3
    <3> QED
      BY <3>1, <3>2 DEF Spoken!ArrivedFirst
  <2> QED
    BY <2>1, <2>2, <2>4
<1>14. Spoken!ArrivedInv'
  BY <1>1, <1>6 DEF Spoken!IInv, Spoken!ArrivedInv
<1>15. Spoken!HandedInv'
  <2> SUFFICES ASSUME open', NEW r \in Ids,
                      NEW n \in 1 .. Len(spoken'[r]), Spoken!Old(r, n)'
               PROVE  Spoken!Handed(r, spoken[r][n], n)'
    BY DEF Spoken!HandedInv
  <2>1. n \in 1 .. Len(spoken[r]) /\ Spoken!Old(r, n)
    BY <1>0, <1>5 DEF Spoken!Old
  <2>2. open /\ spoken'[r][n] = spoken[r][n]
    BY <1>0, <1>3, <2>1
  <2>3. Spoken!Handed(r, spoken[r][n], n)
    BY <2>1, <2>2 DEF Spoken!IInv, Spoken!HandedInv
  <2> QED
    BY <1>7, <2>2, <2>3
<1>16. \A r \in Ids : \A i \in 1 .. Len(arrived[r]) :
         arrived[r][i] \in 1 .. Len(spoken[r])
  BY DEF Spoken!IInv, Spoken!ArrivedInv, Spoken!Old
<1>17. Spoken!InOrder'
  <2> SUFFICES ASSUME NEW r \in Ids, NEW i \in 1 .. Len(arrived[r]),
                      NEW j \in 1 .. Len(arrived[r]), i < j,
                      spoken'[r][arrived[r][i]] = spoken'[r][arrived[r][j]]
               PROVE  arrived[r][i] < arrived[r][j]
    BY <1>0 DEF Spoken!InOrder, Spoken!Alike
  <2>1. spoken[r][arrived[r][i]] = spoken[r][arrived[r][j]]
    BY <1>3, <1>16
  <2> QED
    BY <2>1 DEF Spoken!IInv, Spoken!InOrder, Spoken!Alike
<1>18. Spoken!WithoutGaps'
  <2> SUFFICES ASSUME NEW r \in Ids, NEW j \in 1 .. Len(arrived[r]),
                      NEW n \in 1 .. Len(spoken'[r]), n < arrived[r][j],
                      spoken'[r][n] = spoken'[r][arrived[r][j]]
               PROVE  \E i \in 1 .. Len(arrived[r]) : arrived[r][i] = n
    BY <1>0 DEF Spoken!WithoutGaps, Spoken!Alike
  <2>1. n \in 1 .. Len(spoken[r]) /\ arrived[r][j] \in 1 .. Len(spoken[r])
    BY <1>2, <1>3, <1>16
  <2>2. spoken[r][n] = spoken[r][arrived[r][j]]
    BY <1>3, <2>1
  <2> QED
    BY <2>1, <2>2 DEF Spoken!IInv, Spoken!WithoutGaps, Spoken!Alike
<1> QED
  BY <1>8, <1>9, <1>10, <1>11, <1>12, <1>13, <1>14, <1>15, <1>17, <1>18
     DEF Spoken!IInv

(* The handler gives the event to the gateway, or finds it gone. *)
LEMMA SendKeeps ==
  ASSUME Spoken!IInv, NEW s \in Ids, Spoken!Send(s)
  PROVE  Spoken!IInv'
<1> USE DEF Spoken!Latest
<1>0. /\ event_handler[s] = "send"
      /\ UNCHANGED <<spoken, open, taken, sequence, files, outbox, arrived>>
  BY DEF Spoken!Send
<1>1. PICK k \in Media : k = spoken[s][Len(spoken[s])] /\ k = Spoken!Kind(s)
  <2>1. spoken[s] \in Seq(Media) /\ Len(spoken[s]) \in 1 .. Len(spoken[s])
    <3>1. spoken[s] \in Seq(Media)
      BY DEF Spoken!IInv, Spoken!TypeOK
    <3>2. Len(spoken[s]) \in Nat /\ Len(spoken[s]) > 0
      BY <1>0, <3>1 DEF Spoken!IInv, Spoken!Shapes
    <3> QED
      BY <3>1, <3>2
  <2> QED
    BY <2>1, ElementOfSeq DEF Spoken!Kind
<1>2. /\ event_handler'[s] \in {"memory", "count"}
      /\ \A r \in Ids \ {s} : event_handler'[r] = event_handler[r]
      /\ event_handler' \in [Ids -> {"idle", "send", "memory", "count", "save"}]
  BY DEF Spoken!Send, Spoken!Go, Spoken!IInv, Spoken!TypeOK
<1> DEFINE Packet == [session : Ids, number : Nat, is_final : BOOLEAN]
           e == [session |-> s, number |-> Len(spoken[s]), is_final |-> FALSE]
<1>3. \A r \in Ids : Len(spoken[r]) \in Nat
  BY DEF Spoken!IInv, Spoken!TypeOK
<1>4. /\ e \in Packet /\ e.session = s /\ e.number = Len(spoken[s])
  BY <1>3
<1> HIDE DEF e
<1>5. \/ UNCHANGED channel /\ ~open
      \/ /\ open /\ Len(channel[k]) < EventRoom
         /\ channel' = [channel EXCEPT ![k] = Append(channel[k], e)]
  BY <1>1 DEF Spoken!Send, e
<1>6. /\ channel \in [Media -> Seq(Packet)]
      /\ channel' \in [Media -> Seq(Packet)]
  <2>1. channel \in [Media -> Seq(Packet)]
    BY DEF Spoken!IInv, Spoken!Shapes
  <2>2. Append(channel[k], e) \in Seq(Packet)
    <3>1. channel[k] \in Seq(Packet)
      BY <2>1
    <3> HIDE DEF Packet
    <3> QED
      BY <1>4, <3>1
  <2> QED
    BY <1>5, <2>1, <2>2
<1>7. \A h \in Media :
        \/ channel'[h] = channel[h] /\ (h = k => ~open)
        \/ /\ h = k /\ open /\ Len(channel[k]) < EventRoom
           /\ channel'[h] = Append(channel[h], e)
  BY <1>5, <1>6
<1>8. \A h \in Media :
        /\ Len(channel[h]) \in Nat /\ Len(channel'[h]) \in Nat
        /\ Len(channel[h]) <= Len(channel'[h]) /\ Len(channel'[h]) <= EventRoom
        /\ \A i \in 1 .. Len(channel[h]) : channel'[h][i] = channel[h][i]
        /\ \A i \in 1 .. Len(channel'[h]) :
             i \notin 1 .. Len(channel[h]) =>
               h = k /\ i = Len(channel'[h]) /\ channel'[h][i] = e
  <2> TAKE h \in Media
  <2>1. channel[h] \in Seq(Packet) /\ Len(channel[h]) <= EventRoom
    BY <1>6 DEF Spoken!IInv, Spoken!TypeOK
  <2>2. EventRoom \in Nat
    BY TasksAssumption DEF Spoken!EventForwarderAssumption
  <2>3. CASE channel'[h] = channel[h]
    BY <2>1, <2>3
  <2>4. CASE /\ h = k /\ Len(channel[k]) < EventRoom
             /\ channel'[h] = Append(channel[h], e)
    BY <1>4, <2>1, <2>2, <2>4
  <2> QED
    BY <1>7, <2>3, <2>4
<1>9. open => /\ Len(channel'[k]) \in 1 .. Len(channel'[k])
              /\ channel'[k][Len(channel'[k])] = e
  <2>1. channel[k] \in Seq(Packet)
    BY <1>6
  <2>2. open => channel'[k] = Append(channel[k], e)
    BY <1>7
  <2>3. /\ Len(Append(channel[k], e)) \in 1 .. Len(Append(channel[k], e))
        /\ Append(channel[k], e)[Len(Append(channel[k], e))] = e
    BY <1>4, <2>1
  <2> QED
    BY <2>2, <2>3
<1>10. \A r \in Ids : \A n :
         /\ Spoken!Old(r, n) => Spoken!Old(r, n)'
         /\ Spoken!Old(r, n)' => Spoken!Old(r, n) \/ (r = s /\ n = Len(spoken[s]))
  <2> TAKE r \in Ids
  <2> TAKE n
  <2>1. CASE r = s
    BY <1>0, <1>2, <1>3, <2>1 DEF Spoken!Old
  <2>2. CASE r # s
    BY <1>0, <1>2, <1>3, <2>2 DEF Spoken!Old
  <2> QED
    BY <2>1, <2>2
<1>11. \A r \in Ids, h \in Media : \A n :
         Spoken!Handed(r, h, n) => Spoken!Handed(r, h, n)'
  BY <1>0, <1>8 DEF Spoken!Handed
<1>12. Spoken!TypeOK'
  BY <1>0, <1>2, <1>8 DEF Spoken!IInv, Spoken!TypeOK
<1>13. Spoken!Shapes'
  BY <1>0, <1>2, <1>6 DEF Spoken!IInv, Spoken!Shapes
<1>14. Spoken!CountsInv'
  <2>1. \A r \in Ids : Spoken!Counted(r)' = Spoken!Counted(r)
    BY <1>0, <1>2 DEF Spoken!Counted
  <2> QED
    BY <1>0, <2>1, CountsSteady DEF Spoken!IInv, Spoken!CountsInv
<1>15. Spoken!FilesInv'
  BY <1>0, <1>2 DEF Spoken!IInv, Spoken!FilesInv
<1>16. Spoken!NumberedAsSpoken'
  BY <1>0, CountsSteady DEF Spoken!IInv, Spoken!NumberedAsSpoken
<1>17. Spoken!ArrivedInv'
  BY <1>0, <1>10 DEF Spoken!IInv, Spoken!ArrivedInv
<1>18. Spoken!QueuedInv' /\ Spoken!QueueOrder' /\ Spoken!ArrivedFirst'
  <2>1. \A h \in Media : \A i \in 1 .. Len(channel'[h]) :
          \/ /\ i \in 1 .. Len(channel[h])
             /\ channel'[h][i] = channel[h][i]
             /\ channel'[h][i].session = s => channel'[h][i].number < Len(spoken[s])
          \/ /\ h = k /\ i = Len(channel'[h]) /\ channel'[h][i].session = s
             /\ channel'[h][i].number = Len(spoken[s])
    BY <1>0, <1>4, <1>8 DEF Spoken!IInv, Spoken!QueuedInv, Spoken!Old
  <2>2. Spoken!Old(s, Len(spoken[s]))'
    BY <1>0, <1>2, <1>3 DEF Spoken!Old, Spoken!IInv, Spoken!Shapes
  <2>3. \A j \in 1 .. Len(arrived[s]) : arrived[s][j] < Len(spoken[s])
    BY <1>0 DEF Spoken!IInv, Spoken!ArrivedInv, Spoken!Old
  <2>4. Spoken!QueuedInv'
    <3> SUFFICES ASSUME NEW h \in Media, NEW i \in 1 .. Len(channel'[h]),
                        NEW r \in Ids, channel'[h][i].session = r,
                        NEW n, n = channel'[h][i].number
                 PROVE  Spoken!Old(r, n)' /\ spoken[r][n] = h
      BY <1>0 DEF Spoken!QueuedInv
    <3>1. CASE i \in 1 .. Len(channel[h]) /\ channel'[h][i] = channel[h][i]
      BY <1>10, <3>1 DEF Spoken!IInv, Spoken!QueuedInv
    <3>2. CASE /\ h = k /\ channel'[h][i].session = s
               /\ channel'[h][i].number = Len(spoken[s])
      <4>1. r = s /\ n = Len(spoken[s]) /\ n = Len(spoken'[s]) /\ h = k
        BY <1>0, <3>2
      <4>2. Spoken!Old(s, n)'
        BY <2>2, <4>1 DEF Spoken!Old
      <4> QED
        BY <1>1, <4>1, <4>2
    <3> QED
      BY <2>1, <3>1, <3>2
  <2>5. Spoken!QueueOrder'
    <3> SUFFICES ASSUME NEW h \in Media, NEW i \in 1 .. Len(channel'[h]),
                        NEW j \in 1 .. Len(channel'[h]), i < j,
                        channel'[h][i].session = channel'[h][j].session
                 PROVE  channel'[h][i].number < channel'[h][j].number
      BY DEF Spoken!QueueOrder
    <3>1. i \in 1 .. Len(channel[h]) /\ channel'[h][i] = channel[h][i]
      BY <1>8
    <3>2. CASE j \in 1 .. Len(channel[h]) /\ channel'[h][j] = channel[h][j]
      BY <3>1, <3>2 DEF Spoken!IInv, Spoken!QueueOrder
    <3>3. CASE /\ channel'[h][j].session = s
               /\ channel'[h][j].number = Len(spoken[s])
      <4>1. channel'[h][i].session = s /\ channel'[h][i].number < Len(spoken[s])
        BY <2>1, <3>1, <3>3, <1>8
      <4> QED
        BY <3>3, <4>1
    <3> QED
      BY <2>1, <3>2, <3>3
  <2>6. Spoken!ArrivedFirst'
    <3> SUFFICES ASSUME NEW h \in Media, NEW i \in 1 .. Len(channel'[h]),
                        NEW r \in Ids, channel'[h][i].session = r,
                        NEW j \in 1 .. Len(arrived[r]), spoken[r][arrived[r][j]] = h
                 PROVE  arrived[r][j] < channel'[h][i].number
      BY <1>0 DEF Spoken!ArrivedFirst
    <3>1. CASE i \in 1 .. Len(channel[h]) /\ channel'[h][i] = channel[h][i]
      BY <3>1 DEF Spoken!IInv, Spoken!ArrivedFirst
    <3>2. CASE /\ h = k /\ channel'[h][i].session = s
               /\ channel'[h][i].number = Len(spoken[s])
      BY <2>3, <3>2
    <3> QED
      BY <2>1, <3>1, <3>2
  <2> QED
    BY <2>4, <2>5, <2>6
<1>19. Spoken!HandedInv'
  <2> SUFFICES ASSUME open', NEW r \in Ids,
                      NEW n \in 1 .. Len(spoken'[r]), Spoken!Old(r, n)'
               PROVE  Spoken!Handed(r, spoken[r][n], n)'
    BY DEF Spoken!HandedInv
  <2>1. open /\ spoken' = spoken
    BY <1>0
  <2>2. CASE Spoken!Old(r, n)
    <3>1. Spoken!Handed(r, spoken[r][n], n) /\ spoken[r][n] \in Media
      BY <2>1, <2>2, ElementOfSeq
         DEF Spoken!IInv, Spoken!HandedInv, Spoken!TypeOK
    <3> QED
      BY <1>11, <2>1, <3>1
  <2>3. CASE r = s /\ n = Len(spoken[s])
    <3>1. /\ spoken[r][n] = k /\ Len(channel'[k]) \in 1 .. Len(channel'[k])
          /\ channel'[k][Len(channel'[k])].session = r
          /\ channel'[k][Len(channel'[k])].number = n
      BY <1>1, <1>4, <1>9, <2>1, <2>3
    <3>2. Spoken!Handed(r, k, n)'
      BY <3>1 DEF Spoken!Handed
    <3> QED
      BY <2>1, <3>1, <3>2
  <2> QED
    BY <1>10, <2>2, <2>3
<1>20. Spoken!InOrder' /\ Spoken!WithoutGaps'
  BY <1>0 DEF Spoken!IInv, Spoken!InOrder, Spoken!WithoutGaps, Spoken!Alike
<1> QED
  BY <1>12, <1>13, <1>14, <1>15, <1>16, <1>17, <1>18, <1>19, <1>20
     DEF Spoken!IInv

(* The steps of the handler after that: memory, number, file. *)
LEMMA HandlerKeeps ==
  ASSUME Spoken!IInv, NEW s \in Ids,
         Spoken!Remember(s) \/ Spoken!Count(s) \/ Spoken!SaveFile(s)
  PROVE  Spoken!IInv'
<1> USE DEF Spoken!Latest
<1>0. /\ event_handler[s] \in {"memory", "count", "save"}
      /\ event_handler'[s] \in {"count", "save", "idle"}
      /\ \A r \in Ids \ {s} : event_handler'[r] = event_handler[r]
      /\ event_handler' \in [Ids -> {"idle", "send", "memory", "count", "save"}]
      /\ UNCHANGED <<spoken, channel, open, taken, arrived, outbox>>
  BY DEF Spoken!Remember, Spoken!Count, Spoken!SaveFile, Spoken!Go,
     Spoken!gateway, Spoken!IInv, Spoken!TypeOK
<1>1. PICK k \in Media : k = spoken[s][Len(spoken[s])] /\ k = Spoken!Kind(s)
  <2>1. spoken[s] \in Seq(Media)
    BY DEF Spoken!IInv, Spoken!TypeOK
  <2>2. Len(spoken[s]) \in Nat /\ Len(spoken[s]) > 0
    BY <1>0, <2>1 DEF Spoken!IInv, Spoken!Shapes
  <2> QED
    BY <2>1, <2>2, ElementOfSeq DEF Spoken!Kind
<1>2. \A r \in Ids : Len(spoken[r]) \in Nat /\ Len(spoken[r]) <= MaxSpoken
  BY DEF Spoken!IInv, Spoken!TypeOK, Spoken!Shapes
<1>3. Len(spoken[s]) > 0 /\ MaxSpoken \in Nat
  BY <1>0, TasksAssumption
     DEF Spoken!IInv, Spoken!Shapes, Spoken!EventForwarderAssumption
<1>4. /\ Spoken!QueuedInv' /\ Spoken!QueueOrder' /\ Spoken!ArrivedFirst'
      /\ Spoken!ArrivedInv' /\ Spoken!HandedInv'
      /\ Spoken!InOrder' /\ Spoken!WithoutGaps'
  <2>1. \A r \in Ids : event_handler'[r] = "send" <=> event_handler[r] = "send"
    BY <1>0
  <2> QED
    BY <1>0, <2>1, HandedSteady
<1> DEFINE n == Len(spoken[s])
<1>5. \A h \in Media : /\ Spoken!HowMany(s, h, n - 1) \in 0 .. n - 1
        /\ Spoken!HowMany(s, h, n) =
             Spoken!HowMany(s, h, n - 1) + IF h = k THEN 1 ELSE 0
  <2>1. PICK m \in Nat : m + 1 = n /\ m = n - 1
    <3>1. n - 1 \in Nat /\ (n - 1) + 1 = n
      BY <1>2, <1>3
    <3> QED
      BY <3>1
  <2>2. \A h : /\ Spoken!HowMany(s, h, m) \in 0 .. m
               /\ Spoken!HowMany(s, h, m + 1) = Spoken!HowMany(s, h, m)
                    + IF spoken[s][m + 1] = h THEN 1 ELSE 0
    BY <2>1, HowManyOneMore
  <2> HIDE DEF n
  <2>3. spoken[s][n] = k
    BY <1>1 DEF n
  <2> QED
    BY <2>1, <2>2, <2>3
<1>6. ASSUME Spoken!Remember(s)
      PROVE  Spoken!IInv'
  <2>1. /\ UNCHANGED <<sequence, files>>
        /\ event_handler[s] = "memory" /\ event_handler'[s] = "count"
    BY <1>6 DEF Spoken!Remember, Spoken!Go, Spoken!IInv, Spoken!TypeOK
  <2>2. Spoken!TypeOK' /\ Spoken!Shapes'
    <3>1. Spoken!TypeOK'
      BY <1>0, <2>1 DEF Spoken!IInv, Spoken!TypeOK
    <3>2. Spoken!Shapes'
      BY <1>0, <1>3, <2>1 DEF Spoken!IInv, Spoken!Shapes
    <3> QED
      BY <3>1, <3>2
  <2>3. Spoken!CountsInv'
    <3>1. \A r \in Ids : Spoken!Counted(r)' = Spoken!Counted(r)
      BY <1>0, <2>1 DEF Spoken!Counted
    <3> QED
      BY <1>0, <2>1, <3>1, CountsSteady DEF Spoken!IInv, Spoken!CountsInv
  <2>4. Spoken!FilesInv' /\ Spoken!NumberedAsSpoken'
    BY <1>0, <2>1, CountsSteady
       DEF Spoken!IInv, Spoken!FilesInv, Spoken!NumberedAsSpoken
  <2> QED
    BY <1>4, <2>2, <2>3, <2>4 DEF Spoken!IInv
<1>7. ASSUME Spoken!Count(s)
      PROVE  Spoken!IInv'
  <2>1. /\ UNCHANGED files
        /\ event_handler[s] = "count" /\ event_handler'[s] = "save"
        /\ sequence' = [sequence EXCEPT ![s][k] = sequence[s][k] + 1]
    BY <1>1, <1>7 DEF Spoken!Count, Spoken!Go, Spoken!IInv, Spoken!TypeOK
  <2>2. /\ \A r \in Ids \ {s} : sequence'[r] = sequence[r]
        /\ \A h \in Media :
             sequence'[s][h] = sequence[s][h] + IF h = k THEN 1 ELSE 0
        /\ \A h \in Media : sequence[s][h] = Spoken!HowMany(s, h, n - 1)
        /\ DOMAIN sequence' = Ids /\ sequence' = [r \in Ids |-> sequence'[r]]
        /\ sequence'[s] = [h \in Media |-> sequence'[s][h]]
    <3>1. sequence \in [Ids -> [Media -> 0 .. MaxSpoken]]
      BY DEF Spoken!IInv, Spoken!TypeOK
    <3>2. Spoken!Counted(s) = n - 1
      BY <2>1 DEF Spoken!Counted
    <3>3. \A h \in Media : sequence[s][h] = Spoken!HowMany(s, h, n - 1)
      BY <3>2 DEF Spoken!IInv, Spoken!CountsInv
    <3> HIDE DEF n
    <3>4. /\ \A r \in Ids \ {s} : sequence'[r] = sequence[r]
          /\ sequence'[s] = [sequence[s] EXCEPT ![k] = sequence[s][k] + 1]
      BY <2>1, <3>1
    <3>5. \A h \in Media :
            sequence'[s][h] = sequence[s][h] + IF h = k THEN 1 ELSE 0
      BY <3>1, <3>4
    <3>6. /\ DOMAIN sequence' = Ids /\ sequence' = [r \in Ids |-> sequence'[r]]
          /\ sequence'[s] = [h \in Media |-> sequence'[s][h]]
      BY <2>1, <3>1, <3>4
    <3> QED
      BY <3>3, <3>4, <3>5, <3>6
  <2>3. \A h \in Media :
          sequence'[s][h] = Spoken!HowMany(s, h, n) /\ sequence'[s][h] \in 0 .. n
    BY <1>2, <1>3, <1>5, <2>2
  <2>4. sequence' \in [Ids -> [Media -> 0 .. MaxSpoken]]
    <3>1. \A h \in Media : sequence'[s][h] \in 0 .. MaxSpoken
      BY <1>2, <1>3, <2>3
    <3>2. sequence'[s] \in [Media -> 0 .. MaxSpoken]
      BY <2>2, <3>1
    <3>3. \A r \in Ids : sequence'[r] \in [Media -> 0 .. MaxSpoken]
      BY <2>2, <3>2 DEF Spoken!IInv, Spoken!TypeOK
    <3> QED
      BY <2>2, <3>3
  <2>5. Spoken!TypeOK' /\ Spoken!Shapes'
    BY <1>0, <1>3, <2>1, <2>4 DEF Spoken!IInv, Spoken!TypeOK, Spoken!Shapes
  <2>6. Spoken!CountsInv'
    <3> SUFFICES ASSUME NEW r \in Ids, NEW h \in Media
                 PROVE  sequence'[r][h] = Spoken!HowMany(r, h, Spoken!Counted(r))'
      BY DEF Spoken!CountsInv
    <3>1. CASE r = s
      <4>1. Spoken!Counted(s)' = n
        BY <1>0, <2>1 DEF Spoken!Counted
      <4>2. Spoken!HowMany(s, h, Spoken!Counted(s))' = Spoken!HowMany(s, h, n)
        BY <1>0, <4>1 DEF Spoken!HowMany
      <4> QED
        BY <2>3, <3>1, <4>2
    <3>2. CASE r # s
      <4>1. Spoken!Counted(r)' = Spoken!Counted(r)
        BY <1>0, <3>2 DEF Spoken!Counted
      <4>2. Spoken!HowMany(r, h, Spoken!Counted(r))' =
              Spoken!HowMany(r, h, Spoken!Counted(r))
        BY <1>0, <4>1 DEF Spoken!HowMany
      <4> QED
        BY <2>2, <3>2, <4>2 DEF Spoken!IInv, Spoken!CountsInv
    <3> QED
      BY <3>1, <3>2
  <2>7. Spoken!FilesInv' /\ Spoken!NumberedAsSpoken'
    BY <1>0, <2>1, CountsSteady
       DEF Spoken!IInv, Spoken!FilesInv, Spoken!NumberedAsSpoken
  <2> QED
    BY <1>4, <2>5, <2>6, <2>7 DEF Spoken!IInv
<1>8. ASSUME Spoken!SaveFile(s)
      PROVE  Spoken!IInv'
  <2> DEFINE f0 == [file |-> sequence[s][k], event |-> n]
  <2>1. /\ UNCHANGED sequence
        /\ event_handler[s] = "save" /\ event_handler'[s] = "idle"
        /\ \/ files' = [files EXCEPT ![s][k] = files[s][k] \cup {f0}]
           \/ UNCHANGED files
    BY <1>1, <1>8 DEF Spoken!SaveFile, Spoken!Go, Spoken!IInv, Spoken!TypeOK
  <2>2. sequence[s][k] = Spoken!HowMany(s, k, n)
    BY <2>1 DEF Spoken!IInv, Spoken!CountsInv, Spoken!Counted
  <2>3. f0 \in [file : Nat, event : Nat]
    BY <1>2, <1>3, <1>5, <2>2
  <2>4. /\ files' \in [Ids -> [Media -> SUBSET [file : Nat, event : Nat]]]
        /\ \A r \in Ids, h \in Media : \A f \in files'[r][h] :
             f \in files[r][h] \/ (r = s /\ h = k /\ f = f0)
    <3>1. files \in [Ids -> [Media -> SUBSET [file : Nat, event : Nat]]]
      BY DEF Spoken!IInv, Spoken!Shapes
    <3> HIDE DEF f0
    <3> QED
      BY <2>1, <2>3, <3>1
  <2>5. Spoken!TypeOK' /\ Spoken!Shapes'
    BY <1>0, <2>1, <2>4 DEF Spoken!IInv, Spoken!TypeOK, Spoken!Shapes
  <2>6. Spoken!CountsInv'
    <3>1. \A r \in Ids : Spoken!Counted(r)' = Spoken!Counted(r)
      BY <1>0, <2>1 DEF Spoken!Counted
    <3> QED
      BY <1>0, <2>1, <3>1, CountsSteady DEF Spoken!IInv, Spoken!CountsInv
  <2>7. Spoken!FilesInv'
    <3> SUFFICES ASSUME NEW r \in Ids, NEW h \in Media,
                        NEW f \in files'[r][h]
                 PROVE  f.event < Len(spoken[r]) \/ event_handler'[r] = "idle"
      BY <1>0 DEF Spoken!FilesInv
    <3>1. CASE f \in files[r][h]
      BY <1>0, <2>1, <3>1 DEF Spoken!IInv, Spoken!FilesInv
    <3> QED
      BY <2>1, <2>4, <3>1
  <2>8. Spoken!NumberedAsSpoken'
    <3> SUFFICES ASSUME NEW r \in Ids, NEW h \in Media,
                        NEW f \in files'[r][h]
                 PROVE  /\ f.event \in 1 .. Len(spoken[r])
                        /\ spoken[r][f.event] = h
                        /\ f.file = Spoken!HowMany(r, h, f.event)
      BY <1>0, CountsSteady DEF Spoken!NumberedAsSpoken
    <3>1. CASE f \in files[r][h]
      BY <3>1 DEF Spoken!IInv, Spoken!NumberedAsSpoken
    <3>2. CASE r = s /\ h = k /\ f = f0
      <4>1. f.event = n /\ f.file = sequence[s][k]
        BY <3>2
      <4> QED
        <5>1. n \in 1 .. Len(spoken[s]) /\ spoken[s][n] = k
          BY <1>1, <1>2, <1>3
        <5> HIDE DEF n, f0
        <5> QED
          BY <2>2, <3>2, <4>1, <5>1
    <3> QED
      BY <2>4, <3>1, <3>2
  <2> QED
    BY <1>4, <2>5, <2>6, <2>7, <2>8 DEF Spoken!IInv
<1> QED
  BY <1>6, <1>7, <1>8

(* The entries of a queue without its head. *)
LEMMA TailOf ==
  ASSUME NEW S, NEW q \in Seq(S), q # <<>>
  PROVE  /\ Len(q) \in Nat /\ Len(Tail(q)) \in Nat /\ Len(Tail(q)) = Len(q) - 1
         /\ \A i \in 1 .. Len(Tail(q)) :
              i + 1 \in 1 .. Len(q) /\ Tail(q)[i] = q[i + 1]
  OBVIOUS

(* What an appended element changes. *)
LEMMA AppendOf ==
  ASSUME NEW S, NEW q \in Seq(S), NEW e \in S
  PROVE  /\ Len(q) \in Nat /\ Len(Append(q, e)) = Len(q) + 1
         /\ \A i \in 1 .. Len(q) : Append(q, e)[i] = q[i]
         /\ Append(q, e)[Len(q) + 1] = e
  OBVIOUS

(* A forwarder of the gateway takes an event. *)
LEMMA TakeKeeps ==
  ASSUME Spoken!IInv, NEW k \in Media, Spoken!Take(k)
  PROVE  Spoken!IInv'
<1> USE DEF Spoken!Latest
<1>0. /\ open /\ channel[k] # <<>>
      /\ UNCHANGED <<spoken, event_handler, open, sequence, files>>
  BY DEF Spoken!Take
<1> DEFINE Packet == [session : Ids, number : Nat, is_final : BOOLEAN]
<1>1. /\ channel \in [Media -> Seq(Packet)]
      /\ arrived \in [Ids -> Seq(Nat)]
      /\ \A r \in Ids : Len(spoken[r]) \in Nat
  <2>1. /\ channel \in [Media -> Seq(Packet)]
        /\ arrived \in [Ids -> Seq(Nat)]
    BY DEF Spoken!IInv, Spoken!Shapes
  <2>2. ASSUME NEW r \in Ids
        PROVE  Len(spoken[r]) \in Nat
    <3>1. spoken[r] \in Seq(Media)
      BY DEF Spoken!IInv, Spoken!TypeOK
    <3> QED
      BY <3>1
  <2> QED
    BY <2>1, <2>2
<1>2. Len(channel[k]) \in Nat /\ 1 \in 1 .. Len(channel[k])
  <2>1. channel[k] \in Seq(Packet)
    BY <1>1
  <2> QED
    BY <1>0, <2>1
<1>3. PICK s \in Ids, n \in Nat :
        channel[k][1].session = s /\ channel[k][1].number = n
  BY <1>2, EventsTyped
<1>4. /\ channel' = [channel EXCEPT ![k] = Tail(channel[k])]
      /\ arrived' = [arrived EXCEPT ![s] = Append(arrived[s], n)]
  <2>1. channel[k] \in Seq(Packet)
    BY <1>1
  <2>2. Head(channel[k]) = channel[k][1]
    BY <1>0, <2>1
  <2> QED
    BY <1>3, <2>2 DEF Spoken!Take
<1>5. /\ channel' \in [Media -> Seq(Packet)]
      /\ arrived' \in [Ids -> Seq(Nat)]
      /\ channel'[k] = Tail(channel[k])
      /\ \A h \in Media \ {k} : channel'[h] = channel[h]
      /\ arrived'[s] = Append(arrived[s], n)
      /\ \A r \in Ids \ {s} : arrived'[r] = arrived[r]
  <2>1. Tail(channel[k]) \in Seq(Packet) /\ Append(arrived[s], n) \in Seq(Nat)
    <3>1. channel[k] \in Seq(Packet) /\ arrived[s] \in Seq(Nat)
      BY <1>1
    <3> QED
      BY <1>0, <3>1
  <2> QED
    BY <1>1, <1>4, <2>1
(* Where an entry of a channel comes from. *)
<1>6. \A h \in Media :
        /\ Len(channel[h]) \in Nat /\ Len(channel'[h]) \in Nat
        /\ Len(channel'[h]) <= Len(channel[h])
        /\ h # k => Len(channel'[h]) = Len(channel[h])
        /\ h = k => Len(channel'[h]) = Len(channel[h]) - 1
        /\ \A i \in 1 .. Len(channel'[h]) :
             /\ h # k => i \in 1 .. Len(channel[h])
                           /\ channel'[h][i] = channel[h][i]
             /\ h = k => i + 1 \in 1 .. Len(channel[h])
                           /\ channel'[h][i] = channel[h][i + 1]
  <2> TAKE h \in Media
  <2>1. channel[h] \in Seq(Packet)
    BY <1>1
  <2> HIDE DEF Packet
  <2>2. CASE h = k
    <3>1. channel'[h] = Tail(channel[h]) /\ channel[h] # <<>>
      BY <1>0, <1>5, <2>2
    <3> QED
      BY <2>1, <2>2, <3>1, TailOf
  <2>3. CASE h # k
    BY <1>5, <2>1, <2>3
  <2> QED
    BY <2>2, <2>3
<1>7. \A r \in Ids :
        /\ Len(arrived[r]) \in Nat /\ Len(arrived'[r]) \in Nat
        /\ Len(arrived[r]) <= Len(arrived'[r])
        /\ \A i \in 1 .. Len(arrived[r]) : arrived'[r][i] = arrived[r][i]
        /\ \A i \in 1 .. Len(arrived'[r]) :
             i \in 1 .. Len(arrived[r])
               \/ (r = s /\ i = Len(arrived'[r]) /\ arrived'[r][i] = n)
        /\ r = s => /\ Len(arrived'[r]) \in 1 .. Len(arrived'[r])
                    /\ arrived'[r][Len(arrived'[r])] = n
                    /\ Len(arrived'[r]) = Len(arrived[r]) + 1
  <2> TAKE r \in Ids
  <2>1. arrived[r] \in Seq(Nat)
    BY <1>1
  <2>2. CASE r = s
    <3>1. arrived'[r] = Append(arrived[r], n)
      BY <1>5, <2>2
    <3> QED
      BY <2>1, <2>2, <3>1, AppendOf
  <2>3. CASE r # s
    BY <1>5, <2>1, <2>3
  <2> QED
    BY <2>2, <2>3
(* The event that arrives. *)
<1>8. /\ Spoken!Old(s, n) /\ spoken[s][n] = k /\ n \in 1 .. Len(spoken[s])
      /\ \A j \in 1 .. Len(channel[k]) :
           1 < j /\ channel[k][j].session = s => n < channel[k][j].number
      /\ \A j \in 1 .. Len(arrived[s]) :
           spoken[s][arrived[s][j]] = k => arrived[s][j] < n
  <2>1. Spoken!Old(s, n) /\ spoken[s][n] = k
    BY <1>2, <1>3 DEF Spoken!IInv, Spoken!QueuedInv
  <2>2. \A j \in 1 .. Len(channel[k]) :
          1 < j /\ channel[k][j].session = s => n < channel[k][j].number
    BY <1>2, <1>3 DEF Spoken!IInv, Spoken!QueueOrder
  <2>3. \A j \in 1 .. Len(arrived[s]) :
          spoken[s][arrived[s][j]] = k => arrived[s][j] < n
    BY <1>2, <1>3 DEF Spoken!IInv, Spoken!ArrivedFirst
  <2> QED
    BY <2>1, <2>2, <2>3 DEF Spoken!Old
<1>9. \A r \in Ids : \A m : Spoken!Old(r, m)' = Spoken!Old(r, m)
  BY <1>0 DEF Spoken!Old
<1>10. Spoken!TypeOK'
  <2>1. \A h \in Media : Len(channel'[h]) <= EventRoom
    <3>1. EventRoom \in Nat
      BY TasksAssumption DEF Spoken!EventForwarderAssumption
    <3>2. \A h \in Media : Len(channel[h]) <= EventRoom
      BY DEF Spoken!IInv, Spoken!TypeOK
    <3>3. \A h \in Media :
            /\ Len(channel[h]) \in Nat /\ Len(channel'[h]) \in Nat
            /\ Len(channel'[h]) <= Len(channel[h])
      BY <1>6
    <3> QED
      BY <3>1, <3>2, <3>3
  <2>2. DOMAIN taken' = Media /\ \A h \in Media : Len(taken'[h]) <= 1
    <3>1. PICK e : taken' = [taken EXCEPT ![k] = <<e>>]
      BY DEF Spoken!Take
    <3>2. Len(<<e>>) <= 1
      OBVIOUS
    <3> QED
      BY <3>1, <3>2 DEF Spoken!IInv, Spoken!TypeOK
  <2> QED
    BY <1>0, <2>1, <2>2 DEF Spoken!IInv, Spoken!TypeOK
<1>11. Spoken!Shapes'
  BY <1>0, <1>5 DEF Spoken!IInv, Spoken!Shapes
<1>12. Spoken!CountsInv' /\ Spoken!FilesInv' /\ Spoken!NumberedAsSpoken'
  BY <1>0, CountsSteady DEF Spoken!IInv, Spoken!CountsInv, Spoken!Counted,
     Spoken!FilesInv, Spoken!NumberedAsSpoken
<1>13. Spoken!QueuedInv'
  <2> SUFFICES ASSUME NEW h \in Media, NEW i \in 1 .. Len(channel'[h]),
                      NEW r \in Ids, channel'[h][i].session = r,
                      NEW m, m = channel'[h][i].number
               PROVE  Spoken!Old(r, m)' /\ spoken[r][m] = h
    BY <1>0 DEF Spoken!QueuedInv
  <2>1. PICK j \in 1 .. Len(channel[h]) : channel'[h][i] = channel[h][j]
    BY <1>6
  <2> QED
    BY <1>9, <2>1 DEF Spoken!IInv, Spoken!QueuedInv
<1>14. Spoken!QueueOrder'
  <2> SUFFICES ASSUME NEW h \in Media,
                      NEW i \in 1 .. Len(channel'[h]),
                      NEW j \in 1 .. Len(channel'[h]), i < j,
                      channel'[h][i].session = channel'[h][j].session
               PROVE  channel'[h][i].number < channel'[h][j].number
    BY DEF Spoken!QueueOrder
  <2>1. PICK a \in 1 .. Len(channel[h]), b \in 1 .. Len(channel[h]) :
          a < b /\ channel'[h][i] = channel[h][a] /\ channel'[h][j] = channel[h][b]
    <3>1. CASE h = k
      <4>1. /\ i + 1 \in 1 .. Len(channel[h]) /\ channel'[h][i] = channel[h][i + 1]
            /\ j + 1 \in 1 .. Len(channel[h]) /\ channel'[h][j] = channel[h][j + 1]
        BY <1>6, <3>1
      <4>2. i + 1 < j + 1
        BY <1>6
      <4> QED
        BY <4>1, <4>2
    <3>2. CASE h # k
      BY <1>6, <3>2
    <3> QED
      BY <3>1, <3>2
  <2> QED
    BY <2>1 DEF Spoken!IInv, Spoken!QueueOrder
<1>15. Spoken!ArrivedFirst'
  <2> SUFFICES ASSUME NEW h \in Media, NEW i \in 1 .. Len(channel'[h]),
                      NEW r \in Ids, channel'[h][i].session = r,
                      NEW j \in 1 .. Len(arrived'[r]),
                      spoken[r][arrived'[r][j]] = h
               PROVE  arrived'[r][j] < channel'[h][i].number
    BY <1>0 DEF Spoken!ArrivedFirst
  <2>1. PICK a \in 1 .. Len(channel[h]) :
          channel'[h][i] = channel[h][a] /\ (h = k => 1 < a)
    <3>1. CASE h = k
      BY <1>6, <3>1
    <3>2. CASE h # k
      BY <1>6, <3>2
    <3> QED
      BY <3>1, <3>2
  <2>2. CASE j \in 1 .. Len(arrived[r])
    BY <1>7, <2>1, <2>2 DEF Spoken!IInv, Spoken!ArrivedFirst
  <2>3. CASE r = s /\ arrived'[r][j] = n
    BY <1>8, <2>1, <2>3
  <2> QED
    BY <1>7, <2>2, <2>3
<1>16. Spoken!ArrivedInv'
  <2> SUFFICES ASSUME NEW r \in Ids, NEW i \in 1 .. Len(arrived'[r]),
                      NEW m, m = arrived'[r][i]
               PROVE  Spoken!Old(r, m)'
    BY DEF Spoken!ArrivedInv
  <2>1. CASE i \in 1 .. Len(arrived[r])
    BY <1>7, <1>9, <2>1 DEF Spoken!IInv, Spoken!ArrivedInv
  <2>2. CASE r = s /\ arrived'[r][i] = n
    BY <1>8, <1>9, <2>2
  <2> QED
    BY <1>7, <2>1, <2>2
<1>17. Spoken!HandedInv'
  <2> SUFFICES ASSUME NEW r \in Ids, NEW m \in 1 .. Len(spoken[r]),
                      Spoken!Old(r, m)
               PROVE  Spoken!Handed(r, spoken[r][m], m)'
    BY <1>0, <1>9 DEF Spoken!HandedInv
  <2> DEFINE h == spoken[r][m]
  <2>1. h \in Media
    BY ElementOfSeq DEF Spoken!IInv, Spoken!TypeOK
  <2>2. Spoken!Handed(r, h, m)
    BY <1>0 DEF Spoken!IInv, Spoken!HandedInv
  <2> HIDE DEF h
  <2>3. CASE \E i \in 1 .. Len(arrived[r]) : arrived[r][i] = m
    <3>1. \E i \in 1 .. Len(arrived'[r]) : arrived'[r][i] = m
      BY <1>7, <2>3
    <3> QED
      BY <1>0, <3>1 DEF Spoken!Handed, h
  <2>4. CASE \E i \in 1 .. Len(channel[h]) :
               channel[h][i].session = r /\ channel[h][i].number = m
    <3>1. PICK i \in 1 .. Len(channel[h]) :
            channel[h][i].session = r /\ channel[h][i].number = m
      BY <2>4
    <3>2. CASE h = k /\ i = 1
      <4>1. r = s /\ m = n
        BY <1>3, <3>1, <3>2
      <4>2. \E a \in 1 .. Len(arrived'[r]) : arrived'[r][a] = m
        BY <1>7, <4>1
      <4> QED
        BY <1>0, <4>2 DEF Spoken!Handed, h
    <3>3. CASE h # k
      <4>1. channel'[h] = channel[h]
        BY <1>5, <2>1, <3>3
      <4>2. \E a \in 1 .. Len(channel'[h]) :
              channel'[h][a].session = r /\ channel'[h][a].number = m
        BY <3>1, <4>1
      <4> QED
        BY <1>0, <4>2 DEF Spoken!Handed, h
    <3>4. CASE h = k /\ i # 1
      <4>1. i - 1 \in 1 .. Len(channel'[h]) /\ (i - 1) + 1 = i
        BY <1>6, <2>1, <3>4
      <4>2. channel'[h][i - 1] = channel[h][i]
        BY <1>6, <2>1, <3>4, <4>1
      <4>3. \E a \in 1 .. Len(channel'[h]) :
              channel'[h][a].session = r /\ channel'[h][a].number = m
        BY <3>1, <4>1, <4>2
      <4> QED
        BY <1>0, <4>3 DEF Spoken!Handed, h
    <3> QED
      BY <3>2, <3>3, <3>4
  <2> QED
    BY <2>2, <2>3, <2>4 DEF Spoken!Handed
<1>18. Spoken!InOrder'
  <2> SUFFICES ASSUME NEW r \in Ids, NEW i \in 1 .. Len(arrived'[r]),
                      NEW j \in 1 .. Len(arrived'[r]), i < j,
                      spoken[r][arrived'[r][i]] = spoken[r][arrived'[r][j]]
               PROVE  arrived'[r][i] < arrived'[r][j]
    BY <1>0 DEF Spoken!InOrder, Spoken!Alike
  <2>1. i \in 1 .. Len(arrived[r]) /\ arrived'[r][i] = arrived[r][i]
    BY <1>7
  <2>2. CASE j \in 1 .. Len(arrived[r])
    BY <1>7, <2>1, <2>2 DEF Spoken!IInv, Spoken!InOrder, Spoken!Alike
  <2>3. CASE r = s /\ arrived'[r][j] = n
    BY <1>8, <2>1, <2>3
  <2> QED
    BY <1>7, <2>2, <2>3
<1>19. Spoken!WithoutGaps'
  <2> SUFFICES ASSUME NEW r \in Ids, NEW j \in 1 .. Len(arrived'[r]),
                      NEW m \in 1 .. Len(spoken[r]), m < arrived'[r][j],
                      spoken[r][m] = spoken[r][arrived'[r][j]]
               PROVE  \E i \in 1 .. Len(arrived'[r]) : arrived'[r][i] = m
    BY <1>0 DEF Spoken!WithoutGaps, Spoken!Alike
  <2>1. CASE j \in 1 .. Len(arrived[r])
    <3>1. \E i \in 1 .. Len(arrived[r]) : arrived[r][i] = m
      <4>1. arrived'[r][j] = arrived[r][j]
        BY <1>7, <2>1
      <4> QED
        BY <2>1, <4>1 DEF Spoken!IInv, Spoken!WithoutGaps, Spoken!Alike
    <3> QED
      BY <1>7, <3>1
  <2>2. CASE r = s /\ arrived'[r][j] = n
    <3>1. Spoken!Old(s, m) /\ spoken[s][m] = k
      BY <1>1, <1>8, <2>2 DEF Spoken!Old
    <3>2. Spoken!Handed(s, k, m)
      BY <1>0, <2>2, <3>1 DEF Spoken!IInv, Spoken!HandedInv
    <3>3. \A i \in 1 .. Len(channel[k]) :
            channel[k][i].session = s => channel[k][i].number # m
      BY <1>3, <1>8, <2>2
    <3>4. \E i \in 1 .. Len(arrived[s]) : arrived[s][i] = m
      BY <3>2, <3>3 DEF Spoken!Handed
    <3>5. PICK i \in 1 .. Len(arrived[s]) : arrived[s][i] = m
      BY <3>4
    <3>6. i \in 1 .. Len(arrived'[s]) /\ arrived'[s][i] = m
      BY <1>7, <3>5
    <3> QED
      BY <2>2, <3>6
  <2> QED
    BY <1>7, <2>1, <2>2
<1> QED
  BY <1>10, <1>11, <1>12, <1>13, <1>14, <1>15, <1>16, <1>17, <1>18, <1>19
     DEF Spoken!IInv

(* The gateway stops. *)
LEMMA CloseKeeps ==
  ASSUME Spoken!IInv, Spoken!Close
  PROVE  Spoken!IInv'
<1>1. /\ ~open' /\ channel' = [k \in Media |-> <<>>]
      /\ taken' = [k \in Media |-> <<>>]
      /\ UNCHANGED <<spoken, event_handler, sequence, files, outbox, arrived>>
  BY DEF Spoken!Close
<1>2. \A k \in Media : channel'[k] = <<>> /\ Len(channel'[k]) = 0
  BY <1>1
<1>3. Spoken!TypeOK' /\ Spoken!Shapes'
  BY <1>1, <1>2, TasksAssumption
     DEF Spoken!IInv, Spoken!TypeOK, Spoken!Shapes, Spoken!Latest,
         Spoken!EventForwarderAssumption
<1>4. Spoken!CountsInv' /\ Spoken!FilesInv' /\ Spoken!NumberedAsSpoken'
  BY <1>1, CountsSteady DEF Spoken!IInv, Spoken!CountsInv, Spoken!Counted,
     Spoken!FilesInv, Spoken!NumberedAsSpoken, Spoken!Latest
<1>5. Spoken!QueuedInv' /\ Spoken!QueueOrder' /\ Spoken!ArrivedFirst'
  BY <1>2 DEF Spoken!QueuedInv, Spoken!QueueOrder, Spoken!ArrivedFirst
<1>6. Spoken!ArrivedInv' /\ Spoken!HandedInv'
  BY <1>1 DEF Spoken!IInv, Spoken!ArrivedInv, Spoken!HandedInv, Spoken!Old,
     Spoken!Latest
<1>7. Spoken!InOrder' /\ Spoken!WithoutGaps'
  BY <1>1 DEF Spoken!IInv, Spoken!InOrder, Spoken!WithoutGaps, Spoken!Alike,
     Spoken!Latest
<1> QED
  BY <1>3, <1>4, <1>5, <1>6, <1>7 DEF Spoken!IInv

(* The invariant holds at the start. *)
LEMMA EventsInit == Spoken!Init => Spoken!IInv
<1> SUFFICES ASSUME Spoken!Init
             PROVE  Spoken!IInv
  OBVIOUS
<1>1. /\ \A s \in Ids : spoken[s] = <<>> /\ arrived[s] = <<>>
                          /\ event_handler[s] = "idle"
      /\ \A k \in Media : channel[k] = <<>>
      /\ \A s \in Ids, k \in Media : sequence[s][k] = 0 /\ files[s][k] = {}
  BY DEF Spoken!Init
<1>2. \A s \in Ids, k \in Media : Spoken!HowMany(s, k, 0) = 0
  BY HowManyOneMore
<1>3. Spoken!TypeOK /\ Spoken!Shapes
  BY TasksAssumption DEF Spoken!Init, Spoken!TypeOK, Spoken!Shapes,
     Spoken!Latest, Spoken!EventForwarderAssumption
<1>4. Spoken!CountsInv
  BY <1>1, <1>2 DEF Spoken!CountsInv, Spoken!Counted, Spoken!Latest
<1>5. /\ Spoken!FilesInv /\ Spoken!NumberedAsSpoken /\ Spoken!ArrivedInv
      /\ Spoken!InOrder /\ Spoken!WithoutGaps /\ Spoken!HandedInv
      /\ Spoken!QueuedInv /\ Spoken!QueueOrder /\ Spoken!ArrivedFirst
  BY <1>1 DEF Spoken!FilesInv, Spoken!NumberedAsSpoken, Spoken!ArrivedInv,
     Spoken!InOrder, Spoken!WithoutGaps, Spoken!HandedInv, Spoken!QueuedInv,
     Spoken!QueueOrder, Spoken!ArrivedFirst, Spoken!Latest
<1> QED
  BY <1>3, <1>4, <1>5 DEF Spoken!IInv

(* It holds while only the forwarders and the aborts move. *)
LEMMA EventsSteady ==
  ASSUME Spoken!IInv,
         UNCHANGED <<spoken, event_handler, channel, open, sequence, files, arrived>>,
         DOMAIN taken' = Media, \A k \in Media : Len(taken'[k]) <= 1
  PROVE  Spoken!IInv'
<1>1. /\ UNCHANGED <<spoken, event_handler, channel, open, sequence, files, arrived>>
  OBVIOUS
<1>2. Spoken!TypeOK' /\ Spoken!Shapes'
  BY DEF Spoken!IInv, Spoken!TypeOK, Spoken!Shapes, Spoken!Latest
<1>3. Spoken!CountsInv' /\ Spoken!FilesInv' /\ Spoken!NumberedAsSpoken'
  BY <1>1, CountsSteady DEF Spoken!IInv, Spoken!CountsInv, Spoken!Counted,
     Spoken!FilesInv, Spoken!NumberedAsSpoken, Spoken!Latest
<1>4. /\ Spoken!QueuedInv' /\ Spoken!QueueOrder' /\ Spoken!ArrivedFirst'
      /\ Spoken!ArrivedInv' /\ Spoken!HandedInv'
      /\ Spoken!InOrder' /\ Spoken!WithoutGaps'
  BY <1>1, HandedSteady
<1> QED
  BY <1>2, <1>3, <1>4 DEF Spoken!IInv

(* The invariant of EventForwarder is inductive. *)
LEMMA EventsInductive == Spoken!Spec => []Spoken!IInv
<1>1. Spoken!IInv /\ [Spoken!Next]_(Spoken!vars) => Spoken!IInv'
  <2> SUFFICES ASSUME Spoken!IInv, [Spoken!Next]_(Spoken!vars)
               PROVE  Spoken!IInv'
    OBVIOUS
  <2>1. ASSUME NEW s \in Ids, NEW k \in Media, Spoken!Speak(s, k)
        PROVE  Spoken!IInv'
    BY <2>1, SpeakKeeps
  <2>2. ASSUME NEW s \in Ids, Spoken!Send(s)
        PROVE  Spoken!IInv'
    BY <2>2, SendKeeps
  <2>3. ASSUME NEW s \in Ids,
               Spoken!Remember(s) \/ Spoken!Count(s) \/ Spoken!SaveFile(s)
        PROVE  Spoken!IInv'
    BY <2>3, HandlerKeeps
  <2>4. ASSUME NEW k \in Media, Spoken!Take(k)
        PROVE  Spoken!IInv'
    BY <2>4, TakeKeeps
  <2>5. CASE Spoken!Close
    BY <2>5, CloseKeeps
  <2>6. DOMAIN taken = Media /\ \A k \in Media : Len(taken[k]) <= 1
    BY DEF Spoken!IInv, Spoken!TypeOK
  <2>7. ASSUME NEW k \in Media, Spoken!Forward(k)
        PROVE  Spoken!IInv'
    <3>1. /\ UNCHANGED <<spoken, event_handler, channel, open, sequence, files,
                         arrived>>
          /\ taken' = [taken EXCEPT ![k] = <<>>]
      BY <2>7 DEF Spoken!Forward
    <3>2. Len(<<>>) <= 1
      OBVIOUS
    <3>3. DOMAIN taken' = Media /\ \A h \in Media : Len(taken'[h]) <= 1
      BY <2>6, <3>1, <3>2
    <3> QED
      BY <3>1, <3>3, EventsSteady
  <2>8. ASSUME NEW s \in Ids, Spoken!Abort(s)
        PROVE  Spoken!IInv'
    BY <2>6, <2>8, EventsSteady DEF Spoken!Abort, Spoken!gateway
  <2>9. CASE UNCHANGED Spoken!vars
    BY <2>6, <2>9, EventsSteady DEF Spoken!vars, Spoken!gateway
  <2> QED
    BY <2>1, <2>2, <2>3, <2>4, <2>5, <2>7, <2>8, <2>9 DEF Spoken!Next, Spoken!Handle
<1> QED
  BY <1>1, EventsInit, PTL DEF Spoken!Spec

(* Whatever the kinds of the events and the failures of the saves, file n  *)
(* of a kind holds the n-th event of that kind, the gateway gets what was  *)
(* spoken in order and without gaps, and no event goes uncounted           *)
(* (GatewayEventForwarder in main.rs).                                     *)
THEOREM EventsHold == TasksSpec => []EventsNumbered
<1>1. Spoken!IInv => Spoken!EveryEventCounted
  BY DEF Spoken!IInv, Spoken!CountsInv, Spoken!Counted, Spoken!EveryEventCounted
<1>2. Spoken!IInv => Spoken!ArrivesInOrder
  BY FilesAreHanded DEF Spoken!IInv, Spoken!ArrivesInOrder
<1>3. Spoken!IInv => EventsNumbered
  BY <1>1, <1>2 DEF Spoken!IInv, EventsNumbered
<1> QED
  BY <1>3, EventsInductive, PartsRun, PTL

----------------------------------------------------------------------------
(* OutputForwarding.                                                       *)

(* The output of a forwarder in a mailbox is in order, and below a bound. *)
Sorted(q, f) ==
  \A i, j \in 1 .. Len(q) : i < j /\ q[i].from = f /\ q[j].from = f => q[i].n < q[j].n

Below(q, f, m) == \A i \in 1 .. Len(q) : q[i].from = f => q[i].n < m

InLine(w, q, f) ==
  /\ Sorted(w, f) /\ Sorted(q, f)
  /\ \A i \in 1 .. Len(w), j \in 1 .. Len(q) :
       w[i].from = f /\ q[j].from = f => w[i].n < q[j].n

(* What a shorter and a longer mailbox keep. *)
LEMMA TailInLine ==
  ASSUME NEW S, NEW q \in Seq(S), q # <<>>, NEW w, NEW f, NEW m, NEW e, e = q[1]
  PROVE  /\ Below(q, f, m) => Below(Tail(q), f, m) /\ (e.from = f => e.n < m)
         /\ InLine(w, q, f) => /\ InLine(w, Tail(q), f)
                               /\ e.from = f => Below(w, f, e.n)
         /\ InLine(w, q, f) /\ e.from = f =>
              \A j \in 1 .. Len(Tail(q)) : Tail(q)[j].from = f => e.n < Tail(q)[j].n
<1>1. /\ Len(q) \in Nat /\ Len(Tail(q)) \in Nat /\ Len(Tail(q)) = Len(q) - 1
      /\ \A i \in 1 .. Len(Tail(q)) :
           i + 1 \in 1 .. Len(q) /\ Tail(q)[i] = q[i + 1]
  BY TailOf
<1>2. 1 \in 1 .. Len(q)
  <2>1. Len(q) # 0
    OBVIOUS
  <2> QED
    BY <1>1, <2>1
<1>3. Below(q, f, m) => Below(Tail(q), f, m) /\ (e.from = f => e.n < m)
  BY <1>1, <1>2 DEF Below
<1>4. Sorted(q, f) => Sorted(Tail(q), f)
  BY <1>1 DEF Sorted
<1>5. InLine(w, q, f) => InLine(w, Tail(q), f) /\ (e.from = f => Below(w, f, e.n))
  BY <1>1, <1>2, <1>4 DEF InLine, Below
<1>6. Sorted(q, f) /\ e.from = f =>
        \A j \in 1 .. Len(Tail(q)) : Tail(q)[j].from = f => e.n < Tail(q)[j].n
  BY <1>1, <1>2 DEF Sorted
<1> QED
  BY <1>3, <1>5, <1>6 DEF InLine

(* A message is appended: behind what is older, *)
LEMMA AppendSorted ==
  ASSUME NEW S, NEW q \in Seq(S), NEW e \in S, NEW f,
         Sorted(q, f), e.from = f => Below(q, f, e.n)
  PROVE  Sorted(Append(q, e), f)
<1>1. /\ Len(q) \in Nat /\ Len(Append(q, e)) = Len(q) + 1
      /\ \A i \in 1 .. Len(q) : Append(q, e)[i] = q[i]
      /\ Append(q, e)[Len(q) + 1] = e
  BY AppendOf
<1> DEFINE a == Append(q, e)
<1> HIDE DEF a
<1>2. \A i \in 1 .. Len(a) :
        \/ i \in 1 .. Len(q) /\ a[i] = q[i]
        \/ i = Len(q) + 1 /\ a[i] = e
  BY <1>1 DEF a
<1>3. Sorted(a, f)
  <2> SUFFICES ASSUME NEW i \in 1 .. Len(a), NEW j \in 1 .. Len(a),
                      i < j, a[i].from = f, a[j].from = f
               PROVE  a[i].n < a[j].n
    BY DEF Sorted
  <2>1. i \in 1 .. Len(q) /\ a[i] = q[i]
    BY <1>1, <1>2 DEF a
  <2>2. CASE j \in 1 .. Len(q) /\ a[j] = q[j]
    BY <2>1, <2>2 DEF Sorted
  <2>3. CASE a[j] = e
    BY <2>1, <2>3 DEF Below
  <2> QED
    BY <1>2, <2>2, <2>3
<1> QED
  BY <1>3 DEF a

(* below a bound, *)
LEMMA AppendBelow ==
  ASSUME NEW S, NEW q \in Seq(S), NEW e \in S, NEW f, NEW m,
         Below(q, f, m), e.from = f => e.n < m
  PROVE  Below(Append(q, e), f, m)
<1>1. /\ Len(q) \in Nat /\ Len(Append(q, e)) = Len(q) + 1
      /\ \A i \in 1 .. Len(q) : Append(q, e)[i] = q[i]
      /\ Append(q, e)[Len(q) + 1] = e
  BY AppendOf
<1> QED
  BY <1>1 DEF Below

(* to the mailbox, *)
LEMMA AppendInLine ==
  ASSUME NEW S, NEW q \in Seq(S), NEW e \in S, NEW f, NEW w, InLine(w, q, f),
         e.from = f => Below(q, f, e.n) /\ Below(w, f, e.n)
  PROVE  InLine(w, Append(q, e), f)
<1>1. /\ Len(q) \in Nat /\ Len(Append(q, e)) = Len(q) + 1
      /\ \A i \in 1 .. Len(q) : Append(q, e)[i] = q[i]
      /\ Append(q, e)[Len(q) + 1] = e
  BY AppendOf
<1>2. Sorted(Append(q, e), f)
  BY AppendSorted DEF InLine
<1>3. \A i \in 1 .. Len(w), j \in 1 .. Len(q) + 1 :
        w[i].from = f /\ Append(q, e)[j].from = f => w[i].n < Append(q, e)[j].n
  BY <1>1 DEF InLine, Below
<1> QED
  BY <1>1, <1>2, <1>3 DEF InLine

(* or to what the client has. *)
LEMMA SendInLine ==
  ASSUME NEW S, NEW w \in Seq(S), NEW e \in S, NEW f, NEW q, InLine(w, q, f),
         e.from = f => /\ Below(w, f, e.n)
                       /\ \A j \in 1 .. Len(q) : q[j].from = f => e.n < q[j].n
  PROVE  InLine(Append(w, e), q, f)
<1>1. /\ Len(w) \in Nat /\ Len(Append(w, e)) = Len(w) + 1
      /\ \A i \in 1 .. Len(w) : Append(w, e)[i] = w[i]
      /\ Append(w, e)[Len(w) + 1] = e
  BY AppendOf
<1>2. Sorted(Append(w, e), f)
  BY AppendSorted DEF InLine
<1>3. \A i \in 1 .. Len(w) + 1, j \in 1 .. Len(q) :
        Append(w, e)[i].from = f /\ q[j].from = f => Append(w, e)[i].n < q[j].n
  BY <1>1 DEF InLine
<1> QED
  BY <1>1, <1>2, <1>3 DEF InLine

(* Cardinality means the same in OutputForwarding. *)
LEMMA MailCardinality ==
  ASSUME NEW S
  PROVE  Forwarding!Cardinality(S) = Cardinality(S)
  BY DEF Forwarding!Cardinality, Cardinality

FromSource(q, k) == {i \in 1 .. Len(q) : q[i].from = k}

(* How many messages of a mailbox are from a source. *)
LEMMA CountOf ==
  ASSUME NEW S, NEW q \in Seq(S), NEW k
  PROVE  /\ Forwarding!HowMany(q, k) = Cardinality(FromSource(q, k))
         /\ IsFiniteSet(FromSource(q, k)) /\ Forwarding!HowMany(q, k) \in Nat
<1>1. IsFiniteSet(1 .. Len(q))
  BY FS_Interval
<1>2. FromSource(q, k) \subseteq 1 .. Len(q)
  BY DEF FromSource
<1>3. IsFiniteSet(FromSource(q, k))
  BY <1>1, <1>2, FS_Subset
<1>4. Forwarding!HowMany(q, k) = Cardinality(FromSource(q, k))
  BY MailCardinality DEF Forwarding!HowMany, FromSource
<1> QED
  BY <1>3, <1>4, FS_CardinalityType

(* They are counted when they are appended ... *)
LEMMA AppendCounts ==
  ASSUME NEW S, NEW q \in Seq(S), NEW e \in S, NEW k
  PROVE  Forwarding!HowMany(Append(q, e), k) =
           Forwarding!HowMany(q, k) + IF e.from = k THEN 1 ELSE 0
<1>1. /\ Len(q) \in Nat /\ Len(Append(q, e)) = Len(q) + 1
      /\ \A i \in 1 .. Len(q) : Append(q, e)[i] = q[i]
      /\ Append(q, e)[Len(q) + 1] = e
  BY AppendOf
<1>2. IsFiniteSet(FromSource(q, k)) /\ Forwarding!HowMany(q, k) \in Nat
  BY CountOf
<1>3. /\ Forwarding!HowMany(q, k) = Cardinality(FromSource(q, k))
      /\ Forwarding!HowMany(Append(q, e), k) = Cardinality(FromSource(Append(q, e), k))
  <2>1. Append(q, e) \in Seq(S)
    OBVIOUS
  <2> QED
    BY <2>1, CountOf
<1>4. CASE e.from = k
  <2>1. /\ FromSource(Append(q, e), k) = FromSource(q, k) \cup {Len(q) + 1}
        /\ Len(q) + 1 \notin FromSource(q, k)
    <3> DEFINE a == Append(q, e)
    <3>1. /\ Len(a) = Len(q) + 1 /\ a[Len(q) + 1].from = k
          /\ \A i \in 1 .. Len(q) : a[i].from = q[i].from
      BY <1>1, <1>4
    <3> HIDE DEF a
    <3>2. /\ FromSource(a, k) = FromSource(q, k) \cup {Len(q) + 1}
          /\ Len(q) + 1 \notin FromSource(q, k)
      BY <1>1, <3>1 DEF FromSource
    <3> QED
      BY <3>2 DEF a
  <2>2. Cardinality(FromSource(q, k) \cup {Len(q) + 1}) =
          Cardinality(FromSource(q, k)) + 1
    BY <1>2, <2>1, FS_AddElement
  <2> QED
    BY <1>2, <1>3, <1>4, <2>1, <2>2
<1>5. CASE e.from # k
  <2>1. FromSource(Append(q, e), k) = FromSource(q, k)
    <3> DEFINE a == Append(q, e)
    <3>1. /\ Len(a) = Len(q) + 1 /\ a[Len(q) + 1].from # k
          /\ \A i \in 1 .. Len(q) : a[i].from = q[i].from
      BY <1>1, <1>5
    <3> HIDE DEF a
    <3>2. FromSource(a, k) = FromSource(q, k)
      BY <1>1, <3>1 DEF FromSource
    <3> QED
      BY <3>2 DEF a
  <2> QED
    BY <1>2, <1>3, <1>5, <2>1
<1> QED
  BY <1>2, <1>3, <1>4, <1>5

(* ... and until they are taken. *)
LEMMA TailCounts ==
  ASSUME NEW S, NEW q \in Seq(S), q # <<>>, NEW k, NEW e, e = q[1]
  PROVE  /\ Forwarding!HowMany(Tail(q), k) \in Nat
         /\ Forwarding!HowMany(q, k) =
              Forwarding!HowMany(Tail(q), k) + IF e.from = k THEN 1 ELSE 0
<1> DEFINE t == Tail(q)
           Later == {i \in 2 .. Len(q) : q[i].from = k}
           Shift == [i \in FromSource(t, k) |-> i + 1]
<1>1. /\ Len(q) \in Nat /\ Len(t) \in Nat /\ Len(t) = Len(q) - 1
      /\ \A i \in 1 .. Len(t) : i + 1 \in 1 .. Len(q) /\ t[i] = q[i + 1]
  BY TailOf
<1>2. 1 \in 1 .. Len(q)
  <2>1. Len(q) # 0
    OBVIOUS
  <2> QED
    BY <1>1, <2>1
<1> HIDE DEF t
<1>3. /\ IsFiniteSet(FromSource(t, k)) /\ Cardinality(FromSource(t, k)) \in Nat
      /\ Forwarding!HowMany(t, k) = Cardinality(FromSource(t, k))
      /\ Forwarding!HowMany(q, k) = Cardinality(FromSource(q, k))
  <2>1. Tail(q) \in Seq(S)
    OBVIOUS
  <2> QED
    BY <2>1, CountOf DEF t
<1>4. ExistsBijection(FromSource(t, k), Later)
  <2>1. Shift \in [FromSource(t, k) -> Later]
    BY <1>1 DEF FromSource
  <2>2. \A a, b \in FromSource(t, k) : Shift[a] = Shift[b] => a = b
    BY DEF FromSource
  <2>3. \A j \in Later : \E i \in FromSource(t, k) : Shift[i] = j
    <3> TAKE j \in Later
    <3>1. j - 1 \in 1 .. Len(t) /\ t[j - 1] = q[j] /\ q[j].from = k
      BY <1>1
    <3>2. j - 1 \in FromSource(t, k)
      BY <3>1 DEF FromSource
    <3>3. Shift[j - 1] = j
      BY <3>2
    <3> QED
      BY <3>2, <3>3
  <2>4. Shift \in Bijection(FromSource(t, k), Later)
    BY <2>1, <2>2, <2>3, Fun_IsBij
  <2> QED
    BY <2>4 DEF ExistsBijection
<1>5. IsFiniteSet(Later) /\ Cardinality(Later) = Cardinality(FromSource(t, k))
  BY <1>3, <1>4, FS_Bijection
<1>7. CASE e.from = k
  <2>1. FromSource(q, k) = Later \cup {1} /\ 1 \notin Later
    BY <1>1, <1>2, <1>7 DEF FromSource
  <2>2. Cardinality(Later \cup {1}) = Cardinality(Later) + 1
    BY <1>5, <2>1, FS_AddElement
  <2> QED
    BY <1>3, <1>5, <1>7, <2>1, <2>2 DEF t
<1>8. CASE e.from # k
  <2>1. FromSource(q, k) = Later
    BY <1>1, <1>2, <1>8 DEF FromSource
  <2> QED
    BY <1>3, <1>5, <1>8, <2>1 DEF t
<1> QED
  BY <1>7, <1>8

(* Who queues for the lock ... *)
LEMMA QueueAppend ==
  ASSUME NEW S, NEW q \in Seq(S), NEW e \in S, e \notin Forwarding!ToSet(q),
         \A i, j \in 1 .. Len(q) : q[i] = q[j] => i = j
  PROVE  /\ Append(q, e) \in Seq(S)
         /\ Forwarding!ToSet(Append(q, e)) = Forwarding!ToSet(q) \cup {e}
         /\ \A i, j \in 1 .. Len(Append(q, e)) :
              Append(q, e)[i] = Append(q, e)[j] => i = j
<1>1. /\ Len(q) \in Nat /\ Len(Append(q, e)) = Len(q) + 1
      /\ \A i \in 1 .. Len(q) : Append(q, e)[i] = q[i]
      /\ Append(q, e)[Len(q) + 1] = e
  BY AppendOf
<1>2. /\ Append(q, e) \in Seq(S) /\ DOMAIN q = 1 .. Len(q)
      /\ DOMAIN Append(q, e) = 1 .. Len(Append(q, e))
  OBVIOUS
<1>3. \A i \in 1 .. Len(q) : q[i] # e
  BY <1>2 DEF Forwarding!ToSet
<1> DEFINE a == Append(q, e)
<1>4. DOMAIN a = 1 .. Len(q) + 1 /\ \A i \in 1 .. Len(q) : a[i] = q[i]
  BY <1>1, <1>2
<1>5. a[Len(q) + 1] = e
  BY <1>1
<1> HIDE DEF a
<1>6. Forwarding!ToSet(a) = Forwarding!ToSet(q) \cup {e}
  BY <1>1, <1>2, <1>4, <1>5 DEF Forwarding!ToSet
<1>7. \A i, j \in 1 .. Len(q) + 1 : a[i] = a[j] => i = j
  BY <1>1, <1>3, <1>4, <1>5
<1> QED
  BY <1>1, <1>2, <1>6, <1>7 DEF a

(* ... and who leaves the queue. *)
LEMMA QueueTail ==
  ASSUME NEW S, NEW q \in Seq(S), q # <<>>,
         \A i, j \in 1 .. Len(q) : q[i] = q[j] => i = j
  PROVE  /\ Tail(q) \in Seq(S) /\ Head(q) \in Forwarding!ToSet(q)
         /\ Forwarding!ToSet(Tail(q)) = Forwarding!ToSet(q) \ {Head(q)}
         /\ \A i, j \in 1 .. Len(Tail(q)) : Tail(q)[i] = Tail(q)[j] => i = j
<1>1. /\ Len(q) \in Nat /\ Len(Tail(q)) \in Nat /\ Len(Tail(q)) = Len(q) - 1
      /\ \A i \in 1 .. Len(Tail(q)) :
           i + 1 \in 1 .. Len(q) /\ Tail(q)[i] = q[i + 1]
  BY TailOf
<1>2. /\ Tail(q) \in Seq(S) /\ DOMAIN q = 1 .. Len(q)
      /\ DOMAIN Tail(q) = 1 .. Len(Tail(q)) /\ Head(q) = q[1] /\ Len(q) # 0
  OBVIOUS
<1> DEFINE t == Tail(q)
           h == Head(q)
<1>3. /\ DOMAIN t = 1 .. Len(t) /\ Len(t) = Len(q) - 1
      /\ \A i \in 1 .. Len(t) : i + 1 \in 1 .. Len(q) /\ t[i] = q[i + 1]
      /\ h = q[1]
  BY <1>1, <1>2
<1> HIDE DEF t, h
<1>4. h \in Forwarding!ToSet(q)
  BY <1>1, <1>2, <1>3 DEF Forwarding!ToSet
<1>5. Forwarding!ToSet(t) = Forwarding!ToSet(q) \ {h}
  <2>1. ASSUME NEW x \in Forwarding!ToSet(t)
        PROVE  x \in Forwarding!ToSet(q) \ {h}
    <3>1. PICK i \in 1 .. Len(t) : x = t[i]
      BY <1>3 DEF Forwarding!ToSet
    <3>2. i + 1 \in 1 .. Len(q) /\ x = q[i + 1] /\ i + 1 # 1
      BY <1>3, <3>1
    <3>3. x # h
      BY <1>1, <1>2, <1>3, <3>2
    <3> QED
      BY <1>2, <3>2, <3>3 DEF Forwarding!ToSet
  <2>2. ASSUME NEW x \in Forwarding!ToSet(q), x # h
        PROVE  x \in Forwarding!ToSet(t)
    <3>1. PICK i \in 1 .. Len(q) : x = q[i]
      BY <1>2 DEF Forwarding!ToSet
    <3>2. i - 1 \in 1 .. Len(t) /\ t[i - 1] = x
      BY <1>1, <1>3, <2>2, <3>1
    <3> QED
      BY <1>3, <3>2 DEF Forwarding!ToSet
  <2> QED
    BY <2>1, <2>2
<1>6. \A i, j \in 1 .. Len(t) : t[i] = t[j] => i = j
  BY <1>1, <1>3
<1> QED
  BY <1>2, <1>4, <1>5, <1>6 DEF t, h

(* What is sent is a message. *)
LEMMA MessagesKnown ==
  /\ Forwarding!ProbeEvent \in Forwarding!Queued
  /\ Forwarding!ToolResult \in Forwarding!Queued
  /\ Forwarding!Notice \in Forwarding!Message
  /\ \A x \in Forwarding!ClientFrame \cup {Forwarding!NoFrame} :
       Forwarding!Reply(x.kind) \in Forwarding!Message
  /\ \A f \in Forwarding!Forwarders, s \in Sessions, n \in Nat :
       Forwarding!Output(f, s, n) \in Forwarding!Queued
<1> USE DEF Forwarding!Message, Forwarding!Queued
<1>1. Forwarding!ProbeEvent \in Forwarding!Queued
  BY DEF Forwarding!ProbeEvent
<1>2. Forwarding!ToolResult \in Forwarding!Queued
  BY DEF Forwarding!ToolResult
<1>3. Forwarding!Notice \in Forwarding!Message
  BY DEF Forwarding!Notice
<1>4. ASSUME NEW x \in Forwarding!ClientFrame \cup {Forwarding!NoFrame}
      PROVE  Forwarding!Reply(x.kind) \in Forwarding!Message
  <2>1. x.kind \in Forwarding!AllKinds \cup {"none"}
    BY TasksAssumption DEF Forwarding!ForwardingAssumption,
       Forwarding!ClientFrame, Forwarding!NoFrame
  <2> QED
    BY <2>1 DEF Forwarding!Reply
<1>5. ASSUME NEW f \in Forwarding!Forwarders, NEW s \in Sessions, NEW n \in Nat
      PROVE  Forwarding!Output(f, s, n) \in Forwarding!Queued
  BY DEF Forwarding!Output, Forwarding!Forwarders
<1> QED
  BY <1>1, <1>2, <1>3, <1>4, <1>5

(* Where it comes from. *)
LEMMA SourcesKnown ==
  /\ Forwarding!ProbeEvent.from = "probe" /\ Forwarding!ToolResult.from = "tool"
  /\ Forwarding!Notice.from = "notice"
  /\ \A k : Forwarding!Reply(k).from = "reply"
  /\ \A f, s, n : /\ Forwarding!Output(f, s, n).from = f
                  /\ Forwarding!Output(f, s, n).n = n
  /\ \A f \in Forwarding!Forwarders : f \notin {"probe", "tool", "notice", "reply"}
BY DEF Forwarding!ProbeEvent, Forwarding!ToolResult, Forwarding!Notice,
       Forwarding!Reply, Forwarding!Output, Forwarding!Forwarders

(* The type of a mailbox after a step. *)
LEMMA BoxTyped ==
  ASSUME NEW S, NEW q \in Seq(S)
  PROVE  /\ \A e \in S : Append(q, e) \in Seq(S)
         /\ q # <<>> => Tail(q) \in Seq(S) /\ Head(q) \in S /\ Head(q) = q[1]
         /\ <<>> \in Seq(S)
  OBVIOUS

(* Types of the mailboxes, the handlers and the forwarders. *)
LEMMA ShapesNext ==
  ASSUME Forwarding!Shapes, Forwarding!SessionsKnown, Forwarding!TypeOK,
         [Forwarding!Next]_(Forwarding!vars)
  PROVE  Forwarding!Shapes' /\ Forwarding!SessionsKnown'
<1> DEFINE Goal == Forwarding!Shapes' /\ Forwarding!SessionsKnown'
<1> DEFINE M == Forwarding!Message
           Q == Forwarding!Queued
           F == Forwarding!ClientFrame
           N == {Forwarding!Notice}
<1> USE DEF Forwarding!Go, Forwarding!At, Forwarding!Frame, Forwarding!lock,
            Forwarding!mail
<1>1. /\ standard \in [Conns -> Seq(Q)] /\ priority \in [Conns -> Seq(N)]
      /\ wire \in [Conns -> Seq(M)] /\ frames \in [Conns -> Seq(F)]
      /\ handler \in [Conns ->
           [pc : {"select", "reply", "probe_standard", "probe_priority", "authorize",
                  "bind", "tool_result", "cleanup", "unbind", "closed"},
            frame : F \cup {Forwarding!NoFrame}]]
      /\ forwarder \in [Forwarding!Forwarders ->
           [pc : {"recv", "lock", "send"}, sid : Sessions \cup {None}, n : Nat]]
      /\ outputs \in Nat
  BY DEF Forwarding!Shapes
<1>2. N \subseteq M /\ Q \subseteq M
  BY MessagesKnown DEF Forwarding!Queued
<1>3. ASSUME NEW c \in Conns, Forwarding!ClientSends(c)
      PROVE  Goal
  <2>1. PICK k \in Kinds, s \in Sessions :
          frames' = [frames EXCEPT ![c] = Append(frames[c], [kind |-> k, sid |-> s])]
    BY <1>3 DEF Forwarding!ClientSends
  <2>2. Append(frames[c], [kind |-> k, sid |-> s]) \in Seq(F)
    <3>1. [kind |-> k, sid |-> s] \in F
      BY DEF Forwarding!ClientFrame
    <3> QED
      BY <1>1, <3>1, BoxTyped
  <2>3. UNCHANGED <<standard, priority, wire, handler, forwarder, outputs>>
    BY <1>3 DEF Forwarding!ClientSends
  <2> QED
    BY <1>1, <2>1, <2>2, <2>3 DEF Forwarding!Shapes, Forwarding!SessionsKnown
<1>4. ASSUME NEW c \in Conns, NEW e \in M, Forwarding!SendResponse(c, e)
      PROVE  /\ wire' \in [Conns -> Seq(M)]
             /\ handler' \in [Conns ->
                  [pc : {"select", "reply", "probe_standard", "probe_priority",
                         "authorize", "bind", "tool_result", "cleanup", "unbind",
                         "closed"},
                   frame : F \cup {Forwarding!NoFrame}]]
             /\ handler'[c].pc \in {"select", "cleanup"}
             /\ \A d \in Conns \ {c} : handler'[d] = handler[d]
  <2>1. Append(wire[c], e) \in Seq(M)
    BY <1>1, BoxTyped
  <2> HIDE DEF M, Q, F
  <2>2. CASE /\ wire' = [wire EXCEPT ![c] = Append(wire[c], e)]
             /\ handler' = [handler EXCEPT ![c] =
                              [pc |-> "select", frame |-> Forwarding!NoFrame]]
    BY <1>1, <2>1, <2>2
  <2>3. CASE UNCHANGED wire /\ handler' = [handler EXCEPT ![c].pc = "cleanup"]
    BY <1>1, <2>3
  <2> QED
    BY <1>4, <2>2, <2>3 DEF Forwarding!SendResponse
<1>5. ASSUME NEW c \in Conns, Forwarding!SelectPriority(c)
      PROVE  Goal
  <2>1. Head(priority[c]) \in M /\ Tail(priority[c]) \in Seq(N)
    BY <1>1, <1>2, <1>5, BoxTyped DEF Forwarding!SelectPriority
  <2>2. /\ Forwarding!SendResponse(c, Head(priority[c]))
        /\ priority' = [priority EXCEPT ![c] = Tail(priority[c])]
        /\ UNCHANGED <<standard, frames, forwarder, outputs>>
    BY <1>5 DEF Forwarding!SelectPriority
  <2> HIDE DEF M, Q, F, N
  <2>3. priority' \in [Conns -> Seq(N)]
    BY <1>1, <2>1, <2>2
  <2> QED
    BY <1>1, <1>4, <2>1, <2>2, <2>3
       DEF Forwarding!Shapes, Forwarding!SessionsKnown, M, Q, F, N
<1>6. ASSUME NEW c \in Conns, Forwarding!SelectFrame(c)
      PROVE  Goal
  <2>1. Head(frames[c]) \in F /\ Tail(frames[c]) \in Seq(F)
    BY <1>1, <1>6, BoxTyped DEF Forwarding!SelectFrame
  <2>2. PICK x \in F : x = Head(frames[c])
    BY <2>1
  <2>3. PICK pc \in {"reply", "probe_standard", "authorize", "cleanup"} :
          handler' = [handler EXCEPT ![c] = [frame |-> x, pc |-> pc]]
    BY <1>6, <2>2 DEF Forwarding!SelectFrame
  <2>4. /\ frames' = [frames EXCEPT ![c] = Tail(frames[c])]
        /\ UNCHANGED <<standard, priority, wire, forwarder, outputs>>
    BY <1>6 DEF Forwarding!SelectFrame
  <2>5. x.sid \in Sessions
    BY DEF Forwarding!ClientFrame
  <2> HIDE DEF M, Q, F, N
  <2>6. /\ frames' \in [Conns -> Seq(F)]
        /\ handler' \in [Conns ->
             [pc : {"select", "reply", "probe_standard", "probe_priority",
                    "authorize", "bind", "tool_result", "cleanup", "unbind",
                    "closed"},
              frame : F \cup {Forwarding!NoFrame}]]
        /\ handler'[c].frame = x
        /\ \A d \in Conns \ {c} : handler'[d] = handler[d]
    BY <1>1, <2>1, <2>3, <2>4
  <2> QED
    BY <1>1, <2>4, <2>5, <2>6
       DEF Forwarding!Shapes, Forwarding!SessionsKnown, M, Q, F, N
<1>7. ASSUME NEW c \in Conns, Forwarding!SelectStandard(c)
      PROVE  Goal
  <2>1. Head(standard[c]) \in M /\ Tail(standard[c]) \in Seq(Q)
    BY <1>1, <1>2, <1>7, BoxTyped DEF Forwarding!SelectStandard
  <2>2. /\ Forwarding!SendResponse(c, Head(standard[c]))
        /\ standard' = [standard EXCEPT ![c] = Tail(standard[c])]
        /\ UNCHANGED <<priority, frames, forwarder, outputs>>
    BY <1>7 DEF Forwarding!SelectStandard
  <2> HIDE DEF M, Q, F, N
  <2>3. standard' \in [Conns -> Seq(Q)]
    BY <1>1, <2>1, <2>2
  <2> QED
    BY <1>1, <1>4, <2>1, <2>2, <2>3
       DEF Forwarding!Shapes, Forwarding!SessionsKnown, M, Q, F, N
<1>8. ASSUME NEW c \in Conns, Forwarding!Answer(c)
      PROVE  Goal
  <2>1. Forwarding!Reply(handler[c].frame.kind) \in M
    BY <1>1, MessagesKnown
  <2>2. /\ Forwarding!SendResponse(c, Forwarding!Reply(handler[c].frame.kind))
        /\ UNCHANGED <<standard, priority, frames, forwarder, outputs>>
    BY <1>8 DEF Forwarding!Answer
  <2> HIDE DEF M, Q, F, N
  <2> QED
    BY <1>1, <1>4, <2>1, <2>2
       DEF Forwarding!Shapes, Forwarding!SessionsKnown, M, Q, F, N
<1>9. ASSUME NEW c \in Conns,
             Forwarding!ProbeStandard(c) \/ Forwarding!SendToolResult(c)
      PROVE  Goal
  <2>1. /\ Append(standard[c], Forwarding!ProbeEvent) \in Seq(Q)
        /\ Append(standard[c], Forwarding!ToolResult) \in Seq(Q)
    BY <1>1, BoxTyped, MessagesKnown
  <2> HIDE DEF M, Q, F, N
  <2>5. PICK q \in Seq(Q) : standard' = [standard EXCEPT ![c] = q]
    BY <1>9, <2>1 DEF Forwarding!ProbeStandard, Forwarding!SendToolResult
  <2>2. /\ standard' \in [Conns -> Seq(Q)]
        /\ UNCHANGED <<priority, wire, frames, forwarder, outputs>>
    BY <1>1, <1>9, <2>5 DEF Forwarding!ProbeStandard, Forwarding!SendToolResult
  <2>3. PICK pc \in {"probe_priority", "reply"} :
          handler' = [handler EXCEPT ![c].pc = pc]
    BY <1>9 DEF Forwarding!ProbeStandard, Forwarding!SendToolResult
  <2>4. /\ handler' \in [Conns ->
             [pc : {"select", "reply", "probe_standard", "probe_priority",
                    "authorize", "bind", "tool_result", "cleanup", "unbind",
                    "closed"},
              frame : F \cup {Forwarding!NoFrame}]]
        /\ handler'[c].pc = pc
        /\ \A d \in Conns \ {c} : handler'[d] = handler[d]
    BY <1>1, <2>3
  <2> QED
    BY <1>1, <2>2, <2>4 DEF Forwarding!Shapes, Forwarding!SessionsKnown, M, Q, F, N
<1>10. ASSUME NEW c \in Conns, Forwarding!ProbePriority(c)
       PROVE  Goal
  <2>1. Append(priority[c], Forwarding!Notice) \in Seq(N)
    BY <1>1, BoxTyped
  <2> HIDE DEF M, Q, F, N
  <2>2. /\ priority' \in [Conns -> Seq(N)]
        /\ handler' = [handler EXCEPT ![c].pc = "reply"]
        /\ UNCHANGED <<standard, wire, frames, forwarder, outputs>>
    BY <1>1, <1>10, <2>1 DEF Forwarding!ProbePriority
  <2> QED
    BY <1>1, <2>2 DEF Forwarding!Shapes, Forwarding!SessionsKnown, M, Q, F, N
<1>11. ASSUME NEW c \in Conns, Forwarding!RequestWrite(c) \/ Forwarding!Bind(c)
       PROVE  Goal
  <2>1. UNCHANGED <<standard, priority, wire, frames, forwarder, outputs>>
    BY <1>11 DEF Forwarding!RequestWrite, Forwarding!Bind
  <2>2. PICK pc \in {"bind", "unbind", "tool_result", "reply"} :
          /\ handler' = [handler EXCEPT ![c].pc = pc]
          /\ pc = "bind" => handler[c].pc = "authorize"
    BY <1>11 DEF Forwarding!RequestWrite, Forwarding!Bind
  <2> HIDE DEF M, Q, F, N
  <2>3. /\ handler' \in [Conns ->
             [pc : {"select", "reply", "probe_standard", "probe_priority",
                    "authorize", "bind", "tool_result", "cleanup", "unbind",
                    "closed"},
              frame : F \cup {Forwarding!NoFrame}]]
        /\ handler'[c].pc = pc /\ handler'[c].frame = handler[c].frame
        /\ \A d \in Conns \ {c} : handler'[d] = handler[d]
    BY <1>1, <2>2
  <2> QED
    BY <1>1, <2>1, <2>2, <2>3 DEF Forwarding!Shapes, Forwarding!SessionsKnown, M, Q, F, N
<1>12. ASSUME NEW c \in Conns, Forwarding!Unbind(c)
       PROVE  Goal
  <2>1. /\ standard' = [standard EXCEPT ![c] = <<>>]
        /\ priority' = [priority EXCEPT ![c] = <<>>]
        /\ handler' = [handler EXCEPT ![c].pc = "closed"]
        /\ UNCHANGED <<wire, frames, forwarder, outputs>>
    BY <1>12 DEF Forwarding!Unbind
  <2>2. <<>> \in Seq(Q) /\ <<>> \in Seq(N)
    OBVIOUS
  <2> HIDE DEF M, Q, F, N
  <2>3. standard' \in [Conns -> Seq(Q)] /\ priority' \in [Conns -> Seq(N)]
    BY <1>1, <2>1, <2>2
  <2> QED
    BY <1>1, <2>1, <2>3 DEF Forwarding!Shapes, Forwarding!SessionsKnown, M, Q, F, N
<1>13. ASSUME NEW f \in Forwarding!Forwarders, Forwarding!Receive(f)
       PROVE  Goal
  <2>1. /\ UNCHANGED <<standard, priority, wire, frames, handler>>
        /\ outputs' = outputs + 1
        /\ \E s \in Sessions :
             forwarder' = [forwarder EXCEPT ![f] =
                             [pc |-> "lock", sid |-> s, n |-> outputs + 1]]
    BY <1>13 DEF Forwarding!Receive
  <2> HIDE DEF M, Q, F, N
  <2> QED
    BY <1>1, <2>1 DEF Forwarding!Shapes, Forwarding!SessionsKnown, M, Q, F, N
<1>14. ASSUME NEW f \in Forwarding!Forwarders, Forwarding!LockShared(f)
       PROVE  Goal
  <2>1. /\ UNCHANGED <<standard, priority, wire, frames, handler, outputs>>
        /\ forwarder[f].pc = "lock"
    BY <1>14 DEF Forwarding!LockShared
  <2>2. PICK pc \in {"recv", "send"} :
          forwarder' = [forwarder EXCEPT ![f].pc = pc]
    BY <1>14 DEF Forwarding!LockShared
  <2> HIDE DEF M, Q, F, N
  <2>3. /\ forwarder' \in [Forwarding!Forwarders ->
             [pc : {"recv", "lock", "send"}, sid : Sessions \cup {None}, n : Nat]]
        /\ forwarder'[f].sid = forwarder[f].sid
        /\ \A g \in Forwarding!Forwarders \ {f} : forwarder'[g] = forwarder[g]
    BY <1>1, <2>2
  <2> QED
    BY <1>1, <2>1, <2>3 DEF Forwarding!Shapes, Forwarding!SessionsKnown, M, Q, F, N
<1>15. ASSUME NEW f \in Forwarding!Forwarders, Forwarding!Forward(f)
       PROVE  Goal
  <2>1. /\ forwarder[f].pc = "send" /\ forwarder[f].sid \in Sessions
        /\ forwarder[f].n \in Nat
    BY <1>1, <1>15 DEF Forwarding!Forward, Forwarding!SessionsKnown
  <2>2. PICK c \in Conns : c = senders[forwarder[f].sid]
    BY <2>1 DEF Forwarding!TypeOK
  <2> DEFINE e == Forwarding!Output(f, forwarder[f].sid, forwarder[f].n)
  <2>3. /\ standard' = [standard EXCEPT ![c] = Append(standard[c], e)]
        /\ forwarder' = [forwarder EXCEPT ![f].pc = "recv"]
        /\ UNCHANGED <<priority, wire, frames, handler, outputs>>
    BY <1>15, <2>2 DEF Forwarding!Forward
  <2>4. Append(standard[c], e) \in Seq(Q)
    <3>1. e \in Q
      BY <2>1, MessagesKnown
    <3> QED
      BY <1>1, <3>1, BoxTyped
  <2> HIDE DEF M, Q, F, N, e
  <2>5. standard' \in [Conns -> Seq(Q)]
    BY <1>1, <2>3, <2>4
  <2> QED
    BY <1>1, <2>3, <2>5 DEF Forwarding!Shapes, Forwarding!SessionsKnown, M, Q, F, N
<1>16. CASE UNCHANGED Forwarding!vars
  BY <1>1, <1>16 DEF Forwarding!Shapes, Forwarding!SessionsKnown, Forwarding!vars
<1> QED
  BY <1>3, <1>5, <1>6, <1>7, <1>8, <1>9, <1>10, <1>11, <1>12, <1>13, <1>14,
     <1>15, <1>16
     DEF Forwarding!Next, Forwarding!TaskStep, Forwarding!ForwarderStep

(* No mailbox grows beyond its room. *)
LEMMA RoomNext ==
  ASSUME Forwarding!TypeOK, Forwarding!Shapes, Forwarding!SessionsKnown,
         [Forwarding!Next]_(Forwarding!vars)
  PROVE  \A d \in Conns : Len(standard'[d]) <= StandardRoom
<1> DEFINE Goal == \A d \in Conns : Len(standard'[d]) <= StandardRoom
           M == Forwarding!Queued
<1>1. /\ StandardRoom \in Nat \ {0} /\ standard \in [Conns -> Seq(M)]
      /\ \A d \in Conns : Len(standard[d]) <= StandardRoom
  BY TasksAssumption
     DEF Forwarding!ForwardingAssumption, Forwarding!TypeOK, Forwarding!Shapes
<1>2. ASSUME UNCHANGED standard
      PROVE  Goal
  BY <1>1, <1>2
<1>3. ASSUME NEW c \in Conns, NEW e \in M, Len(standard[c]) < StandardRoom,
             standard' = [standard EXCEPT ![c] = Append(standard[c], e)]
      PROVE  Goal
  <2>1. Len(Append(standard[c], e)) <= StandardRoom
    <3>1. standard[c] \in Seq(M)
      BY <1>1
    <3>2. Len(standard[c]) \in Nat /\ Len(Append(standard[c], e)) = Len(standard[c]) + 1
      BY <3>1, AppendOf
    <3> QED
      BY <1>1, <1>3, <3>2
  <2> QED
    BY <1>1, <1>3, <2>1
<1>4. ASSUME NEW c \in Conns, standard[c] # <<>>,
             standard' = [standard EXCEPT ![c] = Tail(standard[c])]
      PROVE  Goal
  <2>1. Len(Tail(standard[c])) <= StandardRoom
    <3>1. standard[c] \in Seq(M)
      BY <1>1
    <3>2. Len(standard[c]) \in Nat /\ Len(Tail(standard[c])) = Len(standard[c]) - 1
      BY <1>4, <3>1, TailOf
    <3> QED
      BY <1>1, <3>2
  <2> QED
    BY <1>1, <1>4, <2>1
<1>5. ASSUME NEW c \in Conns, standard' = [standard EXCEPT ![c] = <<>>]
      PROVE  Goal
  <2>1. Len(<<>>) = 0
    OBVIOUS
  <2> QED
    BY <1>1, <1>5, <2>1
<1>6. ASSUME NEW c \in Conns, Forwarding!ProbeStandard(c)
      PROVE  Goal
  <2>1. Len(standard[c]) < StandardRoom
    <3>1. standard[c] \in Seq(M)
      BY <1>1
    <3>2. Len(standard[c]) \in Nat
      BY <3>1
    <3> QED
      BY <1>1, <1>6, <3>2 DEF Forwarding!ProbeStandard, Forwarding!Full
  <2> QED
    BY <1>3, <1>6, <2>1, MessagesKnown DEF Forwarding!ProbeStandard
<1>7. ASSUME NEW c \in Conns, Forwarding!SendToolResult(c)
      PROVE  Goal
  <2>1. Len(standard[c]) < StandardRoom
    <3>1. standard[c] \in Seq(M)
      BY <1>1
    <3>2. Len(standard[c]) \in Nat
      BY <3>1
    <3> QED
      BY <1>1, <1>7, <3>2 DEF Forwarding!SendToolResult, Forwarding!Full
  <2> QED
    BY <1>3, <1>7, <2>1, MessagesKnown DEF Forwarding!SendToolResult
<1>8. ASSUME NEW f \in Forwarding!Forwarders, Forwarding!Forward(f)
      PROVE  Goal
  <2>1. forwarder[f].pc = "send" /\ senders[forwarder[f].sid] \in Conns
    BY <1>8 DEF Forwarding!Forward, Forwarding!TypeOK
  <2>2. PICK c \in Conns : c = senders[forwarder[f].sid]
    BY <2>1
  <2>3. PICK e \in M : e = Forwarding!Output(f, forwarder[f].sid, forwarder[f].n)
    <3>1. forwarder[f].sid \in Sessions /\ forwarder[f].n \in Nat
      BY <2>1 DEF Forwarding!SessionsKnown, Forwarding!Shapes
    <3> QED
      BY <3>1, MessagesKnown
  <2>4. Len(standard[c]) < StandardRoom
    <3>1. standard[c] \in Seq(M)
      BY <1>1
    <3>2. Len(standard[c]) \in Nat
      BY <3>1
    <3> QED
      BY <1>1, <1>8, <2>2, <3>2 DEF Forwarding!Forward, Forwarding!Full
  <2>5. standard' = [standard EXCEPT ![c] = Append(standard[c], e)]
    BY <1>8, <2>2, <2>3 DEF Forwarding!Forward
  <2> QED
    BY <1>3, <2>4, <2>5
<1>9. ASSUME NEW c \in Conns, Forwarding!SelectStandard(c)
      PROVE  Goal
  BY <1>4, <1>9 DEF Forwarding!SelectStandard
<1>10. ASSUME NEW c \in Conns, Forwarding!Unbind(c)
       PROVE  Goal
  BY <1>5, <1>10 DEF Forwarding!Unbind
<1>11. ASSUME NEW c \in Conns,
              \/ Forwarding!ClientSends(c) \/ Forwarding!SelectPriority(c)
              \/ Forwarding!SelectFrame(c) \/ Forwarding!Answer(c)
              \/ Forwarding!ProbePriority(c) \/ Forwarding!RequestWrite(c)
              \/ Forwarding!Bind(c)
       PROVE  Goal
  BY <1>2, <1>11
     DEF Forwarding!ClientSends, Forwarding!SelectPriority, Forwarding!SelectFrame,
         Forwarding!Answer, Forwarding!ProbePriority, Forwarding!RequestWrite,
         Forwarding!Bind, Forwarding!mail
<1>12. ASSUME NEW f \in Forwarding!Forwarders,
              Forwarding!Receive(f) \/ Forwarding!LockShared(f)
       PROVE  Goal
  BY <1>2, <1>12 DEF Forwarding!Receive, Forwarding!LockShared, Forwarding!mail
<1>13. CASE UNCHANGED Forwarding!vars
  BY <1>2, <1>13 DEF Forwarding!vars, Forwarding!mail
<1> QED
  BY <1>6, <1>7, <1>8, <1>9, <1>10, <1>11, <1>12, <1>13
     DEF Forwarding!Next, Forwarding!TaskStep, Forwarding!ForwarderStep

(* A step outside the lock. *)
LEMMA LockKept ==
  ASSUME Forwarding!TypeOK, NEW c \in Conns,
         UNCHANGED <<senders, owned, readers, queue, forwarder>>,
         \A d \in Conns \ {c} : handler'[d] = handler[d],
         handler[c].pc \notin {"bind", "unbind", "closed"},
         handler'[c].pc \notin {"bind", "unbind", "closed"},
         \A d \in Conns : Len(standard'[d]) <= StandardRoom
  PROVE  Forwarding!TypeOK'
BY DEF Forwarding!TypeOK, Forwarding!At

(* The lock is used as a lock. *)
LEMMA LockNext ==
  ASSUME Forwarding!TypeOK, Forwarding!Shapes, Forwarding!Shapes',
         Forwarding!SessionsKnown, Forwarding!SessionsKnown',
         [Forwarding!Next]_(Forwarding!vars)
  PROVE  Forwarding!TypeOK'
<1> DEFINE P == Forwarding!Processes
           Members == {c \in Conns : handler[c].pc \in {"bind", "unbind"}}
                        \cup {f \in Forwarding!Forwarders : forwarder[f].pc = "lock"}
<1> USE DEF Forwarding!At, Forwarding!Frame, Forwarding!lock, Forwarding!mail
<1>1. \A d \in Conns : Len(standard'[d]) <= StandardRoom
  BY RoomNext
<1>2. /\ senders \in [Sessions -> Conns \cup {None}]
      /\ queue \in Seq(P) /\ \A i, j \in 1 .. Len(queue) : queue[i] = queue[j] => i = j
      /\ Forwarding!ToSet(queue) = Members
      /\ readers = {f \in Forwarding!Forwarders : forwarder[f].pc = "send"}
      /\ \A f \in readers : senders[forwarder[f].sid] \in Conns
      /\ owned \in [Conns -> SUBSET Sessions]
      /\ \A s \in Sessions, c \in Conns : senders[s] = c => s \in owned[c]
      /\ \A c \in Conns : handler[c].pc = "closed" => owned[c] = {}
  BY DEF Forwarding!TypeOK
<1>3. /\ DOMAIN handler = Conns /\ DOMAIN forwarder = Forwarding!Forwarders
      /\ \A c \in Conns : DOMAIN handler[c] = {"pc", "frame"}
      /\ \A f \in Forwarding!Forwarders : DOMAIN forwarder[f] = {"pc", "sid", "n"}
  BY DEF Forwarding!Shapes, Forwarding!ClientFrame
<1>4. Conns \cap Forwarding!Forwarders = {} /\ None \notin Conns
  BY TasksAssumption DEF Forwarding!ForwardingAssumption
<1>5. ASSUME NEW c \in Conns, Forwarding!ClientSends(c)
      PROVE  Forwarding!TypeOK'
  BY <1>1, <1>5 DEF Forwarding!ClientSends, Forwarding!TypeOK
<1>6. ASSUME NEW c \in Conns, NEW e, Forwarding!SendResponse(c, e),
             handler[c].pc \in {"select", "reply"},
             UNCHANGED <<senders, owned, readers, queue, forwarder>>
      PROVE  Forwarding!TypeOK'
  <2>1. /\ \A d \in Conns \ {c} : handler'[d] = handler[d]
        /\ handler'[c].pc \in {"select", "cleanup"}
    BY <1>3, <1>6 DEF Forwarding!SendResponse, Forwarding!Go
  <2> QED
    BY <1>1, <1>6, <2>1, LockKept
<1>7. ASSUME NEW c \in Conns,
             \/ Forwarding!SelectPriority(c) \/ Forwarding!SelectStandard(c)
             \/ Forwarding!Answer(c)
      PROVE  Forwarding!TypeOK'
  BY <1>6, <1>7 DEF Forwarding!SelectPriority, Forwarding!SelectStandard,
     Forwarding!Answer
<1>8. ASSUME NEW c \in Conns, Forwarding!SelectFrame(c)
      PROVE  Forwarding!TypeOK'
  <2>1. /\ \A d \in Conns \ {c} : handler'[d] = handler[d]
        /\ handler'[c].pc \in {"reply", "probe_standard", "authorize", "cleanup"}
        /\ handler[c].pc = "select"
        /\ UNCHANGED <<senders, owned, readers, queue, forwarder>>
    BY <1>3, <1>8 DEF Forwarding!SelectFrame
  <2> QED
    BY <1>1, <2>1, LockKept
<1>9. ASSUME NEW c \in Conns,
             \/ Forwarding!ProbeStandard(c) \/ Forwarding!ProbePriority(c)
             \/ Forwarding!SendToolResult(c)
      PROVE  Forwarding!TypeOK'
  <2>1. /\ \A d \in Conns \ {c} : handler'[d] = handler[d]
        /\ handler'[c].pc \in {"probe_priority", "reply"}
        /\ handler[c].pc \in {"probe_standard", "probe_priority", "tool_result"}
        /\ UNCHANGED <<senders, owned, readers, queue, forwarder>>
    BY <1>3, <1>9 DEF Forwarding!ProbeStandard, Forwarding!ProbePriority,
       Forwarding!SendToolResult, Forwarding!Go
  <2> QED
    BY <1>1, <2>1, LockKept
<1>10. ASSUME NEW c \in Conns, Forwarding!RequestWrite(c)
       PROVE  Forwarding!TypeOK'
  <2>1. /\ \A d \in Conns \ {c} : handler'[d] = handler[d]
        /\ handler'[c].pc \in {"bind", "unbind"}
        /\ handler[c].pc \in {"authorize", "cleanup"}
        /\ queue' = Append(queue, c) /\ UNCHANGED <<senders, owned, readers, forwarder>>
    BY <1>3, <1>10 DEF Forwarding!RequestWrite, Forwarding!Go
  <2>2. c \in P /\ c \notin Members
    BY <1>4, <2>1 DEF Forwarding!Processes
  <2>3. /\ queue' \in Seq(P) /\ Forwarding!ToSet(queue') = Members \cup {c}
        /\ \A i, j \in 1 .. Len(queue') : queue'[i] = queue'[j] => i = j
    BY <1>2, <2>1, <2>2, QueueAppend
  <2>4. Members' = Members \cup {c}
    BY <2>1
  <2> HIDE DEF Members
  <2> QED
    BY <1>1, <1>2, <2>1, <2>3, <2>4 DEF Forwarding!TypeOK, Members
<1>11. ASSUME NEW c \in Conns, Forwarding!Writes(c),
              handler[c].pc \in {"bind", "unbind"}, queue' = Tail(queue)
       PROVE  /\ queue' \in Seq(P) /\ readers = {}
              /\ Forwarding!ToSet(queue') = Members \ {c}
              /\ \A i, j \in 1 .. Len(queue') : queue'[i] = queue'[j] => i = j
  <2>1. readers = {} /\ queue # <<>> /\ Head(queue) = c
    BY <1>11 DEF Forwarding!Writes
  <2> QED
    BY <1>2, <1>11, <2>1, QueueTail
<1>12. ASSUME NEW c \in Conns, Forwarding!Bind(c)
       PROVE  Forwarding!TypeOK'
  <2>1. /\ Forwarding!Writes(c) /\ queue' = Tail(queue) /\ handler[c].pc = "bind"
        /\ senders' = [senders EXCEPT ![handler[c].frame.sid] = c]
        /\ owned' = [owned EXCEPT ![c] = @ \cup {handler[c].frame.sid}]
        /\ UNCHANGED <<readers, forwarder>>
    BY <1>12 DEF Forwarding!Bind
  <2>2. /\ \A d \in Conns \ {c} : handler'[d] = handler[d]
        /\ handler'[c].pc \in {"tool_result", "reply"}
    BY <1>3, <1>12 DEF Forwarding!Bind, Forwarding!Go
  <2>3. /\ queue' \in Seq(P) /\ readers = {}
        /\ Forwarding!ToSet(queue') = Members \ {c}
        /\ \A i, j \in 1 .. Len(queue') : queue'[i] = queue'[j] => i = j
    BY <1>11, <2>1
  <2>4. Members' = Members \ {c}
    BY <1>4, <2>1, <2>2
  <2>5. handler[c].frame.sid \in Sessions
    BY <2>1 DEF Forwarding!SessionsKnown
  <2>6. /\ senders' \in [Sessions -> Conns \cup {None}]
        /\ owned' \in [Conns -> SUBSET Sessions]
        /\ \A s \in Sessions, d \in Conns : senders'[s] = d => s \in owned'[d]
        /\ \A d \in Conns : handler'[d].pc = "closed" => owned'[d] = {}
    BY <1>2, <2>1, <2>2, <2>5
  <2> HIDE DEF Members
  <2> QED
    BY <1>1, <1>2, <2>1, <2>3, <2>4, <2>6 DEF Forwarding!TypeOK, Members
<1>13. ASSUME NEW c \in Conns, Forwarding!Unbind(c)
       PROVE  Forwarding!TypeOK'
  <2>1. /\ Forwarding!Writes(c) /\ queue' = Tail(queue) /\ handler[c].pc = "unbind"
        /\ senders' = [s \in Sessions |-> IF s \in owned[c] THEN None ELSE senders[s]]
        /\ owned' = [owned EXCEPT ![c] = {}]
        /\ UNCHANGED <<readers, forwarder>>
    BY <1>13 DEF Forwarding!Unbind
  <2>2. /\ \A d \in Conns \ {c} : handler'[d] = handler[d]
        /\ handler'[c].pc = "closed"
    BY <1>3, <1>13 DEF Forwarding!Unbind, Forwarding!Go
  <2>3. /\ queue' \in Seq(P) /\ readers = {}
        /\ Forwarding!ToSet(queue') = Members \ {c}
        /\ \A i, j \in 1 .. Len(queue') : queue'[i] = queue'[j] => i = j
    BY <1>11, <2>1
  <2>4. Members' = Members \ {c}
    BY <1>4, <2>1, <2>2
  <2>6. /\ senders' \in [Sessions -> Conns \cup {None}]
        /\ owned' \in [Conns -> SUBSET Sessions]
        /\ \A s \in Sessions, d \in Conns : senders'[s] = d => s \in owned'[d]
        /\ \A d \in Conns : handler'[d].pc = "closed" => owned'[d] = {}
    BY <1>2, <1>4, <2>1, <2>2
  <2> HIDE DEF Members
  <2> QED
    BY <1>1, <1>2, <2>1, <2>3, <2>4, <2>6 DEF Forwarding!TypeOK, Members
<1>14. ASSUME NEW f \in Forwarding!Forwarders, Forwarding!Receive(f)
       PROVE  Forwarding!TypeOK'
  <2>1. /\ queue' = Append(queue, f) /\ UNCHANGED <<senders, owned, readers, handler>>
        /\ forwarder[f].pc = "recv" /\ forwarder'[f].pc = "lock"
        /\ \A g \in Forwarding!Forwarders \ {f} : forwarder'[g] = forwarder[g]
    BY <1>3, <1>14 DEF Forwarding!Receive
  <2>2. f \in P /\ f \notin Members
    BY <1>4, <2>1 DEF Forwarding!Processes
  <2>3. /\ queue' \in Seq(P) /\ Forwarding!ToSet(queue') = Members \cup {f}
        /\ \A i, j \in 1 .. Len(queue') : queue'[i] = queue'[j] => i = j
    BY <1>2, <2>1, <2>2, QueueAppend
  <2>4. Members' = Members \cup {f}
    BY <2>1
  <2>5. /\ readers' = {g \in Forwarding!Forwarders : forwarder'[g].pc = "send"}
        /\ \A g \in readers' : senders[forwarder'[g].sid] \in Conns
    BY <1>2, <2>1
  <2> HIDE DEF Members
  <2> QED
    BY <1>1, <1>2, <2>1, <2>3, <2>4, <2>5 DEF Forwarding!TypeOK, Members
<1>15. ASSUME NEW f \in Forwarding!Forwarders, Forwarding!LockShared(f)
       PROVE  Forwarding!TypeOK'
  <2>1. /\ queue' = Tail(queue) /\ queue # <<>> /\ Head(queue) = f
        /\ UNCHANGED <<senders, owned, handler>> /\ forwarder[f].pc = "lock"
        /\ \A g \in Forwarding!Forwarders \ {f} : forwarder'[g] = forwarder[g]
        /\ forwarder'[f].sid = forwarder[f].sid
    BY <1>3, <1>15 DEF Forwarding!LockShared
  <2>2. /\ queue' \in Seq(P) /\ Forwarding!ToSet(queue') = Members \ {f}
        /\ \A i, j \in 1 .. Len(queue') : queue'[i] = queue'[j] => i = j
    BY <1>2, <2>1, QueueTail
  <2>3. /\ forwarder'[f].pc \in {"recv", "send"}
        /\ readers' = IF forwarder'[f].pc = "send" THEN readers \cup {f} ELSE readers
        /\ forwarder'[f].pc = "send" => senders[forwarder[f].sid] # None
    BY <1>3, <1>15 DEF Forwarding!LockShared
  <2>4. Members' = Members \ {f}
    BY <1>4, <2>1, <2>3
  <2>5. forwarder[f].sid \in Sessions
    BY <2>1 DEF Forwarding!SessionsKnown
  <2>6. /\ readers' = {g \in Forwarding!Forwarders : forwarder'[g].pc = "send"}
        /\ \A g \in readers' : senders[forwarder'[g].sid] \in Conns
    BY <1>2, <2>1, <2>3, <2>5
  <2> HIDE DEF Members
  <2> QED
    BY <1>1, <1>2, <2>1, <2>2, <2>4, <2>6 DEF Forwarding!TypeOK, Members
<1>16. ASSUME NEW f \in Forwarding!Forwarders, Forwarding!Forward(f)
       PROVE  Forwarding!TypeOK'
  <2>1. /\ UNCHANGED <<senders, owned, queue, handler>> /\ forwarder[f].pc = "send"
        /\ readers' = readers \ {f} /\ forwarder'[f].pc = "recv"
        /\ \A g \in Forwarding!Forwarders \ {f} : forwarder'[g] = forwarder[g]
    BY <1>3, <1>16 DEF Forwarding!Forward
  <2>2. Members' = Members
    BY <2>1
  <2>3. /\ readers' = {g \in Forwarding!Forwarders : forwarder'[g].pc = "send"}
        /\ \A g \in readers' : senders[forwarder'[g].sid] \in Conns
    BY <1>2, <2>1
  <2> HIDE DEF Members
  <2> QED
    BY <1>1, <1>2, <2>1, <2>2, <2>3 DEF Forwarding!TypeOK, Members
<1>17. CASE UNCHANGED Forwarding!vars
  BY <1>1, <1>17 DEF Forwarding!vars, Forwarding!TypeOK
<1> QED
  BY <1>5, <1>7, <1>8, <1>9, <1>10, <1>12, <1>13, <1>14, <1>15, <1>16, <1>17
     DEF Forwarding!Next, Forwarding!TaskStep, Forwarding!ForwarderStep

(* How the probes of a connection stand. *)
ProbeBooks(w, q, p, pc) ==
  /\ Len(p) <= 1
  /\ pc \notin {"select", "reply", "cleanup", "unbind"} => p = <<>>
  /\ Forwarding!HowMany(w, "probe") <= Forwarding!HowMany(w, "notice")
  /\ pc \notin {"cleanup", "unbind", "closed"} =>
       Forwarding!HowMany(w, "probe") + Forwarding!HowMany(q, "probe") =
         Forwarding!HowMany(w, "notice") + Len(p)
           + IF pc = "probe_priority" THEN 1 ELSE 0

ProbesInv ==
  \A c \in Conns : ProbeBooks(wire[c], standard[c], priority[c], handler[c].pc)

(* They stand so in the invariant of OutputForwarding. *)
LEMMA ProbesAre ==
  ProbesInv <=> /\ Forwarding!PriorityInv /\ Forwarding!NoticeFirst
                /\ Forwarding!ProbesBalanced
BY DEF ProbesInv, ProbeBooks, Forwarding!PriorityInv, Forwarding!NoticeFirst,
       Forwarding!ProbesBalanced, Forwarding!Leaving, Forwarding!At

(* A mailbox with one message is empty without it. *)
LEMMA LastMessage ==
  ASSUME NEW S, NEW q \in Seq(S), q # <<>>, Len(q) <= 1
  PROVE  Len(q) = 1 /\ Tail(q) = <<>> /\ Len(Tail(q)) = 0
<1>1. Len(q) \in Nat /\ Len(q) # 0 /\ Len(Tail(q)) = Len(q) - 1
  OBVIOUS
<1>2. Len(q) = 1 /\ Len(Tail(q)) = 0
  BY <1>1
<1>3. Tail(q) \in Seq(S)
  OBVIOUS
<1>4. ASSUME NEW t \in Seq(S), Len(t) = 0
      PROVE  t = <<>>
  BY <1>4
<1> QED
  BY <1>2, <1>3, <1>4

(* The notice of a probe precedes its standard event. *)
LEMMA ProbesNext ==
  ASSUME ProbesInv, Forwarding!Shapes, Forwarding!TypeOK, Forwarding!SessionsKnown,
         [Forwarding!Next]_(Forwarding!vars)
  PROVE  ProbesInv'
<1> DEFINE M == Forwarding!Message
           Q == Forwarding!Queued
<1> USE DEF Forwarding!At, Forwarding!lock, Forwarding!mail, Forwarding!Go
<1>1. /\ standard \in [Conns -> Seq(Q)] /\ wire \in [Conns -> Seq(M)]
      /\ priority \in [Conns -> Seq({Forwarding!Notice})]
      /\ DOMAIN handler = Conns /\ \A c \in Conns : DOMAIN handler[c] = {"pc", "frame"}
  BY DEF Forwarding!Shapes, Forwarding!ClientFrame
<1>2. \A c \in Conns, k \in {"probe", "notice"} :
        /\ Forwarding!HowMany(wire[c], k) \in Nat
        /\ Forwarding!HowMany(standard[c], k) \in Nat
  BY <1>1, CountOf
<1>3. \A c \in Conns : \A e \in M :
        /\ Forwarding!HowMany(Append(wire[c], e), "probe") =
             Forwarding!HowMany(wire[c], "probe") + IF e.from = "probe" THEN 1 ELSE 0
        /\ Forwarding!HowMany(Append(wire[c], e), "notice") =
             Forwarding!HowMany(wire[c], "notice") + IF e.from = "notice" THEN 1 ELSE 0
        /\ e \in Q =>
             /\ Forwarding!HowMany(Append(standard[c], e), "probe") =
                  Forwarding!HowMany(standard[c], "probe")
                    + IF e.from = "probe" THEN 1 ELSE 0
             /\ e.from # "notice"
  <2>1. \A c \in Conns : wire[c] \in Seq(M) /\ standard[c] \in Seq(Q)
    BY <1>1
  <2>2. \A e \in Q : e.from # "notice"
    BY DEF Forwarding!Queued
  <2> HIDE DEF M, Q
  <2> QED
    BY <2>1, <2>2, AppendCounts
<1>4. \A c \in Conns : standard[c] # <<>> =>
        /\ Head(standard[c]) \in Q
        /\ Forwarding!HowMany(Tail(standard[c]), "probe") \in Nat
        /\ Forwarding!HowMany(standard[c], "probe") =
             Forwarding!HowMany(Tail(standard[c]), "probe")
               + IF Head(standard[c]).from = "probe" THEN 1 ELSE 0
  <2> SUFFICES ASSUME NEW c \in Conns, standard[c] # <<>>
               PROVE  /\ Head(standard[c]) \in Q
                      /\ Forwarding!HowMany(Tail(standard[c]), "probe") \in Nat
                      /\ Forwarding!HowMany(standard[c], "probe") =
                           Forwarding!HowMany(Tail(standard[c]), "probe")
                             + IF Head(standard[c]).from = "probe" THEN 1 ELSE 0
    OBVIOUS
  <2>1. standard[c] \in Seq(Q)
    BY <1>1
  <2>2. Head(standard[c]) \in Q /\ Head(standard[c]) = standard[c][1]
    BY <2>1, BoxTyped
  <2> QED
    BY <2>1, <2>2, TailCounts
<1>5. \A c \in Conns :
        /\ Len(priority[c]) \in Nat
        /\ Len(Append(priority[c], Forwarding!Notice)) = Len(priority[c]) + 1
        /\ priority[c] # <<>> =>
             /\ Head(priority[c]) = Forwarding!Notice
             /\ Len(Tail(priority[c])) = Len(priority[c]) - 1
        /\ priority[c] = <<>> <=> Len(priority[c]) = 0
  <2> SUFFICES ASSUME NEW c \in Conns
               PROVE  /\ Len(priority[c]) \in Nat
                      /\ Len(Append(priority[c], Forwarding!Notice)) =
                           Len(priority[c]) + 1
                      /\ priority[c] # <<>> =>
                           /\ Head(priority[c]) = Forwarding!Notice
                           /\ Len(Tail(priority[c])) = Len(priority[c]) - 1
                      /\ priority[c] = <<>> <=> Len(priority[c]) = 0
    OBVIOUS
  <2>1. priority[c] \in Seq({Forwarding!Notice})
    BY <1>1
  <2> QED
    BY <2>1
<1>6. \A c \in Conns : ProbeBooks(wire[c], standard[c], priority[c], handler[c].pc)
  BY DEF ProbesInv
<1> DEFINE Other(c) == \A d \in Conns \ {c} :
              /\ wire'[d] = wire[d] /\ standard'[d] = standard[d]
              /\ priority'[d] = priority[d] /\ handler'[d] = handler[d]
           Books(c) == ProbeBooks(wire'[c], standard'[c], priority'[c], handler'[c].pc)
<1>7. ASSUME NEW c \in Conns, Other(c), Books(c)
      PROVE  ProbesInv'
  BY <1>6, <1>7 DEF ProbesInv
<1>8. ASSUME UNCHANGED <<wire, standard, priority, handler>>
      PROVE  ProbesInv'
  BY <1>8 DEF ProbesInv
<1>9. ASSUME NEW c \in Conns, NEW e, Forwarding!SendResponse(c, e)
      PROVE  /\ \A d \in Conns \ {c} : wire'[d] = wire[d] /\ handler'[d] = handler[d]
             /\ \/ wire'[c] = Append(wire[c], e) /\ handler'[c].pc = "select"
                \/ wire'[c] = wire[c] /\ handler'[c].pc = "cleanup"
  BY <1>1, <1>9 DEF Forwarding!SendResponse
<1>10. ASSUME NEW c \in Conns, Forwarding!SelectPriority(c)
       PROVE  ProbesInv'
  <2>1. /\ handler[c].pc = "select" /\ priority[c] # <<>>
        /\ Forwarding!SendResponse(c, Forwarding!Notice)
        /\ priority' = [priority EXCEPT ![c] = Tail(priority[c])]
        /\ UNCHANGED standard
    BY <1>5, <1>10 DEF Forwarding!SelectPriority
  <2>2. Other(c) /\ priority'[c] = Tail(priority[c]) /\ standard'[c] = standard[c]
    BY <1>1, <1>9, <2>1
  <2>3. \/ wire'[c] = Append(wire[c], Forwarding!Notice) /\ handler'[c].pc = "select"
        \/ wire'[c] = wire[c] /\ handler'[c].pc = "cleanup"
    BY <1>9, <2>1
  <2>5. /\ Forwarding!HowMany(Append(wire[c], Forwarding!Notice), "probe") =
             Forwarding!HowMany(wire[c], "probe")
        /\ Forwarding!HowMany(Append(wire[c], Forwarding!Notice), "notice") =
             Forwarding!HowMany(wire[c], "notice") + 1
    BY <1>2, <1>3, MessagesKnown, SourcesKnown
  <2>6. ProbeBooks(wire[c], standard[c], priority[c], "select")
    BY <1>6, <2>1
  <2>7. Len(priority[c]) = 1 /\ Len(priority'[c]) = 0 /\ priority'[c] = <<>>
    <3>1. priority[c] \in Seq({Forwarding!Notice}) /\ priority[c] # <<>>
      BY <1>1, <2>1
    <3>2. Len(priority[c]) <= 1
      BY <2>6 DEF ProbeBooks
    <3>3. Len(priority[c]) = 1 /\ Tail(priority[c]) = <<>> /\ Len(Tail(priority[c])) = 0
      BY <3>1, <3>2, LastMessage
    <3> QED
      BY <2>2, <3>3
  <2>8. /\ Forwarding!HowMany(wire[c], "probe") \in Nat
        /\ Forwarding!HowMany(wire[c], "notice") \in Nat
        /\ Forwarding!HowMany(standard[c], "probe") \in Nat
    BY <1>2
  <2>4. Books(c)
    <3>1. CASE wire'[c] = Append(wire[c], Forwarding!Notice) /\ handler'[c].pc = "select"
      <4>1. Forwarding!HowMany(wire[c], "probe") + Forwarding!HowMany(standard[c], "probe")
              = Forwarding!HowMany(wire[c], "notice") + 1
        BY <2>6, <2>7, <2>8 DEF ProbeBooks
      <4>2. /\ Forwarding!HowMany(wire'[c], "probe") = Forwarding!HowMany(wire[c], "probe")
            /\ Forwarding!HowMany(wire'[c], "notice") =
                 Forwarding!HowMany(wire[c], "notice") + 1
        BY <2>5, <3>1
      <4>3. Forwarding!HowMany(wire[c], "probe") <= Forwarding!HowMany(wire[c], "notice")
        BY <2>6 DEF ProbeBooks
      <4>4. /\ handler'[c].pc = "select" /\ Len(priority'[c]) = 0
            /\ priority'[c] = <<>> /\ standard'[c] = standard[c]
        BY <2>2, <2>7, <3>1
      <4>5. Forwarding!HowMany(wire'[c], "probe") <= Forwarding!HowMany(wire'[c], "notice")
        BY <2>8, <4>2, <4>3
      <4>6. Forwarding!HowMany(wire'[c], "probe")
              + Forwarding!HowMany(standard'[c], "probe")
              = Forwarding!HowMany(wire'[c], "notice") + 0 + 0
        BY <2>8, <4>1, <4>2, <4>4
      <4> QED
        BY <4>4, <4>5, <4>6 DEF ProbeBooks
    <3>2. CASE wire'[c] = wire[c] /\ handler'[c].pc = "cleanup"
      BY <2>6, <2>7, <3>2 DEF ProbeBooks
    <3> QED
      BY <2>3, <3>1, <3>2
  <2> QED
    BY <1>7, <2>2, <2>4
<1>11. ASSUME NEW c \in Conns, Forwarding!SelectFrame(c)
       PROVE  ProbesInv'
  <2>1. /\ handler[c].pc = "select" /\ priority[c] = <<>>
        /\ UNCHANGED <<wire, standard, priority>>
    BY <1>11 DEF Forwarding!SelectFrame
  <2>2. /\ Other(c)
        /\ handler'[c].pc \in {"reply", "probe_standard", "authorize", "cleanup"}
    BY <1>1, <1>11, <2>1 DEF Forwarding!SelectFrame
  <2>3. Books(c)
    BY <1>6, <2>1, <2>2 DEF ProbeBooks
  <2> QED
    BY <1>7, <2>2, <2>3
<1>12. ASSUME NEW c \in Conns, Forwarding!SelectStandard(c)
       PROVE  ProbesInv'
  <2>1. /\ handler[c].pc = "select" /\ priority[c] = <<>> /\ standard[c] # <<>>
        /\ Forwarding!SendResponse(c, Head(standard[c]))
        /\ standard' = [standard EXCEPT ![c] = Tail(standard[c])]
        /\ UNCHANGED priority
    BY <1>12 DEF Forwarding!SelectStandard
  <2>2. Other(c) /\ standard'[c] = Tail(standard[c]) /\ priority'[c] = priority[c]
    BY <1>1, <1>9, <2>1
  <2>3. \/ wire'[c] = Append(wire[c], Head(standard[c])) /\ handler'[c].pc = "select"
        \/ wire'[c] = wire[c] /\ handler'[c].pc = "cleanup"
    BY <1>9, <2>1
  <2>4. PICK e \in Q : e = Head(standard[c])
    BY <1>4, <2>1
  <2>6. /\ Forwarding!HowMany(Append(wire[c], e), "probe") =
             Forwarding!HowMany(wire[c], "probe") + IF e.from = "probe" THEN 1 ELSE 0
        /\ Forwarding!HowMany(Append(wire[c], e), "notice") =
             Forwarding!HowMany(wire[c], "notice")
    BY <1>2, <1>3 DEF Forwarding!Queued
  <2>7. /\ Forwarding!HowMany(standard'[c], "probe") \in Nat
        /\ Forwarding!HowMany(standard[c], "probe") =
             Forwarding!HowMany(standard'[c], "probe") + IF e.from = "probe" THEN 1 ELSE 0
    BY <1>4, <2>1, <2>2, <2>4
  <2>8. ProbeBooks(wire[c], standard[c], <<>>, "select") /\ Len(<<>>) = 0
    BY <1>6, <2>1
  <2>9. priority'[c] = <<>>
    BY <2>1, <2>2
  <2>10. /\ Forwarding!HowMany(wire[c], "probe") \in Nat
         /\ Forwarding!HowMany(wire[c], "notice") \in Nat
    BY <1>2
  <2>5. Books(c)
    <3>1. CASE wire'[c] = Append(wire[c], e) /\ handler'[c].pc = "select"
      BY <2>10, <2>6, <2>7, <2>8, <2>9, <3>1 DEF ProbeBooks
    <3>2. CASE wire'[c] = wire[c] /\ handler'[c].pc = "cleanup"
      BY <2>8, <2>9, <3>2 DEF ProbeBooks
    <3> QED
      BY <2>3, <2>4, <3>1, <3>2
  <2> QED
    BY <1>7, <2>2, <2>5
<1>13. ASSUME NEW c \in Conns, Forwarding!Answer(c)
       PROVE  ProbesInv'
  <2>1. PICK e \in M : /\ e.from = "reply" /\ Forwarding!SendResponse(c, e)
                       /\ handler[c].pc = "reply" /\ UNCHANGED <<standard, priority>>
    BY <1>13, MessagesKnown, SourcesKnown
       DEF Forwarding!Answer, Forwarding!Frame, Forwarding!Shapes
  <2>2. Other(c) /\ standard'[c] = standard[c] /\ priority'[c] = priority[c]
    BY <1>1, <1>9, <2>1
  <2>3. \/ wire'[c] = Append(wire[c], e) /\ handler'[c].pc = "select"
        \/ wire'[c] = wire[c] /\ handler'[c].pc = "cleanup"
    BY <1>9, <2>1
  <2>5. /\ Forwarding!HowMany(Append(wire[c], e), "probe") =
             Forwarding!HowMany(wire[c], "probe")
        /\ Forwarding!HowMany(Append(wire[c], e), "notice") =
             Forwarding!HowMany(wire[c], "notice")
    BY <1>2, <1>3, <2>1
  <2>6. ProbeBooks(wire[c], standard[c], priority[c], "reply")
    BY <1>6, <2>1
  <2>4. Books(c)
    BY <2>2, <2>3, <2>5, <2>6 DEF ProbeBooks
  <2> QED
    BY <1>7, <2>2, <2>4
<1>14. ASSUME NEW c \in Conns, Forwarding!ProbeStandard(c)
       PROVE  ProbesInv'
  <2>1. /\ handler[c].pc = "probe_standard" /\ UNCHANGED <<wire, priority>>
        /\ standard' = [standard EXCEPT ![c] = Append(standard[c], Forwarding!ProbeEvent)]
        /\ handler' = [handler EXCEPT ![c].pc = "probe_priority"]
    BY <1>14 DEF Forwarding!ProbeStandard
  <2>2. /\ Other(c) /\ handler'[c].pc = "probe_priority"
        /\ standard'[c] = Append(standard[c], Forwarding!ProbeEvent)
        /\ wire'[c] = wire[c] /\ priority'[c] = priority[c]
    BY <1>1, <2>1
  <2>4. Forwarding!HowMany(Append(standard[c], Forwarding!ProbeEvent), "probe") =
          Forwarding!HowMany(standard[c], "probe") + 1
    BY <1>3, MessagesKnown, SourcesKnown DEF Forwarding!Queued
  <2>5. ProbeBooks(wire[c], standard[c], priority[c], "probe_standard")
    BY <1>6, <2>1
  <2>6. priority'[c] = <<>> /\ priority[c] = <<>> /\ Len(<<>>) = 0
    BY <2>2, <2>5 DEF ProbeBooks
  <2>3. Books(c)
    BY <1>2, <2>2, <2>4, <2>5, <2>6 DEF ProbeBooks
  <2> QED
    BY <1>7, <2>2, <2>3
<1>15. ASSUME NEW c \in Conns, Forwarding!ProbePriority(c)
       PROVE  ProbesInv'
  <2>1. /\ handler[c].pc = "probe_priority" /\ UNCHANGED <<wire, standard>>
        /\ priority' = [priority EXCEPT ![c] = Append(priority[c], Forwarding!Notice)]
        /\ handler' = [handler EXCEPT ![c].pc = "reply"]
    BY <1>15 DEF Forwarding!ProbePriority
  <2>2. /\ Other(c) /\ handler'[c].pc = "reply"
        /\ priority'[c] = Append(priority[c], Forwarding!Notice)
        /\ wire'[c] = wire[c] /\ standard'[c] = standard[c]
    BY <1>1, <2>1
  <2>3. Books(c)
    BY <1>2, <1>5, <1>6, <2>1, <2>2 DEF ProbeBooks
  <2> QED
    BY <1>7, <2>2, <2>3
<1>16. ASSUME NEW c \in Conns, Forwarding!RequestWrite(c) \/ Forwarding!Bind(c)
       PROVE  ProbesInv'
  <2>1. /\ UNCHANGED <<wire, standard, priority>>
        /\ \/ handler[c].pc = "cleanup" /\ handler' = [handler EXCEPT ![c].pc = "unbind"]
           \/ /\ handler[c].pc \in {"authorize", "bind"}
              /\ \E pc \in {"bind", "tool_result", "reply"} :
                   handler' = [handler EXCEPT ![c].pc = pc]
    BY <1>16 DEF Forwarding!RequestWrite, Forwarding!Bind
  <2>2. /\ Other(c)
        /\ \/ handler[c].pc = "cleanup" /\ handler'[c].pc = "unbind"
           \/ /\ handler[c].pc \in {"authorize", "bind"}
              /\ handler'[c].pc \in {"bind", "tool_result", "reply"}
    BY <1>1, <2>1
  <2>3. Books(c)
    BY <1>5, <1>6, <2>1, <2>2 DEF ProbeBooks
  <2> QED
    BY <1>7, <2>2, <2>3
<1>17. ASSUME NEW c \in Conns, Forwarding!SendToolResult(c)
       PROVE  ProbesInv'
  <2>1. /\ handler[c].pc = "tool_result" /\ UNCHANGED <<wire, priority>>
        /\ standard' = [standard EXCEPT ![c] = Append(standard[c], Forwarding!ToolResult)]
        /\ handler' = [handler EXCEPT ![c].pc = "reply"]
    BY <1>17 DEF Forwarding!SendToolResult
  <2>2. /\ Other(c) /\ handler'[c].pc = "reply"
        /\ standard'[c] = Append(standard[c], Forwarding!ToolResult)
        /\ wire'[c] = wire[c] /\ priority'[c] = priority[c]
    BY <1>1, <2>1
  <2>3. Books(c)
    BY <1>2, <1>3, <1>5, <1>6, <2>1, <2>2, MessagesKnown, SourcesKnown
       DEF ProbeBooks, Forwarding!Queued
  <2> QED
    BY <1>7, <2>2, <2>3
<1>18. ASSUME NEW c \in Conns, Forwarding!Unbind(c)
       PROVE  ProbesInv'
  <2>1. /\ UNCHANGED wire /\ priority' = [priority EXCEPT ![c] = <<>>]
        /\ standard' = [standard EXCEPT ![c] = <<>>]
        /\ handler' = [handler EXCEPT ![c].pc = "closed"]
    BY <1>18 DEF Forwarding!Unbind
  <2>2. /\ Other(c) /\ handler'[c].pc = "closed" /\ priority'[c] = <<>>
        /\ wire'[c] = wire[c] /\ Len(<<>>) = 0
    BY <1>1, <2>1
  <2>3. Books(c)
    BY <1>6, <2>2 DEF ProbeBooks
  <2> QED
    BY <1>7, <2>2, <2>3
<1>19. ASSUME NEW f \in Forwarding!Forwarders, Forwarding!Forward(f)
       PROVE  ProbesInv'
  <2>1. forwarder[f].pc = "send" /\ senders[forwarder[f].sid] \in Conns
    BY <1>19 DEF Forwarding!Forward, Forwarding!TypeOK
  <2>2. PICK c \in Conns : c = senders[forwarder[f].sid]
    BY <2>1
  <2>3. PICK e \in Q : e = Forwarding!Output(f, forwarder[f].sid, forwarder[f].n)
    <3>1. forwarder[f].sid \in Sessions /\ forwarder[f].n \in Nat
      BY <2>1 DEF Forwarding!SessionsKnown, Forwarding!Shapes
    <3> QED
      BY <3>1, MessagesKnown
  <2>4. /\ standard' = [standard EXCEPT ![c] = Append(standard[c], e)]
        /\ UNCHANGED <<wire, priority, handler>>
    BY <1>19, <2>2, <2>3 DEF Forwarding!Forward
  <2>5. Other(c) /\ standard'[c] = Append(standard[c], e) /\ e.from # "probe"
    BY <1>1, <2>3, <2>4, SourcesKnown
  <2>6. Books(c)
    BY <1>2, <1>3, <1>6, <2>4, <2>5 DEF ProbeBooks, Forwarding!Queued
  <2> QED
    BY <1>7, <2>5, <2>6
<1>20. ASSUME NEW c \in Conns, Forwarding!ClientSends(c)
       PROVE  ProbesInv'
  BY <1>8, <1>20 DEF Forwarding!ClientSends
<1>21. ASSUME NEW f \in Forwarding!Forwarders,
              Forwarding!Receive(f) \/ Forwarding!LockShared(f)
       PROVE  ProbesInv'
  BY <1>8, <1>21 DEF Forwarding!Receive, Forwarding!LockShared
<1>22. CASE UNCHANGED Forwarding!vars
  BY <1>8, <1>22 DEF Forwarding!vars
<1> QED
  BY <1>10, <1>11, <1>12, <1>13, <1>14, <1>15, <1>16, <1>17, <1>18, <1>19,
     <1>20, <1>21, <1>22
     DEF Forwarding!Next, Forwarding!TaskStep, Forwarding!ForwarderStep

(* What a forwarder has forwarded is below this. *)
Bound(f) == IF forwarder[f].pc # "recv" THEN forwarder[f].n ELSE outputs + 1

OutputsOf(w, q, f, m) == InLine(w, q, f) /\ Below(w, f, m) /\ Below(q, f, m)

Ordered ==
  \A f \in Forwarding!Forwarders :
    /\ forwarder[f].n <= outputs
    /\ \A c \in Conns : OutputsOf(wire[c], standard[c], f, Bound(f))

(* The order of the mailboxes, said of one connection and one forwarder. *)
LEMMA OrderedMeans ==
  Forwarding!Shapes =>
    (Ordered <=> /\ Forwarding!OutputsInOrder /\ Forwarding!MailboxOrder
                 /\ Forwarding!WireFirst /\ Forwarding!ForwardedLast)
<1> SUFFICES ASSUME Forwarding!Shapes
             PROVE  Ordered <=> /\ Forwarding!OutputsInOrder /\ Forwarding!MailboxOrder
                                /\ Forwarding!WireFirst /\ Forwarding!ForwardedLast
  OBVIOUS
<1> DEFINE Typed(q) == \A i \in 1 .. Len(q) : q[i].n \in Nat
           F == Forwarding!Forwarders
<1>1. \A c \in Conns : Typed(wire[c]) /\ Typed(standard[c])
  <2> SUFFICES ASSUME NEW c \in Conns
               PROVE  Typed(wire[c]) /\ Typed(standard[c])
    OBVIOUS
  <2>1. wire[c] \in Seq(Forwarding!Message) /\ standard[c] \in Seq(Forwarding!Message)
    <3>1. /\ wire[c] \in Seq(Forwarding!Message)
          /\ standard[c] \in Seq(Forwarding!Queued)
      BY DEF Forwarding!Shapes
    <3>2. \A e \in Forwarding!Queued : e \in Forwarding!Message
      BY DEF Forwarding!Queued
    <3> HIDE DEF Typed
    <3> QED
      BY <3>1, <3>2
  <2>2. \A e \in Forwarding!Message : e.n \in Nat
    BY DEF Forwarding!Message
  <2>3. \A q \in Seq(Forwarding!Message) : \A i \in 1 .. Len(q) : q[i] \in Forwarding!Message
    OBVIOUS
  <2> QED
    BY <2>1, <2>2, <2>3
<1>2. /\ outputs \in Nat
      /\ \A f \in F : forwarder[f].n \in Nat
  BY DEF Forwarding!Shapes
<1> HIDE DEF F
<1>3. ASSUME NEW q, NEW f \in F, Typed(q), forwarder[f].n <= outputs
      PROVE  Below(q, f, Bound(f)) <=>
               \A i \in 1 .. Len(q) : q[i].from = f => Forwarding!Passed(f, q[i].n)
  <2>1. \A n \in Nat : n < Bound(f) <=> Forwarding!Passed(f, n)
    BY <1>2, <1>3 DEF Bound, Forwarding!Passed
  <2> QED
    BY <1>3, <2>1 DEF Below
<1>4. /\ Forwarding!OutputsInOrder <=> \A c \in Conns, f \in F : Sorted(wire[c], f)
      /\ Forwarding!MailboxOrder <=> \A c \in Conns, f \in F : Sorted(standard[c], f)
      /\ Forwarding!WireFirst <=> \A c \in Conns, f \in F :
           \A i \in 1 .. Len(wire[c]), j \in 1 .. Len(standard[c]) :
             wire[c][i].from = f /\ standard[c][j].from = f =>
               wire[c][i].n < standard[c][j].n
  BY DEF Forwarding!OutputsInOrder, Forwarding!MailboxOrder, Forwarding!WireFirst,
         Sorted, F
<1>5. Forwarding!ForwardedLast <=>
        \A f \in F :
          /\ forwarder[f].n <= outputs
          /\ \A c \in Conns :
               Below(wire[c], f, Bound(f)) /\ Below(standard[c], f, Bound(f))
  <2> HIDE DEF Typed
  <2> QED
    BY <1>1, <1>3 DEF Forwarding!ForwardedLast, F
<1> QED
  BY <1>4, <1>5 DEF Ordered, OutputsOf, InLine, F

(* What is not an output changes nothing. *)
LEMMA OtherMessages ==
  ASSUME NEW S, NEW T, NEW w \in Seq(S), NEW q \in Seq(T), NEW f, NEW m,
         OutputsOf(w, q, f, m), NEW e, e.from # f
  PROVE  /\ e \in S => OutputsOf(Append(w, e), q, f, m)
         /\ e \in T => OutputsOf(w, Append(q, e), f, m)
<1>1. ASSUME e \in S
      PROVE  OutputsOf(Append(w, e), q, f, m)
  BY <1>1, SendInLine, AppendBelow DEF OutputsOf
<1>2. ASSUME e \in T
      PROVE  OutputsOf(w, Append(q, e), f, m)
  BY <1>2, AppendInLine, AppendBelow DEF OutputsOf
<1> QED
  BY <1>1, <1>2

(* The head of the mailbox goes to the client, or is lost. *)
LEMMA HeadSent ==
  ASSUME NEW S, NEW T, NEW w \in Seq(S), NEW q \in Seq(T), q # <<>>, NEW f, NEW m,
         OutputsOf(w, q, f, m), NEW e \in S, e = q[1]
  PROVE  /\ OutputsOf(Append(w, e), Tail(q), f, m)
         /\ OutputsOf(w, Tail(q), f, m)
<1>1. /\ Below(Tail(q), f, m) /\ (e.from = f => e.n < m)
      /\ InLine(w, Tail(q), f) /\ (e.from = f => Below(w, f, e.n))
      /\ e.from = f =>
           \A j \in 1 .. Len(Tail(q)) : Tail(q)[j].from = f => e.n < Tail(q)[j].n
  BY TailInLine DEF OutputsOf
<1>2. InLine(Append(w, e), Tail(q), f)
  BY <1>1, SendInLine
<1>3. Below(Append(w, e), f, m)
  BY <1>1, AppendBelow DEF OutputsOf
<1> QED
  BY <1>1, <1>2, <1>3 DEF OutputsOf

(* A bound may be raised. *)
LEMMA Raised ==
  ASSUME NEW w \in Seq(Forwarding!Message), NEW q \in Seq(Forwarding!Queued), NEW f,
         NEW m \in Nat, NEW n \in Nat, m <= n, OutputsOf(w, q, f, m)
  PROVE  OutputsOf(w, q, f, n)
<1>1. \A e \in Forwarding!Message : e.n \in Nat
  BY DEF Forwarding!Message
<1>2. \A e \in Forwarding!Queued : e.n \in Nat
  BY <1>1 DEF Forwarding!Queued
<1>3. ASSUME NEW S, \A e \in S : e.n \in Nat, NEW b \in Seq(S), Below(b, f, m)
      PROVE  Below(b, f, n)
  <2>1. \A i \in 1 .. Len(b) : b[i] \in S
    OBVIOUS
  <2>2. \A i \in 1 .. Len(b) : b[i].n \in Nat
    BY <1>3, <2>1
  <2> QED
    BY <1>3, <2>2 DEF Below
<1>4. Below(w, f, n)
  BY <1>1, <1>3 DEF OutputsOf
<1>5. Below(q, f, n)
  BY <1>2, <1>3 DEF OutputsOf
<1> QED
  BY <1>4, <1>5 DEF OutputsOf

(* Outputs stay in order from the forwarder to the client. *)
LEMMA OrderNext ==
  ASSUME Ordered, Forwarding!Shapes, Forwarding!TypeOK, Forwarding!SessionsKnown,
         [Forwarding!Next]_(Forwarding!vars)
  PROVE  Ordered'
<1> DEFINE M == Forwarding!Message
           Q == Forwarding!Queued
           F == Forwarding!Forwarders
           Line(c, f) == OutputsOf(wire[c], standard[c], f, Bound(f))
           Other(c) == \A d \in Conns \ {c} :
             wire'[d] = wire[d] /\ standard'[d] = standard[d]
           New(c) == \A f \in F : OutputsOf(wire'[c], standard'[c], f, Bound(f))
<1> USE DEF Forwarding!At, Forwarding!lock, Forwarding!mail, Forwarding!Go
<1>1. /\ standard \in [Conns -> Seq(Q)] /\ wire \in [Conns -> Seq(M)]
      /\ forwarder \in [F -> [pc : {"recv", "lock", "send"},
                              sid : Sessions \cup {None}, n : Nat]]
      /\ outputs \in Nat /\ DOMAIN handler = Conns
  BY DEF Forwarding!Shapes
<1>2. \A f \in F : forwarder[f].n <= outputs /\ \A c \in Conns : Line(c, f)
  BY DEF Ordered
<1>3. \A f \in F : Bound(f) \in Nat /\ Bound(f) <= outputs + 1 /\ forwarder[f].n \in Nat
  BY <1>1, <1>2 DEF Bound
<1>4. ASSUME NEW c \in Conns, Other(c), New(c), UNCHANGED <<forwarder, outputs>>
      PROVE  Ordered'
  <2>1. \A f \in F : Bound(f)' = Bound(f)
    BY <1>4 DEF Bound
  <2> QED
    BY <1>2, <1>4, <2>1 DEF Ordered
<1>5. ASSUME UNCHANGED <<wire, standard, forwarder, outputs>>
      PROVE  Ordered'
  BY <1>2, <1>5 DEF Ordered, Bound
<1>6. ASSUME NEW c \in Conns, NEW e, Forwarding!SendResponse(c, e)
      PROVE  /\ \A d \in Conns \ {c} : wire'[d] = wire[d]
             /\ wire'[c] = Append(wire[c], e) \/ wire'[c] = wire[c]
  BY <1>1, <1>6 DEF Forwarding!SendResponse
<1>7. ASSUME NEW c \in Conns, NEW e, \A f \in F : e.from # f
      PROVE  \A f \in F :
               /\ e \in M => OutputsOf(Append(wire[c], e), standard[c], f, Bound(f))
               /\ e \in Q => OutputsOf(wire[c], Append(standard[c], e), f, Bound(f))
  <2>1. wire[c] \in Seq(M) /\ standard[c] \in Seq(Q)
    BY <1>1
  <2> HIDE DEF M, Q, F
  <2> QED
    BY <1>2, <1>7, <2>1, OtherMessages
<1>8. ASSUME NEW c \in Conns, NEW e \in M, \A f \in F : e.from # f,
             Forwarding!SendResponse(c, e), UNCHANGED <<standard, forwarder, outputs>>
      PROVE  Ordered'
  <2>1. New(c)
    <3>1. wire'[c] = Append(wire[c], e) \/ wire'[c] = wire[c]
      BY <1>6, <1>8
    <3> QED
      BY <1>2, <1>7, <1>8, <3>1
  <2> QED
    BY <1>4, <1>6, <1>8, <2>1
<1>9. ASSUME NEW c \in Conns, NEW e \in Q, \A f \in F : e.from # f,
             standard' = [standard EXCEPT ![c] = Append(standard[c], e)],
             UNCHANGED <<wire, forwarder, outputs>>
      PROVE  Ordered'
  <2>1. Other(c) /\ standard'[c] = Append(standard[c], e) /\ wire'[c] = wire[c]
    BY <1>1, <1>9
  <2>2. New(c)
    BY <1>7, <1>9, <2>1
  <2> QED
    BY <1>4, <1>9, <2>1, <2>2
<1>10. ASSUME NEW c \in Conns, Forwarding!SelectPriority(c)
       PROVE  Ordered'
  <2>1. priority[c] \in Seq({Forwarding!Notice}) /\ priority[c] # <<>>
    BY <1>10 DEF Forwarding!Shapes, Forwarding!SelectPriority
  <2>2. Head(priority[c]) = Forwarding!Notice
    BY <2>1
  <2>3. /\ Forwarding!SendResponse(c, Forwarding!Notice)
        /\ UNCHANGED <<standard, forwarder, outputs>>
    BY <1>10, <2>2 DEF Forwarding!SelectPriority
  <2> QED
    BY <1>8, <2>3, MessagesKnown, SourcesKnown
<1>11. ASSUME NEW c \in Conns, Forwarding!SelectStandard(c)
       PROVE  Ordered'
  <2>1. /\ standard[c] # <<>> /\ UNCHANGED <<forwarder, outputs>>
        /\ Forwarding!SendResponse(c, Head(standard[c]))
        /\ standard' = [standard EXCEPT ![c] = Tail(standard[c])]
    BY <1>11 DEF Forwarding!SelectStandard
  <2>2. standard[c] \in Seq(Q) /\ wire[c] \in Seq(M)
    BY <1>1
  <2>3. PICK e \in M : e = Head(standard[c]) /\ e = standard[c][1]
    <3>1. Head(standard[c]) \in Q /\ Head(standard[c]) = standard[c][1]
      BY <2>1, <2>2, BoxTyped
    <3> QED
      BY <3>1 DEF Forwarding!Queued
  <2>4. /\ Other(c) /\ standard'[c] = Tail(standard[c])
        /\ wire'[c] = Append(wire[c], e) \/ wire'[c] = wire[c]
    BY <1>1, <1>6, <2>1, <2>3
  <2>5. New(c)
    <3> SUFFICES ASSUME NEW f \in F
                 PROVE  OutputsOf(wire'[c], standard'[c], f, Bound(f))
      OBVIOUS
    <3>1. Line(c, f)
      BY <1>2
    <3> HIDE DEF M, Q, F
    <3>2. /\ OutputsOf(Append(wire[c], e), Tail(standard[c]), f, Bound(f))
          /\ OutputsOf(wire[c], Tail(standard[c]), f, Bound(f))
      BY <2>1, <2>2, <2>3, <3>1, HeadSent
    <3> QED
      BY <2>4, <3>2
  <2> QED
    BY <1>4, <2>1, <2>4, <2>5
<1>12. ASSUME NEW c \in Conns, Forwarding!Answer(c)
       PROVE  Ordered'
  <2>1. PICK e \in M : /\ e.from = "reply" /\ Forwarding!SendResponse(c, e)
                       /\ UNCHANGED <<standard, forwarder, outputs>>
    BY <1>12, MessagesKnown, SourcesKnown
       DEF Forwarding!Answer, Forwarding!Frame, Forwarding!Shapes
  <2> QED
    BY <1>8, <2>1, SourcesKnown
<1>13. ASSUME NEW c \in Conns,
              Forwarding!ProbeStandard(c) \/ Forwarding!SendToolResult(c)
       PROVE  Ordered'
  BY <1>9, <1>13, MessagesKnown, SourcesKnown
     DEF Forwarding!ProbeStandard, Forwarding!SendToolResult
<1>14. ASSUME NEW c \in Conns, Forwarding!Unbind(c)
       PROVE  Ordered'
  <2>1. /\ Other(c) /\ standard'[c] = <<>> /\ wire'[c] = wire[c]
        /\ UNCHANGED <<forwarder, outputs>>
    BY <1>1, <1>14 DEF Forwarding!Unbind
  <2>2. Len(<<>>) = 0
    OBVIOUS
  <2>3. \A w, f, m, q : OutputsOf(w, q, f, m) => OutputsOf(w, <<>>, f, m)
    BY <2>2 DEF OutputsOf, InLine, Sorted, Below
  <2>4. New(c)
    BY <1>2, <2>1, <2>3
  <2> QED
    BY <1>4, <2>1, <2>4
<1>15. ASSUME NEW c \in Conns,
              \/ Forwarding!ClientSends(c) \/ Forwarding!SelectFrame(c)
              \/ Forwarding!ProbePriority(c) \/ Forwarding!RequestWrite(c)
              \/ Forwarding!Bind(c)
       PROVE  Ordered'
  BY <1>5, <1>15
     DEF Forwarding!ClientSends, Forwarding!SelectFrame, Forwarding!ProbePriority,
         Forwarding!RequestWrite, Forwarding!Bind
<1>16. ASSUME NEW f \in F, Forwarding!Forward(f)
       PROVE  Ordered'
  <2>1. forwarder[f].pc = "send" /\ senders[forwarder[f].sid] \in Conns
    BY <1>16 DEF Forwarding!Forward, Forwarding!TypeOK
  <2>2. PICK c \in Conns : c = senders[forwarder[f].sid]
    BY <2>1
  <2>3. PICK e \in Q : e.from = f /\ e.n = forwarder[f].n
                       /\ e = Forwarding!Output(f, forwarder[f].sid, forwarder[f].n)
    <3>1. forwarder[f].sid \in Sessions /\ forwarder[f].n \in Nat
      BY <2>1 DEF Forwarding!SessionsKnown, Forwarding!Shapes
    <3> QED
      BY <3>1, MessagesKnown, SourcesKnown
  <2>4. /\ standard' = [standard EXCEPT ![c] = Append(standard[c], e)]
        /\ forwarder' = [forwarder EXCEPT ![f].pc = "recv"]
        /\ UNCHANGED <<wire, outputs>>
    BY <1>16, <2>2, <2>3 DEF Forwarding!Forward
  <2>5. /\ Other(c) /\ standard'[c] = Append(standard[c], e) /\ wire'[c] = wire[c]
        /\ wire[c] \in Seq(M) /\ standard[c] \in Seq(Q)
    BY <1>1, <2>4
  <2>6. /\ \A g \in F \ {f} : forwarder'[g] = forwarder[g]
        /\ forwarder'[f].pc = "recv" /\ forwarder'[f].n = forwarder[f].n
    BY <1>1, <2>4
  <2>7. /\ \A g \in F : forwarder'[g].n <= outputs'
        /\ \A g \in F \ {f} : Bound(g)' = Bound(g)
        /\ Bound(f) = e.n /\ Bound(f)' = outputs + 1 /\ e.n < outputs + 1
        /\ Bound(f) <= outputs + 1
    BY <1>1, <1>2, <1>3, <2>1, <2>3, <2>4, <2>6 DEF Bound
  <2>8. ASSUME NEW g \in F \ {f}, NEW d \in Conns
        PROVE  OutputsOf(wire'[d], standard'[d], g, Bound(g)')
    <3>1. CASE d = c
      <4>1. /\ OutputsOf(wire[c], standard[c], g, Bound(g)) /\ e.from # g
            /\ wire[c] \in Seq(M) /\ standard[c] \in Seq(Q) /\ e \in Q
        BY <1>2, <2>3, <2>5
      <4> HIDE DEF M, Q, F
      <4>2. OutputsOf(wire[c], Append(standard[c], e), g, Bound(g))
        BY <4>1, OtherMessages
      <4> QED
        BY <2>5, <2>7, <3>1, <4>2
    <3>2. CASE d # c
      BY <1>2, <2>5, <2>7, <3>2
    <3> QED
      BY <3>1, <3>2
  <2>9. ASSUME NEW d \in Conns
        PROVE  OutputsOf(wire'[d], standard'[d], f, outputs + 1)
    <3>1. /\ OutputsOf(wire[d], standard[d], f, e.n) /\ e.n \in Nat
          /\ wire[d] \in Seq(M) /\ standard[d] \in Seq(Q) /\ outputs + 1 \in Nat
      BY <1>1, <1>2, <1>3, <2>7
    <3>2. OutputsOf(wire[d], standard[d], f, outputs + 1)
      BY <2>7, <3>1, Raised
    <3>3. CASE d = c
      <4> HIDE DEF M, Q, F
      <4>1. /\ InLine(wire[c], Append(standard[c], e), f)
            /\ Below(Append(standard[c], e), f, outputs + 1)
        BY <2>3, <2>7, <3>1, <3>2, <3>3, AppendInLine, AppendBelow DEF OutputsOf
      <4> QED
        BY <2>5, <3>2, <3>3, <4>1 DEF OutputsOf
    <3>4. CASE d # c
      BY <2>5, <3>2, <3>4
    <3> QED
      BY <3>3, <3>4
  <2> QED
    BY <2>7, <2>8, <2>9 DEF Ordered
<1>17. ASSUME UNCHANGED <<wire, standard>>,
              \A g \in F : forwarder'[g].n <= outputs' /\ Bound(g) <= Bound(g)'
                            /\ Bound(g)' \in Nat
       PROVE  Ordered'
  <2>1. ASSUME NEW g \in F, NEW d \in Conns
        PROVE  OutputsOf(wire[d], standard[d], g, Bound(g)')
    <3>1. /\ wire[d] \in Seq(M) /\ standard[d] \in Seq(Q) /\ Bound(g) \in Nat
          /\ OutputsOf(wire[d], standard[d], g, Bound(g))
      BY <1>1, <1>2, <1>3
    <3>2. PICK k \in Nat : k = Bound(g)' /\ Bound(g) <= k
      BY <1>17
    <3> QED
      BY <3>1, <3>2, Raised
  <2> QED
    BY <1>17, <2>1 DEF Ordered
<1>18. ASSUME NEW f \in F, Forwarding!Receive(f)
       PROVE  Ordered'
  <2>1. /\ UNCHANGED <<wire, standard>> /\ outputs' = outputs + 1
        /\ forwarder[f].pc = "recv"
        /\ forwarder'[f].pc = "lock" /\ forwarder'[f].n = outputs + 1
        /\ \A g \in F \ {f} : forwarder'[g] = forwarder[g]
    BY <1>1, <1>18 DEF Forwarding!Receive
  <2>2. \A g \in F : forwarder'[g].n <= outputs' /\ Bound(g) <= Bound(g)'
                     /\ Bound(g)' \in Nat
    BY <1>1, <1>2, <1>3, <2>1 DEF Bound
  <2> QED
    BY <1>17, <2>1, <2>2
<1>19. ASSUME NEW f \in F, Forwarding!LockShared(f)
       PROVE  Ordered'
  <2>1. /\ UNCHANGED <<wire, standard>> /\ outputs' = outputs
        /\ forwarder[f].pc = "lock"
        /\ forwarder'[f].pc \in {"recv", "send"} /\ forwarder'[f].n = forwarder[f].n
        /\ \A g \in F \ {f} : forwarder'[g] = forwarder[g]
    BY <1>1, <1>19 DEF Forwarding!LockShared
  <2>2. \A g \in F : forwarder'[g].n <= outputs' /\ Bound(g) <= Bound(g)'
                     /\ Bound(g)' \in Nat
    BY <1>1, <1>2, <1>3, <2>1 DEF Bound
  <2> QED
    BY <1>17, <2>1, <2>2
<1>20. CASE UNCHANGED Forwarding!vars
  BY <1>5, <1>20 DEF Forwarding!vars
<1> QED
  BY <1>10, <1>11, <1>12, <1>13, <1>14, <1>15, <1>16, <1>18, <1>19, <1>20
     DEF Forwarding!Next, Forwarding!TaskStep, Forwarding!ForwarderStep

(* The mailboxes are empty at first. *)
LEMMA ForwardingInit ==
  ASSUME Forwarding!Init
  PROVE  Forwarding!Shapes /\ Forwarding!SessionsKnown /\ Forwarding!TypeOK
         /\ ProbesInv /\ Ordered
<1>1. None \notin Conns \cup Sessions /\ StandardRoom \in Nat \ {0}
  BY TasksAssumption DEF Forwarding!ForwardingAssumption
<1>2. /\ \A S : <<>> \in Seq(S)
      /\ Len(<<>>) = 0 /\ Forwarding!ToSet(<<>>) = {}
  BY DEF Forwarding!ToSet
<1>3. Forwarding!Shapes /\ Forwarding!SessionsKnown
  BY <1>2 DEF Forwarding!Init, Forwarding!Shapes, Forwarding!SessionsKnown,
     Forwarding!ClientFrame, Forwarding!NoFrame
<1>4. Forwarding!TypeOK
  BY <1>1, <1>2 DEF Forwarding!Init, Forwarding!TypeOK, Forwarding!At,
     Forwarding!Processes
<1>5. ProbesInv
  <2>1. \A k : Forwarding!HowMany(<<>>, k) = 0
    <3> SUFFICES ASSUME NEW k
                 PROVE  Forwarding!HowMany(<<>>, k) = 0
      OBVIOUS
    <3>1. FromSource(<<>>, k) = {}
      BY <1>2 DEF FromSource
    <3>2. Forwarding!HowMany(<<>>, k) = Cardinality(FromSource(<<>>, k))
      BY <1>2, CountOf
    <3> QED
      BY <3>1, <3>2, FS_EmptySet
  <2> QED
    BY <1>2, <2>1 DEF Forwarding!Init, ProbesInv, ProbeBooks
<1>6. Ordered
  BY <1>2 DEF Forwarding!Init, Ordered, OutputsOf, InLine, Sorted, Below, Bound
<1> QED
  BY <1>3, <1>4, <1>5, <1>6

(* The invariant of OutputForwarding is inductive. *)
LEMMA MailboxesInductive == Forwarding!Spec => []Forwarding!IInv
<1> DEFINE Inv == /\ Forwarding!Shapes /\ Forwarding!SessionsKnown
                  /\ Forwarding!TypeOK /\ ProbesInv /\ Ordered
<1>1. Forwarding!Init => Inv
  BY ForwardingInit
<1>2. Inv /\ [Forwarding!Next]_(Forwarding!vars) => Inv'
  <2> HAVE Inv /\ [Forwarding!Next]_(Forwarding!vars)
  <2>1. Forwarding!Shapes' /\ Forwarding!SessionsKnown'
    BY ShapesNext
  <2>2. Forwarding!TypeOK'
    BY <2>1, LockNext
  <2>3. ProbesInv'
    BY ProbesNext
  <2>4. Ordered'
    BY OrderNext
  <2> QED
    BY <2>1, <2>2, <2>3, <2>4
<1>3. Inv => Forwarding!IInv
  BY ProbesAre, OrderedMeans DEF Forwarding!IInv
<1> QED
  BY <1>1, <1>2, <1>3, PTL DEF Forwarding!Spec

(* Whatever the sizes of the mailboxes and the number of connections, the  *)
(* lock of the senders is used as a lock, a probe finds room for its       *)
(* notice and the notice comes first, and a client gets the outputs of a   *)
(* forwarder in the order in which the runner produced them (handle_ws and *)
(* the forwarders, server.rs).                                             *)
THEOREM MailboxesStayInOrder == TasksSpec => []MailboxesInOrder
<1>1. Forwarding!IInv => MailboxesInOrder
  BY DEF Forwarding!IInv, Forwarding!PriorityInv, Forwarding!PriorityRoom,
         MailboxesInOrder
<1> QED
  BY <1>1, MailboxesInductive, PartsRun, PTL
=============================================================================
