------------------------------- MODULE MCTasks -------------------------------
(* The parts that are made of tasks and channels, side by side for TLC: a  *)
(* behaviour is one of the part it starts with, and the variables of the   *)
(* others keep their initial values.  The states of the parts add up       *)
(* instead of multiplying.                                                 *)
EXTENDS DockerBridge, TLC

CONSTANTS
  Conns, Sessions, Kinds, StandardRoom, NoticeRoom, MaxFrames,
  MaxOutputs,                            \* OutputForwarding
  Jobs, Principals, Cancellers, Prompt,  \* ChannelJobs
  Ids, Terminators, MaxAttempts, MaxLosses,
  Droppable,                             \* RuntimeSessions
  Media, EventRoom, MaxSpoken,           \* EventForwarder
  None

VARIABLES
  part,          \* the part that moves
  senders, owned, readers, queue, standard, priority, wire, frames, handler,
  forwarder, sent, outputs,
  channel_jobs, request, signal, job_worker, due, canceller, late,
  table, session_shutdown, tracking, creator, terminator, session_loop, closed,
  attempts, successes, failures, losses, abandoned, released,
  spoken, event_handler, channel, open, taken, sequence, files, outbox,
  terminated, arrived

Forwarding == INSTANCE OutputForwarding WITH
  Capacity <- StandardRoom, PriorityCapacity <- NoticeRoom
ChannelJob == INSTANCE ChannelJobs WITH worker <- job_worker
Runtime == INSTANCE RuntimeSessions WITH
  NoId <- None, shutdown <- session_shutdown, loop <- session_loop
Spoken == INSTANCE EventForwarder WITH
  Capacity <- EventRoom, MaxEvents <- MaxSpoken, handler <- event_handler
ASSUME TasksAssumption ==
  /\ Forwarding!ForwardingAssumption /\ ChannelJob!ChannelJobsAssumption
  /\ Runtime!RuntimeSessionsAssumption /\ Spoken!EventForwarderAssumption
forwardingVars == <<senders, owned, readers, queue, standard, priority, wire, frames,
                    handler, forwarder, sent, outputs>>
jobVars == <<channel_jobs, request, signal, job_worker, due, canceller, late>>
sessionVars == <<table, session_shutdown, tracking, creator, terminator,
                 session_loop, closed, attempts, successes, failures, losses,
                 abandoned, released>>
eventVars == <<spoken, event_handler, channel, open, taken, sequence, files, outbox,
               terminated, arrived>>
taskVars == <<part, vars, forwardingVars, jobVars, sessionVars, eventVars>>

(* Only one part moves. *)
OnlyDocker ==
  /\ part = "docker"
  /\ UNCHANGED <<part, forwardingVars, jobVars, sessionVars, eventVars>>
OnlyForwarding ==
  /\ part = "forwarding"
  /\ UNCHANGED <<part, vars, jobVars, sessionVars, eventVars>>
OnlyJobs ==
  /\ part = "jobs"
  /\ UNCHANGED <<part, vars, forwardingVars, sessionVars, eventVars>>
OnlySessions ==
  /\ part = "sessions"
  /\ UNCHANGED <<part, vars, forwardingVars, jobVars, eventVars>>
OnlyEvents ==
  /\ part = "events"
  /\ UNCHANGED <<part, vars, forwardingVars, jobVars, sessionVars>>

(* The actions of the parts. *)
BridgeClone(k) == OnlyDocker /\ closer.pc # "done" /\ Clone(k)
BridgeInsert(k) == OnlyDocker /\ Insert(k)
BridgeSend(k) == OnlyDocker /\ Send(k)
BridgeReceive(k) == OnlyDocker /\ Receive(k)
BridgeTimeout(k) == OnlyDocker /\ Timeout(k)
BridgeRemove(k) == OnlyDocker /\ Remove(k)
BridgeDrop(k) == OnlyDocker /\ Drop(k)
BridgeExecute(g) == OnlyDocker /\ Execute(g)
BridgeWorkerCloses(g) == OnlyDocker /\ WorkerCloses(g)
BridgeWorkerDies(g) == OnlyDocker /\ WorkerDies(g)
BridgeWorkerEvent(g) == OnlyDocker /\ WorkerEvent(g)
BridgeWriterFails(g) == OnlyDocker /\ WriterFails(g)
BridgeConnect == OnlyDocker /\ Connect
BridgeRun == OnlyDocker /\ Run
BridgeReadAck == OnlyDocker /\ ReadAck
BridgeReadEvent == OnlyDocker /\ ReadEvent
BridgeReadEnd == OnlyDocker /\ ReadEnd
BridgeClearConnection == OnlyDocker /\ ClearConnection
BridgeFailPending == OnlyDocker /\ FailPending
BridgeAgain == OnlyDocker /\ Again
BridgeTerminate == OnlyDocker /\ Terminate
BridgeCloseTake == OnlyDocker /\ CloseTake
BridgeCloseKill == OnlyDocker /\ CloseKill
BridgeCloseDrain == OnlyDocker /\ CloseDrain
BridgeAbort == OnlyDocker /\ Abort

ForwardingClientSends(c) == OnlyForwarding /\ Forwarding!ClientSends(c)
ForwardingTaskStep(c) == OnlyForwarding /\ Forwarding!TaskStep(c)
ForwardingForwarderStep(f) == OnlyForwarding /\ Forwarding!ForwarderStep(f)

JobCreate(j, p) == OnlyJobs /\ ChannelJob!Create(j, p)
JobInsert(j) == OnlyJobs /\ ChannelJob!Insert(j)
JobSpawn(j) == OnlyJobs /\ ChannelJob!Spawn(j)
JobFirstTick(j) == OnlyJobs /\ ChannelJob!FirstTick(j)
JobIntervalPasses(j) == OnlyJobs /\ ChannelJob!IntervalPasses(j)
JobStartTick(j) == OnlyJobs /\ ChannelJob!StartTick(j)
JobEndTick(j) == OnlyJobs /\ ChannelJob!EndTick(j)
JobBreak(j) == OnlyJobs /\ ChannelJob!Break(j)
JobRemoveOwn(j) == OnlyJobs /\ ChannelJob!RemoveOwn(j)
JobCancel(c, p, j) == OnlyJobs /\ ChannelJob!Cancel(c, p, j)
JobRemoveEntry(c) == OnlyJobs /\ ChannelJob!RemoveEntry(c)
JobSendCancel(c) == OnlyJobs /\ ChannelJob!SendCancel(c)

SessionInitialize(i) == OnlySessions /\ Runtime!Initialize(i)
SessionConfigure(i) == OnlySessions /\ Runtime!Configure(i)
SessionConnect(i) == OnlySessions /\ Runtime!Connect(i)
SessionInsert(i) == OnlySessions /\ Runtime!Insert(i)
SessionDropCreate(i) == OnlySessions /\ Runtime!DropCreate(i)
SessionLoopTop(i) == OnlySessions /\ Runtime!LoopTop(i)
SessionRunEnds(i) == OnlySessions /\ Runtime!RunEnds(i)
SessionRetry(i) == OnlySessions /\ Runtime!Retry(i)
SessionWake(i) == OnlySessions /\ Runtime!Wake(i)
SessionDialFails(i) == OnlySessions /\ Runtime!DialFails(i)
SessionDialSucceeds(i) == OnlySessions /\ Runtime!DialSucceeds(i)
SessionRemove(t) == OnlySessions /\ Runtime!Remove(t)
SessionClearTracking(t) == OnlySessions /\ Runtime!ClearTracking(t)
SessionClose(t) == OnlySessions /\ Runtime!Close(t)
SessionAbort(t) == OnlySessions /\ Runtime!Abort(t)
SessionDropTerminate(t) == OnlySessions /\ Runtime!DropTerminate(t)

EventSpeak(s, k) == OnlyEvents /\ Spoken!Speak(s, k)
EventSend(s) == OnlyEvents /\ s \notin terminated /\ Spoken!Send(s)
EventRemember(s) == OnlyEvents /\ s \notin terminated /\ Spoken!Remember(s)
EventCount(s) == OnlyEvents /\ s \notin terminated /\ Spoken!Count(s)
EventSaveFile(s) == OnlyEvents /\ s \notin terminated /\ Spoken!SaveFile(s)
EventAbort(s) == OnlyEvents /\ Spoken!Abort(s)
EventTake(k) == OnlyEvents /\ Spoken!Take(k)
EventForward(k) == OnlyEvents /\ Spoken!Forward(k)
EventClose == OnlyEvents /\ Spoken!Close

TasksInit ==
  /\ part \in {"docker", "forwarding", "jobs", "sessions", "events"}
  /\ Init /\ Forwarding!Init /\ ChannelJob!Init /\ Runtime!Init /\ Spoken!Init

TasksNext ==
  \/ \E k \in Commands :
       \/ BridgeClone(k) \/ BridgeInsert(k) \/ BridgeSend(k) \/ BridgeReceive(k)
       \/ BridgeTimeout(k) \/ BridgeRemove(k) \/ BridgeDrop(k)
  \/ \E g \in Connections :
       \/ BridgeExecute(g) \/ BridgeWorkerCloses(g) \/ BridgeWriterFails(g)
       \/ BridgeWorkerDies(g) \/ BridgeWorkerEvent(g)
  \/ BridgeConnect \/ BridgeRun \/ BridgeReadAck \/ BridgeReadEvent \/ BridgeReadEnd
  \/ BridgeClearConnection \/ BridgeFailPending \/ BridgeAgain
  \/ BridgeTerminate \/ BridgeCloseTake \/ BridgeCloseKill \/ BridgeCloseDrain
  \/ BridgeAbort
  \/ \E c \in Conns : ForwardingClientSends(c) \/ ForwardingTaskStep(c)
  \/ \E f \in Forwarding!Forwarders : ForwardingForwarderStep(f)
  \/ \E j \in Jobs :
       \/ \E p \in ChannelJob!Requesters : JobCreate(j, p)
       \/ JobInsert(j) \/ JobSpawn(j) \/ JobFirstTick(j) \/ JobIntervalPasses(j)
       \/ JobStartTick(j) \/ JobEndTick(j) \/ JobBreak(j) \/ JobRemoveOwn(j)
  \/ \E c \in Cancellers :
       \/ \E p \in ChannelJob!Requesters, j \in Jobs : JobCancel(c, p, j)
       \/ JobRemoveEntry(c) \/ JobSendCancel(c)
  \/ \E i \in Ids :
       \/ SessionInitialize(i) \/ SessionConfigure(i) \/ SessionConnect(i)
       \/ SessionInsert(i) \/ SessionDropCreate(i) \/ SessionLoopTop(i)
       \/ SessionRunEnds(i) \/ SessionRetry(i) \/ SessionWake(i)
       \/ SessionDialFails(i) \/ SessionDialSucceeds(i)
  \/ \E t \in Terminators :
       \/ SessionRemove(t) \/ SessionClearTracking(t) \/ SessionClose(t)
       \/ SessionAbort(t) \/ SessionDropTerminate(t)
  \/ \E s \in Ids :
       \/ \E k \in Media : EventSpeak(s, k)
       \/ EventSend(s) \/ EventRemember(s) \/ EventCount(s) \/ EventSaveFile(s)
       \/ EventAbort(s)
  \/ \E k \in Media : EventTake(k) \/ EventForward(k)
  \/ EventClose

TasksSpec == TasksInit /\ [][TasksNext]_taskVars

TaskSymmetry == Permutations(Commands) \cup Permutations(Ids)

----------------------------------------------------------------------------
(* Safety of the guests.                                                   *)

(* OutputForwarding: the lock of the senders is used as a lock, the        *)
(* priority mailbox has room for the next notice, notices come before the  *)
(* probe they belong to, and a client gets outputs in their order.         *)
MailboxesInOrder ==
  part = "forwarding" =>
    /\ Forwarding!TypeOK /\ Forwarding!PriorityRoom
    /\ Forwarding!NoticeFirst /\ Forwarding!OutputsInOrder

(* ChannelJobs: a listed job ticks, a worker nobody can list or cancel has *)
(* been told to stop by its owner, and it begins at most one tick more.    *)
JobsAccounted ==
  part = "jobs" =>
    /\ ChannelJob!TypeOK /\ ChannelJob!ListedRuns
    /\ ChannelJob!UnlistedWasCancelled /\ ChannelJob!OneLateTick

(* RuntimeSessions: a session is terminated once and its task has ended,   *)
(* and the counters of the reconnect attempts add up.                      *)
SessionsAccounted ==
  part = "sessions" =>
    Runtime!TypeOK /\ Runtime!TerminatedOnce /\ Runtime!AttemptsAccounted

(* EventForwarder: file n of a kind holds the n-th event of that kind, the *)
(* gateway gets what was spoken in its order, and what is spoken while the *)
(* gateway is gone is counted.                                             *)
EventsNumbered ==
  part = "events" =>
    /\ Spoken!TypeOK /\ Spoken!NumberedAsSpoken /\ Spoken!ArrivesInOrder
    /\ Spoken!EveryEventCounted

----------------------------------------------------------------------------
(* Liveness, each under the fairness of its part.                          *)

(* OutputForwarding: while no standard mailbox is full every frame is      *)
(* handled to its end, and what is in a mailbox reaches its client.        *)
MailboxesMove ==
  Forwarding!Fairness =>
    Forwarding!RoomyGatewayAnswers /\ Forwarding!RoomyGatewayDelivers

(* ChannelJobs: a job whose cancellation was answered ends, however long   *)
(* its ticks take, and a listed job ticks again and again.                 *)
JobsGoOn ==
  ChannelJob!Fairness => ChannelJob!CancelledEnds /\ ChannelJob!ListedTicks

(* DockerBridge: every command returns, workers of connections that were   *)
(* given up exit, and termination ends the task and every worker.          *)
BridgeEnds ==
  Fairness => EveryCommandReturns /\ GivenUpWorkersExit /\ TerminationEndsWorkers

(* RuntimeSessions: terminate_session returns even when run() does not     *)
(* end, reconnecting ends with a connection or with the budget, a session  *)
(* that is being terminated dials the provider at most once more, and as   *)
(* long as no handler is dropped every loop has an owner.                  *)
SessionsEnd ==
  /\ Runtime!Fairness => Runtime!TerminateReturns /\ Runtime!ReconnectEnds
  /\ [](part = "sessions" => Runtime!LoopsOwned)
  /\ Runtime!NoNewDial

=============================================================================
