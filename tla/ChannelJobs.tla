----------------------------- MODULE ChannelJobs -----------------------------
(***************************************************************************)
(* The scheduler of channel jobs (server.rs): a job is an entry of         *)
(* channel_jobs and a worker task joined by a oneshot channel.  Creating,  *)
(* cancelling and ticking are tasks of their own, and the worker chooses   *)
(* at random between a cancellation and a tick that are both ready.        *)
(*                                                                         *)
(* What a tick does is an inbound message of GatewayChannels; here it is   *)
(* the time between its start and its end.                                 *)
(***************************************************************************)
EXTENDS Naturals, FiniteSets

CONSTANTS
  Jobs,        \* job ids, each a fresh uuid drawn by one request
  Principals,
  Cancellers,  \* calls of handle_cancel_channel_job
  Prompt,      \* no tick takes as long as an interval
  None

ChannelJobsAssumption ==
  Prompt \in BOOLEAN /\ None \notin Jobs \cup Principals

VARIABLES
  channel_jobs,  \* the owner of every entry, None where there is none
  request,       \* the task that creates a job: its point and its principal
  signal,        \* jobs whose oneshot was used or closed
  worker,        \* run_channel_job
  due,           \* jobs whose interval has passed
  canceller,     \* a cancel call: its point, its principal and its job
  \* History.
  late           \* ticks begun after the cancellation returned, up to two

vars == <<channel_jobs, request, signal, worker, due, canceller, late>>

RequestAt(j, pc) == request[j].pc = pc
RequestGoes(j, pc) == request' = [request EXCEPT ![j].pc = pc]
CancelGoes(c, pc) == canceller' = [canceller EXCEPT ![c].pc = pc]
WorkerGoes(j, pc) == worker' = [worker EXCEPT ![j] = pc]
Returned(pc, j) == {c \in Cancellers : canceller[c].pc = pc /\ canceller[c].job = j}

Init ==
  /\ channel_jobs = [j \in Jobs |-> None]
  /\ request = [j \in Jobs |-> [pc |-> "idle", principal |-> None]]
  /\ signal = {} /\ due = {} /\ late = [j \in Jobs |-> 0]
  /\ worker = [j \in Jobs |-> "none"]
  /\ canceller = [c \in Cancellers |->
                    [pc |-> "idle", principal |-> None, job |-> None]]

----------------------------------------------------------------------------
(* handle_create_channel_job *)

(* Who asks: a WebSocket connection or an HTTP request, None when it is    *)
(* not authenticated.                                                      *)
Requesters == Principals \cup {None}

(* A requester without a principal, a route that is not valid, an empty    *)
(* text or an interval of 0 seconds is rejected before anything is stored. *)
Create(j, p) ==
  /\ RequestAt(j, "idle")
  /\ \E valid \in BOOLEAN :
       request' = [request EXCEPT ![j] =
         [pc |-> IF valid /\ p # None THEN "insert" ELSE "rejected",
          principal |-> p]]
  /\ UNCHANGED <<channel_jobs, signal, worker, due, canceller, late>>

Insert(j) ==
  /\ RequestAt(j, "insert")
  /\ channel_jobs' = [channel_jobs EXCEPT ![j] = request[j].principal]
  /\ RequestGoes(j, "spawn")
  /\ UNCHANGED <<signal, worker, due, canceller, late>>

(* Nothing is awaited since the insertion, so that a client that leaves    *)
(* cannot keep the worker from being spawned.                              *)
Spawn(j) ==
  /\ RequestAt(j, "spawn")
  /\ WorkerGoes(j, "first")
  /\ RequestGoes(j, "created")
  /\ UNCHANGED <<channel_jobs, signal, due, canceller, late>>

----------------------------------------------------------------------------
(* handle_cancel_channel_job *)

Cancel(c, p, j) ==
  /\ canceller[c].pc = "idle"
  /\ ~RequestAt(j, "idle")
  /\ canceller' = [canceller EXCEPT ![c] =
                     [pc |-> IF p # None THEN "lock" ELSE "refused",
                      principal |-> p, job |-> j]]
  /\ UNCHANGED <<channel_jobs, request, signal, worker, due, late>>

(* Mutant of RemoveEntry: the owner is not compared. *)
RemoveEntry_Anyone(c) ==
  /\ canceller[c].pc = "lock"
  /\ LET j == canceller[c].job
     IN IF channel_jobs[j] # None
        THEN /\ channel_jobs' = [channel_jobs EXCEPT ![j] = None]
             /\ CancelGoes(c, "send")
        ELSE /\ CancelGoes(c, "refused")
             /\ UNCHANGED channel_jobs
  /\ UNCHANGED <<request, signal, worker, due, late>>

(* One write lock: a job that is missing or somebody else's is refused.    *)
RemoveEntry(c) ==
  /\ canceller[c].pc = "lock"
  /\ LET j == canceller[c].job
     IN IF channel_jobs[j] = canceller[c].principal
        THEN /\ channel_jobs' = [channel_jobs EXCEPT ![j] = None]
             /\ CancelGoes(c, "send")
        ELSE /\ CancelGoes(c, "refused")
             /\ UNCHANGED channel_jobs
  /\ UNCHANGED <<request, signal, worker, due, late>>

SendCancel(c) ==
  /\ canceller[c].pc = "send"
  /\ signal' = signal \cup {canceller[c].job}
  /\ CancelGoes(c, "canceled")
  /\ UNCHANGED <<channel_jobs, request, worker, due, late>>

----------------------------------------------------------------------------
(* run_channel_job *)

(* The first tick of an interval comes at once and is consumed. *)
FirstTick(j) ==
  /\ worker[j] = "first"
  /\ WorkerGoes(j, "wait")
  /\ UNCHANGED <<channel_jobs, request, signal, due, canceller, late>>

(* The interval passes.  MissedTickBehavior::Skip: a tick that is missed   *)
(* while another runs is not made up for.  A woken worker that was told to *)
(* stop goes on before another interval has passed.                        *)
IntervalPasses(j) ==
  /\ j \notin due
  /\ \/ worker[j] = "wait" /\ j \notin signal
     \/ worker[j] = "tick" /\ ~Prompt
  /\ due' = due \cup {j}
  /\ UNCHANGED <<channel_jobs, request, signal, worker, canceller, late>>

CountLate(j) ==
  late' = IF Returned("canceled", j) = {} \/ late[j] = 2 THEN late
          ELSE [late EXCEPT ![j] = @ + 1]

StartTick(j) ==
  /\ worker[j] = "wait" /\ j \in due
  /\ WorkerGoes(j, "tick")
  /\ due' = due \ {j}
  /\ CountLate(j)
  /\ UNCHANGED <<channel_jobs, request, signal, canceller>>

(* The message was routed, or failed, which is only logged. *)
EndTick(j) ==
  /\ worker[j] = "tick"
  /\ WorkerGoes(j, "wait")
  /\ UNCHANGED <<channel_jobs, request, signal, due, canceller, late>>

(* Mutant of Break: a tick that is ready goes first. *)
Break_Biased(j) ==
  /\ worker[j] = "wait" /\ j \in signal /\ j \notin due
  /\ WorkerGoes(j, "leave")
  /\ UNCHANGED <<channel_jobs, request, signal, due, canceller, late>>

Break(j) ==
  /\ worker[j] = "wait" /\ j \in signal
  /\ WorkerGoes(j, "leave")
  /\ UNCHANGED <<channel_jobs, request, signal, due, canceller, late>>

RemoveOwn(j) ==
  /\ worker[j] = "leave"
  /\ channel_jobs' = [channel_jobs EXCEPT ![j] = None]
  /\ WorkerGoes(j, "ended")
  /\ UNCHANGED <<request, signal, due, canceller, late>>

----------------------------------------------------------------------------
Next ==
  \/ \E j \in Jobs :
       \/ \E p \in Requesters : Create(j, p)
       \/ Insert(j) \/ Spawn(j)
       \/ FirstTick(j) \/ IntervalPasses(j) \/ StartTick(j) \/ EndTick(j)
       \/ Break(j) \/ RemoveOwn(j)
  \/ \E c \in Cancellers :
       \/ \E p \in Requesters, j \in Jobs : Cancel(c, p, j)
       \/ RemoveEntry(c) \/ SendCancel(c)

Spec == Init /\ [][Next]_vars

(* Tasks go on, intervals pass and ticks end.  select! polls its branches  *)
(* in a random order, so a cancellation that is ready again and again is   *)
(* taken in the end, and so is a tick.                                     *)
Fairness ==
  /\ \A j \in Jobs :
       /\ WF_vars(Insert(j)) /\ WF_vars(Spawn(j)) /\ WF_vars(FirstTick(j))
       /\ WF_vars(IntervalPasses(j)) /\ WF_vars(EndTick(j))
       /\ WF_vars(RemoveOwn(j))
       /\ SF_vars(Break(j)) /\ SF_vars(StartTick(j))
  /\ \A c \in Cancellers : WF_vars(RemoveEntry(c)) /\ WF_vars(SendCancel(c))

FairSpec == Spec /\ Fairness

----------------------------------------------------------------------------
(* Types. *)
TypeOK ==
  /\ channel_jobs \in [Jobs -> Principals \cup {None}]
  /\ request \in [Jobs ->
       [pc : {"idle", "insert", "spawn", "created", "rejected"},
        principal : Principals \cup {None}]]
  /\ {signal, due} \subseteq SUBSET Jobs /\ late \in [Jobs -> 0 .. 2]
  /\ worker \in [Jobs -> {"none", "first", "wait", "tick", "leave", "ended"}]
  /\ canceller \in [Cancellers ->
       [pc : {"idle", "lock", "send", "canceled", "refused"},
        principal : Principals \cup {None}, job : Jobs \cup {None}]]

(* An entry of the table stands for a worker that ticks: a job that is     *)
(* listed is about to be spawned or runs, and nobody has told it to stop.  *)
ListedRuns ==
  \A j \in Jobs : channel_jobs[j] # None =>
    /\ RequestAt(j, "spawn") \/ worker[j] \in {"first", "wait", "tick"}
    /\ j \notin signal

(* No worker runs unseen: a worker that its owner can neither list nor     *)
(* cancel has been told to stop or is about to be, by one call of its      *)
(* owner.                                                                  *)
UnlistedWasCancelled ==
  \A j \in Jobs :
    request[j].pc \in {"spawn", "created"} /\ channel_jobs[j] = None =>
      \E c \in Cancellers :
        /\ Returned("send", j) \cup Returned("canceled", j) = {c}
        /\ canceller[c].principal = request[j].principal
        /\ (canceller[c].pc = "canceled") = (j \in signal)

(* If no tick takes as long as an interval, a job begins at most one tick  *)
(* after ChannelJobCanceled was answered, the one that was due.            *)
OneLateTick == Prompt => \A j \in Jobs : late[j] <= 1

(* However long its ticks take, a job whose cancellation was answered ends.*)
CancelledEnds ==
  \A j \in Jobs :
    (Returned("canceled", j) # {}) ~> (worker[j] = "ended")

(* A job ticks again and again until it is cancelled. *)
ListedTicks ==
  \A j \in Jobs :
    (channel_jobs[j] # None) ~> (worker[j] = "tick" \/ channel_jobs[j] = None)

----------------------------------------------------------------------------
(* The inductive invariant *)

Cancelling(j) == Returned("send", j) \cup Returned("canceled", j)

(* Before its entry is inserted a job has nothing, and its worker is there *)
(* from the moment the request has spawned it.                             *)
RequestsInv ==
  \A j \in Jobs :
    /\ request[j].pc \in {"insert", "spawn", "created"} =>
         request[j].principal # None
    /\ request[j].pc \notin {"spawn", "created"} =>
         channel_jobs[j] = None /\ Cancelling(j) = {}
    /\ worker[j] = "none" <=> request[j].pc # "created"

(* A call that goes on to the lock has a principal, and the signal is      *)
(* given by the call that has removed the entry.                           *)
CancellersInv ==
  /\ \A c \in Cancellers : canceller[c].pc \in {"lock", "send", "canceled"} =>
       canceller[c].principal # None /\ canceller[c].job \in Jobs
  /\ \A j \in Jobs :
       /\ j \in signal <=> Returned("canceled", j) # {}
       /\ channel_jobs[j] # None =>
            channel_jobs[j] = request[j].principal /\ Cancelling(j) = {}

(* The tick that may still come was due before the job was cancelled.      *)
LateInv ==
  Prompt => \A j \in Jobs :
    late[j] <= 1 /\ (late[j] = 1 => j \in signal /\ j \notin due)

IInv ==
  /\ TypeOK /\ RequestsInv /\ CancellersInv /\ LateInv
  /\ ListedRuns /\ UnlistedWasCancelled
=============================================================================
