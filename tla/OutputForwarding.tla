-------------------------- MODULE OutputForwarding --------------------------
(***************************************************************************)
(* How output reaches WebSocket clients (server.rs): the bounded mailboxes *)
(* of a connection, the biased select of handle_ws, the handlers that send *)
(* to their own mailbox, and the audio and transcript forwarders, which    *)
(* keep ws_response_senders read-locked while they wait for room.          *)
(*                                                                         *)
(* All connections belong to the principal that owns the sessions; who may *)
(* use a session is the subject of Gateway.                                *)
(***************************************************************************)
EXTENDS Naturals, Sequences, FiniteSets, SequencesExt

CONSTANTS
  Conns,        \* connection tasks
  Sessions,
  Kinds,        \* the kinds of frames clients send, see AllKinds
  Capacity,     \* of the mailbox for standard traffic, 256 in the code
  PriorityCapacity,  \* of the mailbox for priority traffic, 64 in the code
  MaxFrames,    \* bound: frames of all clients
  MaxOutputs,   \* bound: outputs of the runner
  None

AllKinds == {"ping", "probe", "use", "prompt", "close"}
Forwarders == {"audio", "transcript"}

ForwardingAssumption ==
  /\ Kinds \subseteq AllKinds
  /\ {Capacity, PriorityCapacity, MaxFrames, MaxOutputs} \subseteq Nat \ {0}
  /\ None \notin Conns \cup Sessions /\ Conns \cap Forwarders = {}

VARIABLES
  senders,    \* ws_response_senders: session -> connection, or None
  owned,      \* owned_sessions of a connection
  readers,    \* the forwarders that hold the read lock of senders
  queue,      \* who waits for that lock, first come first served
  standard,   \* ws_standard_rx of a connection
  priority,   \* ws_priority_rx of a connection
  frames,     \* what the client has sent and the task has not read
  handler,    \* where the task of a connection is, and the frame it handles
  forwarder,  \* where a forwarder is, and the output it forwards
  \* History.
  wire,       \* what a connection's client has received
  sent,       \* frames clients have sent
  outputs     \* outputs the runner has produced

lock == <<senders, owned, readers, queue>>
mail == <<standard, priority, wire>>
vars == <<lock, mail, frames, handler, forwarder, sent, outputs>>

NoFrame == [kind |-> "none", sid |-> None]
Output(f, s, n) == [from |-> f, sid |-> s, n |-> n]
Notice == [from |-> "notice", sid |-> None, n |-> 0]
ProbeEvent == [from |-> "probe", sid |-> None, n |-> 0]
Reply(kind) == [from |-> "reply", sid |-> kind, n |-> 0]
ToolResult == [from |-> "tool", sid |-> None, n |-> 0]

At(c, pc) == handler[c].pc = pc
Frame(c) == handler[c].frame
Go(c, pc) == handler' = [handler EXCEPT ![c].pc = pc]
Left(c) == \E i \in 1..Len(frames[c]) : frames[c][i].kind = "close"
Full(c) == Len(standard[c]) >= Capacity

Init ==
  /\ senders = [s \in Sessions |-> None] /\ owned = [c \in Conns |-> {}]
  /\ readers = {} /\ queue = <<>>
  /\ standard = [c \in Conns |-> <<>>] /\ priority = [c \in Conns |-> <<>>]
  /\ wire = [c \in Conns |-> <<>>]
  /\ frames = [c \in Conns |-> <<>>]
  /\ handler = [c \in Conns |-> [pc |-> "select", frame |-> NoFrame]]
  /\ forwarder = [f \in Forwarders |-> [pc |-> "recv", sid |-> None, n |-> 0]]
  /\ sent = 0 /\ outputs = 0

----------------------------------------------------------------------------
(* Clients.  A client that has left sends nothing more.                    *)

ClientSends(c) ==
  /\ sent < MaxFrames
  /\ ~Left(c) /\ Frame(c).kind # "close"
  /\ \E k \in Kinds, s \in Sessions :
       frames' = [frames EXCEPT ![c] = Append(@, [kind |-> k, sid |-> s])]
  /\ sent' = sent + 1
  /\ UNCHANGED <<lock, mail, handler, forwarder, outputs>>

----------------------------------------------------------------------------
(* The select of handle_ws.  A send to a client that has left may fail,    *)
(* which ends the loop.                                                    *)

SendResponse(c, response) ==
  \/ /\ wire' = [wire EXCEPT ![c] = Append(@, response)]
     /\ handler' = [handler EXCEPT ![c] = [pc |-> "select", frame |-> NoFrame]]
  \/ Left(c) /\ Go(c, "cleanup") /\ UNCHANGED wire

SelectPriority(c) ==
  /\ At(c, "select") /\ priority[c] # <<>>
  /\ SendResponse(c, Head(priority[c]))
  /\ priority' = [priority EXCEPT ![c] = Tail(@)]
  /\ UNCHANGED <<lock, standard, frames, forwarder, sent, outputs>>

SelectFrame(c) ==
  /\ At(c, "select") /\ priority[c] = <<>> /\ frames[c] # <<>>
  /\ LET frame == Head(frames[c])
     IN handler' = [handler EXCEPT ![c] = [frame |-> frame, pc |->
          CASE frame.kind = "ping" -> "reply"
            [] frame.kind = "probe" -> "probe_standard"
            [] frame.kind \in {"use", "prompt"} -> "authorize"
            [] OTHER -> "cleanup"]]
  /\ frames' = [frames EXCEPT ![c] = Tail(@)]
  /\ UNCHANGED <<lock, mail, forwarder, sent, outputs>>

(* Mutant of SelectStandard: the standard mailbox comes before the         *)
(* priority mailbox, and is read from its end.                             *)
SelectStandard_Newest(c) ==
  /\ At(c, "select") /\ standard[c] # <<>>
  /\ SendResponse(c, Last(standard[c]))
  /\ standard' = [standard EXCEPT ![c] = Front(@)]
  /\ UNCHANGED <<lock, priority, frames, forwarder, sent, outputs>>

SelectStandard(c) ==
  /\ At(c, "select")
  /\ priority[c] = <<>> /\ frames[c] = <<>> /\ standard[c] # <<>>
  /\ SendResponse(c, Head(standard[c]))
  /\ standard' = [standard EXCEPT ![c] = Tail(@)]
  /\ UNCHANGED <<lock, priority, frames, forwarder, sent, outputs>>

(* The answer to a frame, whatever the handler returned. *)
Answer(c) ==
  /\ At(c, "reply")
  /\ SendResponse(c, Reply(Frame(c).kind))
  /\ UNCHANGED <<lock, standard, priority, frames, forwarder, sent, outputs>>

----------------------------------------------------------------------------
(* Handlers: PriorityProbe sends to both mailboxes of its own connection,  *)
(* SessionPrompt sends the result of the file it read to the standard one. *)

ProbeStandard(c) ==
  /\ At(c, "probe_standard") /\ ~Full(c)
  /\ standard' = [standard EXCEPT ![c] = Append(@, ProbeEvent)]
  /\ Go(c, "probe_priority")
  /\ UNCHANGED <<lock, priority, wire, frames, forwarder, sent, outputs>>

ProbePriority(c) ==
  /\ At(c, "probe_priority") /\ Len(priority[c]) < PriorityCapacity
  /\ priority' = [priority EXCEPT ![c] = Append(@, Notice)]
  /\ Go(c, "reply")
  /\ UNCHANGED <<lock, standard, wire, frames, forwarder, sent, outputs>>

(* authorize_session_access and the cleanup of a connection wait for the   *)
(* write lock.                                                             *)
RequestWrite(c) ==
  /\ \/ At(c, "authorize") /\ Go(c, "bind")
     \/ At(c, "cleanup") /\ Go(c, "unbind")
  /\ queue' = Append(queue, c)
  /\ UNCHANGED <<senders, owned, readers, mail, frames, forwarder, sent, outputs>>

Writes(c) == readers = {} /\ queue # <<>> /\ Head(queue) = c

Bind(c) ==
  /\ At(c, "bind") /\ Writes(c)
  /\ senders' = [senders EXCEPT ![Frame(c).sid] = c]
  /\ owned' = [owned EXCEPT ![c] = @ \cup {Frame(c).sid}]
  /\ queue' = Tail(queue)
  /\ Go(c, IF Frame(c).kind = "prompt" THEN "tool_result" ELSE "reply")
  /\ UNCHANGED <<readers, mail, frames, forwarder, sent, outputs>>

(* A prompt that names no file sends nothing here. *)
SendToolResult(c) ==
  /\ At(c, "tool_result") /\ ~Full(c)
  /\ standard' = [standard EXCEPT ![c] = Append(@, ToolResult)]
  /\ Go(c, "reply")
  /\ UNCHANGED <<lock, priority, wire, frames, forwarder, sent, outputs>>

(* The cleanup removes the senders of all sessions the connection has used,*)
(* whichever connection they lead to by now; then the mailboxes are        *)
(* dropped.                                                                *)
Unbind(c) ==
  /\ At(c, "unbind") /\ Writes(c)
  /\ senders' = [s \in Sessions |-> IF s \in owned[c] THEN None ELSE senders[s]]
  /\ owned' = [owned EXCEPT ![c] = {}]
  /\ queue' = Tail(queue)
  /\ standard' = [standard EXCEPT ![c] = <<>>]
  /\ priority' = [priority EXCEPT ![c] = <<>>]
  /\ Go(c, "closed")
  /\ UNCHANGED <<readers, wire, frames, forwarder, sent, outputs>>

----------------------------------------------------------------------------
(* The forwarders *)

Receive(f) ==
  /\ forwarder[f].pc = "recv" /\ outputs < MaxOutputs
  /\ \E s \in Sessions :
       forwarder' = [forwarder EXCEPT ![f] =
                       [pc |-> "lock", sid |-> s, n |-> outputs + 1]]
  /\ outputs' = outputs + 1
  /\ queue' = Append(queue, f)
  /\ UNCHANGED <<senders, owned, readers, mail, frames, handler, sent>>

LockShared(f) ==
  /\ forwarder[f].pc = "lock" /\ queue # <<>> /\ Head(queue) = f
  /\ queue' = Tail(queue)
  /\ IF senders[forwarder[f].sid] = None
     THEN readers' = readers /\ forwarder' = [forwarder EXCEPT ![f].pc = "recv"]
     ELSE /\ readers' = readers \cup {f}
          /\ forwarder' = [forwarder EXCEPT ![f].pc = "send"]
  /\ UNCHANGED <<senders, owned, mail, frames, handler, sent, outputs>>

(* Mutant of Forward: the lock is kept when the send is done. *)
Forward_KeepsLock(f) ==
  /\ forwarder[f].pc = "send"
  /\ LET c == senders[forwarder[f].sid]
     IN /\ ~Full(c)
        /\ standard' = [standard EXCEPT ![c] =
             Append(@, Output(f, forwarder[f].sid, forwarder[f].n))]
  /\ forwarder' = [forwarder EXCEPT ![f].pc = "recv"]
  /\ UNCHANGED <<lock, priority, wire, frames, handler, sent, outputs>>

(* tx.send(resp).await under the guard.  For a transcript,                 *)
(* queue_channel_outbound_transcript follows before the guard is dropped;  *)
(* its own locks are those of Gateway.                                     *)
Forward(f) ==
  /\ forwarder[f].pc = "send"
  /\ LET c == senders[forwarder[f].sid]
     IN /\ ~Full(c)
        /\ standard' = [standard EXCEPT ![c] =
             Append(@, Output(f, forwarder[f].sid, forwarder[f].n))]
  /\ readers' = readers \ {f}
  /\ forwarder' = [forwarder EXCEPT ![f].pc = "recv"]
  /\ UNCHANGED <<senders, owned, queue, priority, wire, frames, handler, sent,
                 outputs>>

----------------------------------------------------------------------------

TaskStep(c) ==
  \/ SelectPriority(c) \/ SelectFrame(c) \/ SelectStandard(c) \/ Answer(c)
  \/ ProbeStandard(c) \/ ProbePriority(c) \/ RequestWrite(c) \/ Bind(c)
  \/ SendToolResult(c) \/ Unbind(c)

ForwarderStep(f) == Receive(f) \/ LockShared(f) \/ Forward(f)

Next ==
  \/ \E c \in Conns : ClientSends(c) \/ TaskStep(c)
  \/ \E f \in Forwarders : ForwarderStep(f)

Spec == Init /\ [][Next]_vars

(* The executor polls every task that is ready.  Clients and the runner    *)
(* owe nothing.                                                            *)
Fairness ==
  /\ \A c \in Conns : WF_vars(TaskStep(c))
  /\ \A f \in Forwarders : WF_vars(LockShared(f) \/ Forward(f))

FairSpec == Spec /\ Fairness

----------------------------------------------------------------------------
(* Properties *)

Processes == Conns \cup Forwarders

(* How many messages of a mailbox or a client are from a source. *)
HowMany(box, source) == Cardinality({i \in 1..Len(box) : box[i].from = source})

(* The lock is used as a lock: whoever is queued waits at the step that    *)
(* takes it and is queued once, and the readers are the forwarders that    *)
(* are sending to a connection that is still open (RwLock, server.rs:428), *)
(* for a cleanup finds all that leads to its connection in owned_sessions. *)
TypeOK ==
  /\ senders \in [Sessions -> Conns \cup {None}]
  /\ owned \in [Conns -> SUBSET Sessions]
  /\ queue \in Seq(Processes)
  /\ \A i, j \in 1..Len(queue) : queue[i] = queue[j] => i = j
  /\ ToSet(queue) = {c \in Conns : handler[c].pc \in {"bind", "unbind"}}
                      \cup {f \in Forwarders : forwarder[f].pc = "lock"}
  /\ readers = {f \in Forwarders : forwarder[f].pc = "send"}
  /\ \A f \in readers : senders[forwarder[f].sid] \in Conns
  /\ \A s \in Sessions, c \in Conns : senders[s] = c => s \in owned[c]
  /\ \A c \in Conns : At(c, "closed") => owned[c] = {}
  /\ \A c \in Conns : Len(standard[c]) <= Capacity

(* The priority mailbox never holds more than one notice, however many     *)
(* probes a client sends in a row: the select empties it before it reads   *)
(* the next frame, so the second send of a probe never waits               *)
(* (handle_priority_probe, server.rs:2842).                                *)
PriorityRoom == \A c \in Conns : Len(priority[c]) <= 1

(* A client sees the notice of a probe before the standard event the probe *)
(* queued ahead of it, "Priority channel traffic is always processed       *)
(* before standard channel traffic" (server.rs:1429).                      *)
NoticeFirst ==
  \A c \in Conns : HowMany(wire[c], "probe") <= HowMany(wire[c], "notice")

(* A client receives the outputs of one forwarder in the order in which    *)
(* the runner produced them, wherever the sessions are bound meanwhile.    *)
OutputsInOrder ==
  \A c \in Conns, f \in Forwarders : \A i, j \in 1..Len(wire[c]) :
    i < j /\ wire[c][i].from = f /\ wire[c][j].from = f => wire[c][i].n < wire[c][j].n

Pending(c, kind) ==
  \/ \E i \in 1..Len(frames[c]) : frames[c][i].kind = kind
  \/ Frame(c).kind = kind

Roomy == \A c \in Conns : ~Full(c)
Open(c) == ~Left(c) /\ Frame(c).kind # "close"

(* As long as no standard mailbox is full, nothing the gateway does can    *)
(* keep a frame waiting for ever: every ping, probe, use, prompt and close *)
(* comes to its end, whatever locks are requested meanwhile.               *)
RoomyGatewayAnswers ==
  []Roomy => \A c \in Conns, k \in Kinds :
    Pending(c, k) ~> (~Pending(c, k) \/ At(c, "closed"))

(* As long as no standard mailbox is full, what is in a mailbox reaches    *)
(* the client or the client leaves: the frames of a client are bounded, so *)
(* the biased select comes to the standard mailbox in the end.             *)
RoomyGatewayDelivers ==
  []Roomy => \A c \in Conns :
    standard[c] # <<>> ~> (standard[c] = <<>> \/ ~Open(c))

(* "WHEN a client sends a `Ping` message, THE Gateway SHALL respond with a *)
(* `Pong` message" (docs/requirements.md:56), for clients that stay.       *)
PingAnswered ==
  \A c \in Conns : Pending(c, "ping") ~> (~Pending(c, "ping") \/ ~Open(c))

----------------------------------------------------------------------------
(* The inductive invariant *)

Message ==
  [from : Forwarders \cup {"notice", "probe", "reply", "tool"},
   sid : Sessions \cup AllKinds \cup {None, "none"}, n : Nat]

(* What the standard mailbox holds. *)
Queued == {m \in Message : m.from \notin {"notice", "reply"}}

ClientFrame == [kind : Kinds, sid : Sessions]

Shapes ==
  /\ standard \in [Conns -> Seq(Queued)] /\ priority \in [Conns -> Seq({Notice})]
  /\ wire \in [Conns -> Seq(Message)] /\ frames \in [Conns -> Seq(ClientFrame)]
  /\ handler \in [Conns ->
       [pc : {"select", "reply", "probe_standard", "probe_priority", "authorize",
              "bind", "tool_result", "cleanup", "unbind", "closed"},
        frame : ClientFrame \cup {NoFrame}]]
  /\ forwarder \in [Forwarders ->
       [pc : {"recv", "lock", "send"}, sid : Sessions \cup {None}, n : Nat]]
  /\ outputs \in Nat

(* A handler and a forwarder that need a session have one. *)
SessionsKnown ==
  /\ \A c \in Conns : handler[c].pc \in {"authorize", "bind"} =>
       Frame(c).sid \in Sessions
  /\ \A f \in Forwarders : forwarder[f].pc # "recv" => forwarder[f].sid \in Sessions

(* The notice of a probe is in the priority mailbox at most until the next *)
(* frame is read.                                                          *)
PriorityInv ==
  \A c \in Conns :
    /\ Len(priority[c]) <= 1
    /\ handler[c].pc \notin {"select", "reply", "cleanup", "unbind"} => priority[c] = <<>>

(* Every probe event of an open connection has a notice, which is with the *)
(* client, in the mailbox, or the next thing the handler sends.            *)
Leaving(c) == handler[c].pc \in {"cleanup", "unbind", "closed"}

ProbesBalanced ==
  \A c \in Conns : ~Leaving(c) =>
    HowMany(wire[c], "probe") + HowMany(standard[c], "probe") =
      HowMany(wire[c], "notice") + Len(priority[c])
        + IF At(c, "probe_priority") THEN 1 ELSE 0

(* Outputs are in order on their whole way: what the client has comes      *)
(* before what is in the mailbox, and that before what is being forwarded. *)
MailboxOrder ==
  \A c \in Conns, f \in Forwarders : \A i, j \in 1..Len(standard[c]) :
    i < j /\ standard[c][i].from = f /\ standard[c][j].from = f =>
      standard[c][i].n < standard[c][j].n

WireFirst ==
  \A c \in Conns, f \in Forwarders :
    \A i \in 1..Len(wire[c]), j \in 1..Len(standard[c]) :
      wire[c][i].from = f /\ standard[c][j].from = f => wire[c][i].n < standard[c][j].n

Passed(f, n) == n <= outputs /\ (forwarder[f].pc # "recv" => n < forwarder[f].n)

ForwardedLast ==
  \A f \in Forwarders :
    /\ forwarder[f].n <= outputs
    /\ \A c \in Conns : \A i \in 1..Len(wire[c]) :
         wire[c][i].from = f => Passed(f, wire[c][i].n)
    /\ \A c \in Conns : \A i \in 1..Len(standard[c]) :
         standard[c][i].from = f => Passed(f, standard[c][i].n)

IInv ==
  /\ TypeOK /\ Shapes /\ SessionsKnown /\ PriorityInv /\ NoticeFirst /\ ProbesBalanced
  /\ OutputsInOrder /\ MailboxOrder /\ WireFirst /\ ForwardedLast
=============================================================================
