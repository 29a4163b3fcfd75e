--------------------------- MODULE EventForwarder ---------------------------
(***************************************************************************)
(* The path of what a provider says: the loop of a session calls its event *)
(* handler (GatewayEventForwarder in main.rs) for one event at a time, the *)
(* handler hands the event to the gateway, through one channel for the     *)
(* audio and one for the text of all sessions, and then persists it.  The  *)
(* gateway (server.rs) queues final transcripts for the outbox of the      *)
(* session's route.                                                        *)
(***************************************************************************)
EXTENDS Naturals, Sequences, FiniteSets

CONSTANTS
  Ids,        \* sessions, all of them routed by a channel
  Media,      \* kinds of events: "audio" and "text"
  Capacity,   \* of each channel to the gateway, 256 in the code
  MaxEvents   \* bound: events of a session

EventForwarderAssumption ==
  Capacity \in Nat \ {0} /\ MaxEvents \in Nat /\ Media \subseteq {"audio", "text"}

VARIABLES
  spoken,    \* the kinds of the events of a session so far
  handler,   \* where the handler of a session is
  channel,   \* audio_tx and transcript_tx
  open,      \* the gateway holds the other ends
  taken,     \* the event the forwarder of a channel has taken out of it
  sequence,  \* audio_sequence and transcript_sequence of a handler
  files,     \* the event every artifact file of a session holds
  outbox,    \* events queued for the route of a session
  terminated, \* sessions whose loop was aborted
  arrived    \* History: events of a session the gateway has received

gateway == <<channel, open, taken>>
vars == <<spoken, handler, gateway, sequence, files, outbox, terminated, arrived>>

Latest(s) == Len(spoken[s])
Kind(s) == spoken[s][Latest(s)]
Go(s, pc) == handler' = [handler EXCEPT ![s] = pc]

(* How many of the first n events of a session are of a kind. *)
HowMany(s, k, n) == Cardinality({m \in 1 .. n : spoken[s][m] = k})

Init ==
  /\ spoken = [s \in Ids |-> <<>>] /\ handler = [s \in Ids |-> "idle"]
  /\ channel = [k \in Media |-> <<>>] /\ open = TRUE
  /\ taken = [k \in Media |-> <<>>] /\ terminated = {}
  /\ sequence = [s \in Ids |-> [k \in Media |-> 0]]
  /\ files = [s \in Ids |-> [k \in Media |-> {}]]
  /\ outbox = [s \in Ids |-> <<>>] /\ arrived = [s \in Ids |-> <<>>]

----------------------------------------------------------------------------
(* The provider, and GatewayEventForwarder.                                *)

Speak(s, k) ==
  /\ handler[s] = "idle" /\ s \notin terminated /\ Latest(s) < MaxEvents
  /\ spoken' = [spoken EXCEPT ![s] = Append(@, k)]
  /\ Go(s, "send")
  /\ UNCHANGED <<gateway, sequence, files, outbox, arrived, terminated>>


(* on_audio, on_text and on_transcript: the text is never marked as final. *)
(* A closed channel is only logged.                                        *)
Send(s) ==
  /\ handler[s] = "send"
  /\ IF open
     THEN /\ Len(channel[Kind(s)]) < Capacity
          /\ channel' = [channel EXCEPT ![Kind(s)] = Append(@,
               [session |-> s, number |-> Latest(s), is_final |-> FALSE])]
     ELSE UNCHANGED channel
  /\ Go(s, IF Kind(s) = "text" THEN "memory" ELSE "count")
  /\ UNCHANGED <<spoken, open, taken, sequence, files, outbox, arrived, terminated>>

(* persist_transcript_memory, whose failure is only logged: its steps are  *)
(* those of TranscriptMemory.                                              *)
Remember(s) ==
  /\ handler[s] = "memory"
  /\ Go(s, "count")
  /\ UNCHANGED <<spoken, gateway, sequence, files, outbox, arrived, terminated>>

(* Mutant of Count: one sequence for both kinds. *)
Count_Shared(s) ==
  /\ handler[s] = "count"
  /\ sequence' = [sequence EXCEPT ![s] = [k \in Media |-> @[k] + 1]]
  /\ Go(s, "save")
  /\ UNCHANGED <<spoken, gateway, files, outbox, arrived, terminated>>

(* persist_transcript_artifact and persist_audio_artifact: the number is   *)
(* taken before the file is saved, and stays taken if that fails.          *)
Count(s) ==
  /\ handler[s] = "count"
  /\ sequence' = [sequence EXCEPT ![s][Kind(s)] = @ + 1]
  /\ Go(s, "save")
  /\ UNCHANGED <<spoken, gateway, files, outbox, arrived, terminated>>

SaveFile(s) ==
  /\ handler[s] = "save"
  /\ \/ files' = [files EXCEPT ![s][Kind(s)] = @ \cup
                    {[file |-> sequence[s][Kind(s)], event |-> Latest(s)]}]
     \/ UNCHANGED files
  /\ Go(s, "idle")
  /\ UNCHANGED <<spoken, gateway, sequence, outbox, arrived, terminated>>

----------------------------------------------------------------------------
(* The gateway.                                                            *)

(* A forwarder takes an event out of its channel when it is done with the  *)
(* one before.                                                             *)
Take(k) ==
  /\ open /\ taken[k] = <<>> /\ channel[k] # <<>>
  /\ LET e == Head(channel[k])
     IN /\ arrived' = [arrived EXCEPT ![e.session] = Append(@, e.number)]
        /\ taken' = [taken EXCEPT ![k] = <<e>>]
  /\ channel' = [channel EXCEPT ![k] = Tail(@)]
  /\ UNCHANGED <<spoken, handler, open, sequence, files, outbox, terminated>>

(* It sends the event to the connection of the session, which may take for *)
(* ever (OutputForwarding), and then queues it for the route if it is      *)
(* final.                                                                  *)
Forward(k) ==
  /\ taken[k] # <<>>
  /\ LET e == taken[k][1]
     IN outbox' = IF k = "text" /\ e.is_final
                  THEN [outbox EXCEPT ![e.session] = Append(@, e.number)]
                  ELSE outbox
  /\ taken' = [taken EXCEPT ![k] = <<>>]
  /\ UNCHANGED <<spoken, handler, channel, open, sequence, files, arrived, terminated>>

(* The gateway stops and drops its ends of the channels. *)
Close ==
  /\ open
  /\ open' = FALSE
  /\ channel' = [k \in Media |-> <<>>] /\ taken' = [k \in Media |-> <<>>]
  /\ UNCHANGED <<spoken, handler, sequence, files, outbox, arrived, terminated>>

(* terminate_session aborts the loop of a session wherever it waits.  (An  *)
(* audio event is counted without waiting after it was sent.)              *)
Abort(s) ==
  /\ s \notin terminated /\ (handler[s] = "count" => Kind(s) = "text")
  /\ terminated' = terminated \cup {s}
  /\ UNCHANGED <<spoken, handler, gateway, sequence, files, outbox, arrived>>

----------------------------------------------------------------------------
Handle(s) ==
  /\ s \notin terminated
  /\ Send(s) \/ Remember(s) \/ Count(s) \/ SaveFile(s)

Next ==
  \/ \E s \in Ids : Handle(s) \/ Abort(s) \/ \E k \in Media : Speak(s, k)
  \/ \E k \in Media : Take(k) \/ Forward(k)
  \/ Close

Spec == Init /\ [][Next]_vars

(* Handlers go on while they can, and forwarders take the next event.  A   *)
(* handler that waits for room is served in turn: the semaphore of a       *)
(* channel is fair.  Nothing says that a forwarder gets rid of the event   *)
(* it has taken.                                                           *)
Fairness ==
  /\ \A s \in Ids : SF_vars(Handle(s))
  /\ \A k \in Media : WF_vars(Take(k))

(* With connections that always have room in the end.                      *)
RoomySpec == Spec /\ Fairness /\ \A k \in Media : WF_vars(Forward(k))

----------------------------------------------------------------------------
(* Types. *)
TypeOK ==
  /\ spoken \in [Ids -> Seq(Media)]
  /\ handler \in [Ids -> {"idle", "send", "memory", "count", "save"}]
  /\ DOMAIN taken = Media
  /\ \A k \in Media : Len(channel[k]) <= Capacity /\ Len(taken[k]) <= 1
  /\ sequence \in [Ids -> [Media -> 0 .. MaxEvents]]

(* File n of a kind holds the n-th event of that kind, although the kinds  *)
(* alternate and saves fail.                                               *)
NumberedAsSpoken ==
  \A s \in Ids, k \in Media : \A f \in files[s][k] :
    /\ f.event \in 1 .. Latest(s) /\ spoken[s][f.event] = k
    /\ f.file = HowMany(s, k, f.event)

(* An event was given to the gateway: it has arrived or waits in a channel.*)
Handed(s, k, n) ==
  \/ \E i \in 1 .. Len(arrived[s]) : arrived[s][i] = n
  \/ \E i \in 1 .. Len(channel[k]) :
       channel[k][i].session = s /\ channel[k][i].number = n

Alike(s, n, m) == spoken[s][n] = spoken[s][m]

InOrder ==
  \A s \in Ids : \A i, j \in 1 .. Len(arrived[s]) :
    i < j /\ Alike(s, arrived[s][i], arrived[s][j]) => arrived[s][i] < arrived[s][j]

WithoutGaps ==
  \A s \in Ids : \A j \in 1 .. Len(arrived[s]), n \in 1 .. Latest(s) :
    n < arrived[s][j] /\ Alike(s, n, arrived[s][j]) =>
      \E i \in 1 .. Len(arrived[s]) : arrived[s][i] = n

FilesHanded ==
  open => \A s \in Ids, k \in Media : \A f \in files[s][k] : Handed(s, k, f.event)

(* The gateway gets the events of a kind in the order they were spoken,    *)
(* without gaps, and whatever is on file has been handed to it before.     *)
ArrivesInOrder == InOrder /\ WithoutGaps /\ FilesHanded

(* The handler waits for room, and the forwarder that could make some has  *)
(* an event on its hands.                                                  *)
Stuck(s) == handler[s] = "send" /\ taken[Kind(s)] # <<>>


(* What was spoken while the gateway was gone is still persisted: an event *)
(* passes the point where it is counted.                                   *)
EveryEventCounted ==
  \A s \in Ids : handler[s] = "idle" =>
    \A k \in Media : sequence[s][k] = HowMany(s, k, Latest(s))

(* The utilization matrix: outbound delivery uses the final transcript     *)
(* events of a session.  What a routed session says is queued for its      *)
(* route.                                                                  *)
OutboundDelivered ==
  \A s \in Ids :
    (\E n \in 1 .. Len(arrived[s]) : spoken[s][arrived[s][n]] = "text")
      ~> outbox[s] # <<>>

----------------------------------------------------------------------------
(* The inductive invariant *)

Shapes ==
  /\ channel \in [Media -> Seq([session : Ids, number : Nat, is_final : BOOLEAN])]
  /\ files \in [Ids -> [Media -> SUBSET [file : Nat, event : Nat]]]
  /\ arrived \in [Ids -> Seq(Nat)]
  /\ \A s \in Ids : Latest(s) <= MaxEvents /\ (handler[s] # "idle" => Latest(s) > 0)

(* The event that is handled is counted when its artifact is written. *)
Counted(s) ==
  IF handler[s] \in {"send", "memory", "count"} THEN Latest(s) - 1 ELSE Latest(s)

CountsInv ==
  \A s \in Ids, k \in Media : sequence[s][k] = HowMany(s, k, Counted(s))

FilesInv ==
  \A s \in Ids, k \in Media : \A f \in files[s][k] :
    f.event < Latest(s) \/ handler[s] = "idle"

(* The event a handler is about to hand over is with the gateway in no     *)
(* form yet.                                                               *)
Old(s, n) == n \in 1 .. Latest(s) /\ (handler[s] = "send" => n < Latest(s))

QueuedInv ==
  \A k \in Media : \A i \in 1 .. Len(channel[k]), s \in Ids :
    channel[k][i].session = s =>
      Old(s, channel[k][i].number) /\ spoken[s][channel[k][i].number] = k

(* A channel keeps the order of a session, and what has arrived was spoken *)
(* before what waits.                                                      *)
QueueOrder ==
  \A k \in Media : \A i, j \in 1 .. Len(channel[k]) :
    i < j /\ channel[k][i].session = channel[k][j].session =>
      channel[k][i].number < channel[k][j].number

ArrivedFirst ==
  \A k \in Media : \A i \in 1 .. Len(channel[k]), s \in Ids :
    channel[k][i].session = s =>
      \A j \in 1 .. Len(arrived[s]) :
        spoken[s][arrived[s][j]] = k => arrived[s][j] < channel[k][i].number

ArrivedInv ==
  \A s \in Ids : \A i \in 1 .. Len(arrived[s]) : Old(s, arrived[s][i])

(* As long as the gateway is there every event is handed to it. *)
HandedInv ==
  open => \A s \in Ids : \A n \in 1 .. Latest(s) :
            Old(s, n) => Handed(s, spoken[s][n], n)

IInv ==
  /\ TypeOK /\ Shapes /\ CountsInv /\ FilesInv /\ NumberedAsSpoken
  /\ QueuedInv /\ QueueOrder /\ ArrivedFirst /\ ArrivedInv /\ HandedInv
  /\ InOrder /\ WithoutGaps
=============================================================================
