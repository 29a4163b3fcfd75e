---------------------------- MODULE SessionTurns ----------------------------
(***************************************************************************)
(* The commands on one session (handle_session_audio, _audio_commit,       *)
(* _response_create, _response_interrupt and _prompt in server.rs, and the *)
(* methods of RunnerAdapter behind them): the connections of a principal   *)
(* send them concurrently, one at a time each, and any of them may end the *)
(* session (handle_terminate_session) at any time.                         *)
(*                                                                         *)
(* The runtime keeps one connection with the provider: a reconnect would   *)
(* begin another conversation.                                             *)
(***************************************************************************)
EXTENDS Naturals, Sequences, FiniteSets, SequencesExt

CONSTANTS
  Conns,        \* connections of the owner of the session
  MaxCommands   \* bound: commands of all connections

SessionTurnsAssumption == MaxCommands \in Nat

VARIABLES
  owned,         \* the session is in session_owners
  cached,        \* connections that have it in their owned_sessions
  runtime,       \* in the runner: "listed", "removed" from the table, "closed"
  client,        \* the command of a connection and how far it is
  answers,       \* what a connection was sent for its last command
  \* The provider.
  buffer,        \* audio chunks that are not committed
  conversation   \* committed audio, prompts, responses and interrupts

vars == <<owned, cached, runtime, client, answers, buffer, conversation>>

(* The messages about a session.  A prompt may ask for a response, and may *)
(* mention a file of the workspace.                                        *)
Commands ==
  [type : {"audio", "commit", "response", "interrupt", "terminate"}]
    \cup [type : {"prompt"}, respond : BOOLEAN, file : BOOLEAN]

Codes == {"accepted", "failed", "invalid", "session_not_found",
          "tool_bridge_failed", "response_failed"}

At(c, pc) == client[c].pc = pc
Type(c) == client[c].cmd.type
Nth(c) == client[c].n
Goes(c, pc) == client' = [client EXCEPT ![c].pc = pc]
Answer(c, code) ==
  /\ client' = [client EXCEPT ![c].pc = "idle"]
  /\ answers' = [answers EXCEPT ![c] = Append(@, code)]

(* maybe_extract_workspace_read_path finds a path in the prompt. *)
MentionsFile(c) == Type(c) = "prompt" /\ client[c].cmd.file

(* The connection that created the session may still be there. *)
Init ==
  /\ owned = TRUE /\ runtime = "listed"
  /\ cached \in SUBSET Conns /\ Cardinality(cached) <= 1
  /\ client = [c \in Conns |-> [pc |-> "idle", n |-> 0, late |-> FALSE,
                                cmd |-> [type |-> "commit"]]]
  /\ answers = [c \in Conns |-> <<>>]
  /\ buffer = <<>> /\ conversation = <<>>

----------------------------------------------------------------------------
(* A command arrives, and is checked.                                      *)

(* late says for the properties that the runner has let the session go.    *)
Begin(c, cmd) ==
  /\ At(c, "idle") /\ MapThenSumSet(Nth, Conns) < MaxCommands
  /\ client' = [client EXCEPT ![c] = [pc |-> "check", n |-> @.n + 1, cmd |-> cmd,
                                     late |-> runtime # "listed"]]
  /\ answers' = [answers EXCEPT ![c] = <<>>]
  /\ UNCHANGED <<owned, cached, runtime, buffer, conversation>>

(* authorize_session_access lets a connection pass that was let pass       *)
(* before, whether or not the session still has an owner.                  *)
Granted(c) == c \in cached \/ owned

(* The session has no owner, audio is not base64, a prompt is empty; or    *)
(* the command goes on.                                                    *)
Check(c) ==
  /\ At(c, "check")
  /\ IF Granted(c)
     THEN /\ cached' = cached \cup {c}
          /\ \/ Type(c) \in {"audio", "prompt"} /\ Answer(c, "invalid")
             \/ /\ Goes(c, CASE MentionsFile(c) -> "tool"
                             [] Type(c) = "terminate" -> "disown"
                             [] OTHER -> "look_up")
                /\ UNCHANGED answers
     ELSE Answer(c, "session_not_found") /\ UNCHANGED cached
  /\ UNCHANGED <<owned, runtime, buffer, conversation>>

(* The file is read by a tool call, whose result, good or bad, is sent to  *)
(* the connection before the prompt goes on.                               *)
Tool(c) ==
  /\ At(c, "tool")
  /\ IF runtime = "listed"
     THEN /\ Goes(c, "look_up")
          /\ answers' = [answers EXCEPT ![c] =
                           Append(@, "tool_result")]
     ELSE Answer(c, "tool_bridge_failed")
  /\ UNCHANGED <<owned, cached, runtime, buffer, conversation>>

----------------------------------------------------------------------------
(* The runner passes the command to the runtime of the session.            *)

(* runtime_for_session; the runtime is used after the lock is released. *)
LookUp(c) ==
  /\ At(c, "look_up")
  /\ IF runtime = "listed" THEN Goes(c, "send") /\ UNCHANGED answers
     ELSE Answer(c, "failed")
  /\ UNCHANGED <<owned, cached, runtime, buffer, conversation>>

(* What a command does at the provider. *)
Item(c) == [type |-> Type(c), conn |-> c, n |-> Nth(c)]

(* Audio is appended to the buffer, a commit moves the buffer into the     *)
(* conversation.                                                           *)
Take(c) ==
  CASE Type(c) = "audio" ->
         buffer' = Append(buffer, Item(c)) /\ UNCHANGED conversation
    [] Type(c) = "commit" ->
         /\ conversation' = conversation \o buffer
         /\ buffer' = <<>>
    [] OTHER ->
         conversation' = Append(conversation, Item(c)) /\ UNCHANGED buffer

(* Mutant of Send: that a prompt failed is only logged. *)
Send_Logged(c) ==
  /\ At(c, "send")
  /\ \/ runtime # "closed" /\ Take(c)
     \/ UNCHANGED <<buffer, conversation>>
  /\ IF Type(c) = "prompt" /\ client[c].cmd.respond
     THEN Goes(c, "look_up_again") /\ UNCHANGED answers
     ELSE Answer(c, "accepted")
  /\ UNCHANGED <<owned, cached, runtime>>

(* The runtime succeeds, or fails with or without an effect, as it does    *)
(* when an acknowledgement is late.  A prompt may go on to its response.   *)
Send(c) ==
  /\ At(c, "send")
  /\ \/ /\ runtime # "closed" /\ Take(c)
        /\ IF Type(c) = "prompt" /\ client[c].cmd.respond
           THEN Goes(c, "look_up_again") /\ UNCHANGED answers
           ELSE Answer(c, "accepted")
     \/ runtime # "closed" /\ Take(c) /\ Answer(c, "failed")
     \/ Answer(c, "failed") /\ UNCHANGED <<buffer, conversation>>
  /\ UNCHANGED <<owned, cached, runtime>>

LookUpAgain(c) ==
  /\ At(c, "look_up_again")
  /\ IF runtime = "listed" THEN Goes(c, "respond") /\ UNCHANGED answers
     ELSE Answer(c, "response_failed")
  /\ UNCHANGED <<owned, cached, runtime, buffer, conversation>>

Respond(c) ==
  /\ At(c, "respond")
  /\ \/ /\ runtime # "closed"
        /\ conversation' = Append(conversation, [Item(c) EXCEPT !.type = "response"])
        /\ Answer(c, "accepted") \/ Answer(c, "response_failed")
     \/ Answer(c, "response_failed") /\ UNCHANGED conversation
  /\ UNCHANGED <<owned, cached, runtime, buffer>>

----------------------------------------------------------------------------

(* handle_terminate_session: the owner is removed, then the runner takes   *)
(* the session out of its table, or does not find it, and then closes its  *)
(* runtime.                                                                *)

Disown(c) ==
  /\ At(c, "disown")
  /\ owned' = FALSE /\ cached' = cached \ {c}
  /\ Goes(c, "remove")
  /\ UNCHANGED <<runtime, answers, buffer, conversation>>

TakeOut(c) ==
  /\ At(c, "remove")
  /\ IF runtime = "listed"
     THEN runtime' = "removed" /\ Goes(c, "close") /\ UNCHANGED answers
     ELSE Answer(c, "failed") /\ UNCHANGED runtime
  /\ UNCHANGED <<owned, cached, buffer, conversation>>

CloseRuntime(c) ==
  /\ At(c, "close")
  /\ runtime' = "closed"
  /\ Answer(c, "accepted")
  /\ UNCHANGED <<owned, cached, buffer, conversation>>

Step(c) ==
  \/ Check(c) \/ Tool(c) \/ LookUp(c) \/ Send(c) \/ LookUpAgain(c) \/ Respond(c)
  \/ Disown(c) \/ TakeOut(c) \/ CloseRuntime(c)

Next == \E c \in Conns : Step(c) \/ \E cmd \in Commands : Begin(c, cmd)

Spec == Init /\ [][Next]_vars

----------------------------------------------------------------------------
Done(c, code) == At(c, "idle") /\ code \in Range(answers[c])
Said == conversation \o buffer
IsAudioOf(item, c) == item.type = "audio" /\ item.conn = c

(* Types. *)
TypeOK ==
  /\ owned \in BOOLEAN /\ runtime \in {"listed", "removed", "closed"}
  /\ cached \subseteq Conns
  /\ \A c \in Conns : Nth(c) \in Nat /\ client[c].cmd \in Commands
  /\ \A i \in DOMAIN buffer : buffer[i].type = "audio"

(* A command reaches the provider at most once; if it is accepted it is    *)
(* there, a prompt before the response that was asked for with it, and if  *)
(* it is refused before it is sent it is not.                              *)
AcceptedOnce ==
  /\ IsInjective(Said)
  /\ \A c \in Conns :
       /\ \A code \in {"invalid", "session_not_found", "tool_bridge_failed"} :
            Done(c, code) => Item(c) \notin Range(Said)
       /\ Done(c, "accepted") /\ Type(c) \notin {"commit", "terminate"} =>
            Item(c) \in Range(Said)
       /\ Done(c, "accepted") /\ Type(c) = "prompt" /\ client[c].cmd.respond =>
            \E i, j \in DOMAIN conversation :
              /\ i < j
              /\ conversation[i] = Item(c)
              /\ conversation[j] = [Item(c) EXCEPT !.type = "response"]

(* The audio of a connection is committed in the order it was sent, though *)
(* other connections add to and commit the same buffer, and what had been  *)
(* sent before an accepted commit is no longer in the buffer.              *)
CommitsCover ==
  \A c \in Conns :
    /\ \A i, j \in DOMAIN Said :
         i < j /\ IsAudioOf(Said[i], c) /\ IsAudioOf(Said[j], c) =>
           Said[i].n < Said[j].n
    /\ Done(c, "accepted") /\ Type(c) = "commit" =>
         \A i \in DOMAIN buffer : buffer[i].conn # c

(* Every command is answered once, and a connection that is told that its  *)
(* prompt about a file was accepted has been sent the tool's result before. *)
AnsweredOnce ==
  \A c \in Conns : At(c, "idle") /\ Nth(c) > 0 =>
    \E code \in Codes :
      /\ answers[c] \in {<<code>>, <<"tool_result", code>>}
      /\ code = "accepted" /\ MentionsFile(c) => Len(answers[c]) = 2

(* A connection that is, or will be, told that it has ended the session.   *)
Ends(c) ==
  \/ At(c, "close")
  \/ Done(c, "accepted") /\ Type(c) = "terminate"

(* Access outlives the session in owned_sessions, but gets nowhere: a      *)
(* command that comes after the runner has let the session go is not       *)
(* accepted and reaches no provider, whoever still has the session cached. *)
(* An owner is on record only while the runner has the session, and of     *)
(* connections that end it at once only one is told it did.                *)
EndedRefuses ==
  /\ \A c \in Conns : client[c].late =>
       ~Done(c, "accepted") /\ Item(c) \notin Range(Said)
  /\ owned => runtime = "listed"
  /\ \A c, d \in Conns : Ends(c) /\ Ends(d) => c = d

----------------------------------------------------------------------------
(* The inductive invariant behind the properties above: where every        *)
(* command is, what it has been sent and what of it the provider has.      *)

Items == [type : {"audio", "prompt", "response", "interrupt"}, conn : Conns, n : Nat]

(* The item comes from the last command of the connection. *)
IsLastOf(item, c) == item.conn = c /\ item.n = Nth(c)

Places == {"idle", "check", "tool", "look_up", "send", "look_up_again", "respond",
           "disown", "remove", "close"}

TypesInv ==
  /\ owned \in BOOLEAN /\ runtime \in {"listed", "removed", "closed"}
  /\ cached \subseteq Conns
  /\ client \in [Conns -> [pc : Places, n : Nat, late : BOOLEAN, cmd : Commands]]
  /\ answers \in [Conns -> Seq(Codes \cup {"tool_result"})]
  /\ conversation \in Seq(Items)
  /\ buffer \in Seq([type : {"audio"}, conn : Conns, n : Nat])

(* Nothing is said twice, or before its command, and audio is in order. *)
SaidInv ==
  /\ \A i, j \in DOMAIN Said : Said[i] = Said[j] => i = j
  /\ \A i \in DOMAIN Said : Said[i].n <= Nth(Said[i].conn)
  /\ \A i, j \in DOMAIN Said :
       /\ i < j /\ Said[i].conn = Said[j].conn
       /\ Said[i].type = "audio" /\ Said[j].type = "audio"
       => Said[i].n < Said[j].n

(* A command that has not been sent has said nothing; one that goes on to  *)
(* its response has said its prompt and nothing else.                      *)
StepInv(c) ==
  /\ At(c, "tool") => MentionsFile(c)
  /\ client[c].pc \in {"look_up", "send"} => Type(c) # "terminate"
  /\ client[c].pc \in {"check", "tool", "look_up", "send"} =>
       \A i \in DOMAIN Said : ~IsLastOf(Said[i], c)
  /\ client[c].pc \in {"look_up_again", "respond"} =>
       /\ Type(c) = "prompt" /\ client[c].cmd.respond
       /\ \E i \in DOMAIN conversation : conversation[i] = Item(c)
       /\ \A i \in DOMAIN Said : IsLastOf(Said[i], c) => Said[i].type = "prompt"

(* What a connection has been sent for its last command. *)
AnswersInv(c) ==
  /\ client[c].pc \in {"check", "tool", "disown", "remove", "close"} =>
       answers[c] = <<>>
  /\ client[c].pc \in {"disown", "remove", "close"} => Type(c) = "terminate"
  /\ client[c].pc \in {"look_up", "send", "look_up_again", "respond"} =>
       answers[c] = IF MentionsFile(c) THEN <<"tool_result">> ELSE <<>>
  /\ At(c, "idle") =>
       \/ Nth(c) = 0 /\ answers[c] = <<>>
       \/ \E code \in Codes :
            /\ answers[c] \in {<<code>>, <<"tool_result", code>>}
            /\ code = "accepted" /\ MentionsFile(c) => answers[c] # <<code>>

(* What an answer says of the provider. *)
DoneInv(c) ==
  /\ Done(c, "invalid") \/ Done(c, "session_not_found") \/ Done(c, "tool_bridge_failed")
       => \A i \in DOMAIN Said : ~IsLastOf(Said[i], c)
  /\ Done(c, "accepted") /\ Type(c) \notin {"commit", "terminate"} =>
       \E i \in DOMAIN Said : Said[i] = Item(c)
  /\ Done(c, "accepted") /\ Type(c) = "prompt" /\ client[c].cmd.respond =>
       \E i, j \in DOMAIN conversation :
         /\ i < j
         /\ conversation[i] = Item(c)
         /\ conversation[j] = [Item(c) EXCEPT !.type = "response"]
  /\ Done(c, "accepted") /\ Type(c) = "commit" =>
       \A i \in DOMAIN buffer : buffer[i].conn # c

(* How far the session has ended, and who does it. *)
EndInv ==
  /\ owned => runtime = "listed"
  /\ \A c \in Conns :
       /\ client[c].pc \in {"remove", "close"} => ~owned
       /\ At(c, "close") => runtime = "removed"
       /\ Ends(c) => runtime # "listed"
       /\ client[c].late =>
            /\ runtime # "listed"
            /\ client[c].pc \notin {"send", "look_up_again", "respond", "close"}
            /\ ~Done(c, "accepted")
            /\ \A i \in DOMAIN Said : ~IsLastOf(Said[i], c)
  /\ \A c, d \in Conns : Ends(c) /\ Ends(d) => c = d

SayInv ==
  /\ TypesInv /\ SaidInv
  /\ \A c \in Conns : StepInv(c) /\ AnswersInv(c) /\ DoneInv(c)

IInv == SayInv /\ EndInv
=============================================================================
