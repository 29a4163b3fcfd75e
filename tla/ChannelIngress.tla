--------------------------- MODULE ChannelIngress ---------------------------
(***************************************************************************)
(* The HTTP adapters for chat platforms (server.rs): what each adapter     *)
(* takes for a message of a user, the steps of a delivery through the      *)
(* gateway, the status it is answered with, and the platform that delivers *)
(* an event again until it is answered with a success.                     *)
(*                                                                         *)
(* GatewayChannels has the access-by-access routing of concurrent          *)
(* messages; here one event is followed through all its deliveries.        *)
(***************************************************************************)
EXTENDS Naturals, Sequences, FiniteSetsExt

CONSTANT MaxTries  \* bound: deliveries of an event by its platform

IngressAssumption == MaxTries \in Nat \ {0}

VARIABLES
  event,     \* the payload of the event and the query and header beside it
  pc,        \* where the delivery is
  tries,     \* deliveries so far
  session,   \* the session of the route of the event exists
  outcomes,  \* what the platform got for each delivery, "none" for nothing
  \* History.
  told,      \* deliveries whose text the runner took
  asked      \* deliveries whose response the runner started

vars == <<event, pc, tries, session, outcomes, told, asked>>

Platforms == {"webhook", "slack", "telegram", "discord", "matrix", "teams"}
Given == {"none", "blank", "text"}

(* A payload.  type is the event type, or whether there is a message at    *)
(* all; for the generic webhook "other" is a channel nobody supports.      *)
Events ==
  [platform : Platforms,
   type     : {"none", "message", "media", "other", "challenge"},
   sender   : {"none", "user", "bot"},
   account  : Given,
   text     : Given,
   token    : {"none", "wrong", "good"},
   create_response : BOOLEAN]

----------------------------------------------------------------------------
(* The adapters.  Each is a list of checks, and the first one that applies *)
(* ends the delivery; an event that no check applies to passes.            *)

When(condition, verdict) == [applies |-> condition, verdict |-> verdict]

FirstOf(checks) ==
  LET hits == {i \in DOMAIN checks : checks[i].applies}
  IN IF hits = {} THEN "pass" ELSE checks[Min(hits)].verdict

(* The JSON extractor refuses a payload without its mandatory fields. *)
Webhook(e) ==
  FirstOf(<<When("none" \in {e.account, e.sender, e.text}, "malformed")>>)

Slack(e) ==
  FirstOf(<<When(e.type = "challenge", "challenge"),
            When(e.type = "none", "malformed"),
            When(e.type # "message", "ignored"),
            When(e.sender = "bot", "ignored"),
            When("none" \in {e.account, e.sender, e.text}, "malformed")>>)

Telegram(e) ==
  FirstOf(<<When(e.type # "message", "ignored"),
            When(e.text = "none", "ignored"),
            When("none" \in {e.account, e.sender}, "malformed")>>)

Discord(e) ==
  FirstOf(<<When(e.type \notin {"none", "message"}, "ignored"),
            When(e.sender = "none", "malformed"),
            When(e.sender = "bot", "ignored"),
            When(e.text # "text", "ignored"),
            When(e.account = "none", "malformed")>>)

Matrix(e) ==
  FirstOf(<<When(e.type \notin {"none", "message", "media"}, "ignored"),
            When("none" \in {e.account, e.sender}, "malformed"),
            When(e.type = "media", "ignored"),
            When(e.text # "text", "ignored")>>)

Teams(e) ==
  FirstOf(<<When(e.type \notin {"none", "message"}, "ignored"),
            When("none" \in {e.account, e.sender}, "malformed"),
            When(e.text # "text", "ignored")>>)

Screened(e) ==
  CASE e.platform = "webhook"  -> Webhook(e)
    [] e.platform = "slack"    -> Slack(e)
    [] e.platform = "telegram" -> Telegram(e)
    [] e.platform = "discord"  -> Discord(e)
    [] e.platform = "matrix"   -> Matrix(e)
    [] e.platform = "teams"    -> Teams(e)

(* authenticate_http_principal with pairing required. *)
Authenticated(e) ==
  FirstOf(<<When(e.token = "none", "auth_required"),
            When(e.token = "wrong", "invalid_token")>>)

(* normalize_channel and normalize_channel_component. *)
Normalized(e) ==
  FirstOf(<<When(e.platform = "webhook" /\ e.type = "other", "invalid_channel"),
            When(e.account = "blank", "invalid_channel_route"),
            When(e.text = "blank", "invalid_channel_message")>>)

(* http_response_from_gateway and the answers of the adapters: a 2xx. *)
Success(a) == a \in {"challenge", "ignored", "routed"}

----------------------------------------------------------------------------
Init ==
  /\ event \in Events
  /\ pc = "idle" /\ tries = 0
  /\ session \in BOOLEAN
  /\ outcomes = [t \in 1 .. MaxTries |-> "none"]
  /\ told = {} /\ asked = {}

(* The platform gets the answer, and the handler is done. *)
Answered(a) ==
  /\ outcomes' = [outcomes EXCEPT ![tries] = a]
  /\ pc' = "idle"

Goes(to) == pc' = to /\ UNCHANGED outcomes

(* The platform, and the client of the generic webhook: an event is        *)
(* delivered until it is answered with a success.                          *)
Deliver ==
  /\ pc = "idle" /\ tries < MaxTries
  /\ tries > 0 => ~Success(outcomes[tries])
  /\ tries' = tries + 1
  /\ Goes("screen")
  /\ UNCHANGED <<event, session, told, asked>>

Screen ==
  /\ pc = "screen"
  /\ IF Screened(event) = "pass" THEN Goes("authenticate")
     ELSE Answered(Screened(event))
  /\ UNCHANGED <<event, tries, session, told, asked>>

Authenticate ==
  /\ pc = "authenticate"
  /\ IF Authenticated(event) # "pass" THEN Answered(Authenticated(event))
     ELSE IF Normalized(event) # "pass" THEN Answered(Normalized(event))
     ELSE Goes("route")
  /\ UNCHANGED <<event, tries, session, told, asked>>

(* The session of the route is used or created. *)
Route ==
  /\ pc = "route"
  /\ \/ Goes("authorize") /\ session' = TRUE
     \/ ~session /\ Answered("session_create_failed") /\ UNCHANGED session
  /\ UNCHANGED <<event, tries, told, asked>>

(* Another client ends the session. *)
EndSession ==
  /\ session
  /\ session' = FALSE
  /\ UNCHANGED <<event, pc, tries, outcomes, told, asked>>

(* A handler that created the session goes on even if it is gone. *)
Authorize ==
  /\ pc = "authorize"
  /\ \/ Goes("send")
     \/ ~session /\ Answered("session_not_found")
  /\ UNCHANGED <<event, tries, session, told, asked>>

(* Mutant of SendText: an error of the runner is only logged. *)
SendText_Logged ==
  /\ pc = "send"
  /\ Goes("respond")
  /\ (told' = told) \/ (session /\ told' = told \cup {tries})
  /\ UNCHANGED <<event, tries, session, asked>>

(* The runner takes the text or not; and when it does it may fail all the  *)
(* same, for an acknowledgement of the runtime that does not come in time. *)
SendText ==
  /\ pc = "send"
  /\ \/ /\ session
        /\ told' = told \cup {tries}
        /\ Goes("respond") \/ Answered("channel_inbound_failed")
     \/ Answered("channel_inbound_failed") /\ UNCHANGED told
  /\ UNCHANGED <<event, tries, session, asked>>

(* So with the response, if the event asks for one. *)
CreateResponse ==
  /\ pc = "respond"
  /\ IF event.create_response
     THEN \/ /\ session
             /\ asked' = asked \cup {tries}
             /\ Goes("answer") \/ Answered("channel_response_failed")
          \/ Answered("channel_response_failed") /\ UNCHANGED asked
     ELSE Goes("answer") /\ UNCHANGED asked
  /\ UNCHANGED <<event, tries, session, told>>

Reply ==
  /\ pc = "answer"
  /\ Answered("routed")
  /\ UNCHANGED <<event, tries, session, told, asked>>

(* The platform gives up waiting, or the connection breaks: the server     *)
(* drops the handler, or its answer is lost.                               *)
TimeOut ==
  /\ pc # "idle"
  /\ Goes("idle")
  /\ UNCHANGED <<event, tries, session, told, asked>>

Next ==
  \/ Deliver \/ Screen \/ Authenticate \/ Route \/ EndSession \/ Authorize
  \/ SendText \/ CreateResponse \/ Reply \/ TimeOut

Spec == Init /\ [][Next]_vars

----------------------------------------------------------------------------
Deliveries == 1 .. tries

(* Types. *)
TypeOK ==
  /\ event \in Events
  /\ pc \in {"idle", "screen", "authenticate", "route", "authorize", "send",
             "respond", "answer"}
  /\ tries \in 0 .. MaxTries /\ session \in BOOLEAN
  /\ told \cup asked \subseteq Deliveries

(* The runner gets an event again only from a platform that was told of a  *)
(* failure, or nothing at all: a delivery whose text it took and that has  *)
(* another after it failed at the runner, or its answer was lost.          *)
CopiesExplained ==
  \A t \in told :
    t < tries => outcomes[t] \in {"none", "channel_inbound_failed",
                                  "channel_response_failed"}

(* The platform is told to stop only when there is nothing left to do: by  *)
(* a last delivery that gave the runner the text and started the response, *)
(* whatever came of the deliveries before it.  No response is started for  *)
(* a text the runner did not take in the same delivery.                    *)
SuccessIsFinal ==
  /\ \A t \in Deliveries : outcomes[t] = "routed" =>
       /\ t = tries /\ pc = "idle" /\ t \in told
       /\ event.create_response => t \in asked
  /\ asked \subseteq told

(* An event that was refused or ignored leaves nothing behind: only the    *)
(* messages of a known principal reach the runner, whatever the platform   *)
(* and however often it tries.                                             *)
OnlyMessagesReach ==
  told # {} =>
    /\ event.token = "good" /\ event.text = "text"
    /\ \A t \in Deliveries :
         outcomes[t] \notin {"ignored", "challenge", "malformed",
                            "auth_required", "invalid_token", "invalid_channel",
                            "invalid_channel_route", "invalid_channel_message"}

(* What the gateway makes a bot say on Slack or Discord does not come back *)
(* as a message.                                                           *)
NoEchoes ==
  event.platform \in {"slack", "discord"} /\ event.sender = "bot" =>
    told = {}
=============================================================================
