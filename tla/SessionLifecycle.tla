-------------------------- MODULE SessionLifecycle --------------------------
(***************************************************************************)
(* What the gateway promises about one session id, whatever tasks work on  *)
(* it: the runner starts it once, for one principal that never changes;    *)
(* clients can be granted access only after that (published) and no longer *)
(* once its removal has begun (hidden); the runner lets go of it only when *)
(* it is hidden; and a closed session never comes back.                    *)
(* Where handlers can be dropped (Droppable), a session is abandoned when  *)
(* the one that was publishing or removing it is; a connection that used   *)
(* the session before can still remove it.                                 *)
(***************************************************************************)
CONSTANTS Sessions, Principals, None, Droppable

VARIABLES
  status,  \* session -> its stage
  user     \* session -> the principal it was started for, or None

lifecycleVars == <<status, user>>

Init ==
  /\ status = [s \in Sessions |-> "unborn"]
  /\ user = [s \in Sessions |-> None]

Change(s, from, to) ==
  /\ status[s] \in from
  /\ status' = [status EXCEPT ![s] = to]

Start(s, p) ==
  /\ Change(s, {"unborn"}, "started")
  /\ user' = [user EXCEPT ![s] = p]

Publish(s) == Change(s, {"started"}, "published") /\ UNCHANGED user
Hide(s)    == Change(s, {"published"}, "hidden") /\ UNCHANGED user
Finish(s)  == Change(s, {"hidden"}, "closed") /\ UNCHANGED user

Abandon(s) ==
  /\ Droppable
  /\ Change(s, {"started", "hidden"}, "abandoned")
  /\ UNCHANGED user

Recover(s) == Change(s, {"abandoned"}, "hidden") /\ UNCHANGED user

Next ==
  \E s \in Sessions :
    \/ \E p \in Principals : Start(s, p)
    \/ Publish(s)
    \/ Hide(s)
    \/ Finish(s)
    \/ Abandon(s)
    \/ Recover(s)

Spec == Init /\ [][Next]_lifecycleVars
=============================================================================
