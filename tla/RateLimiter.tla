---------------------------- MODULE RateLimiter -----------------------------
(***************************************************************************)
(* The rate limiter for tool executions (RateLimiter in security.rs) and   *)
(* the callback that asks it before a tool runs (agent.rs).  The counters  *)
(* are u32 atomics in a map behind a readers-writer lock: calls that find  *)
(* their counter work on it together, with the read lock held, and one     *)
(* that is over the limit takes its increment back.                        *)
(***************************************************************************)
EXTENDS Naturals, FiniteSets

CONSTANTS
  Callers,    \* concurrent calls of before_tool_callback
  SessionIds,
  Limit,      \* RateLimiter.limit
  Size,       \* the values of a counter: 2^32 in the code
  MaxResets,  \* bound: calls of reset, which nothing but tests makes
  Absent      \* a session without a counter

(* The rate limit plugin raises a limit of 0 to 1. *)
ASSUME RateLimiterAssumption ==
  /\ IsFiniteSet(Callers)
  /\ Limit \in Nat \ {0} /\ MaxResets \in Nat
  /\ Size \in Nat /\ Limit + Cardinality(Callers) < Size
  /\ Absent \notin Nat

VARIABLES
  counts,   \* the counter of a session
  pc,       \* where a call is
  of,       \* the session of a call
  resets,
  \* History.
  allowed,  \* calls of a session allowed since its last reset
  blocked,  \* sessions that had a call rejected since their last reset
  strays    \* calls that had an increment to take back at the last reset

vars == <<counts, pc, of, resets, allowed, blocked, strays>>

Undoing(s) == {c \in Callers : pc[c] = "undo" /\ of[c] = s}
Unlocked == \A c \in Callers : pc[c] # "undo"
Go(c, point) == pc' = [pc EXCEPT ![c] = point]
Allow(s) == allowed' = [allowed EXCEPT ![s] = @ + 1]

(* fetch_add and fetch_sub wrap around. *)
Up(n) == IF n = Size - 1 THEN 0 ELSE n + 1
Down(n) == IF n = 0 THEN Size - 1 ELSE n - 1

(* k less than n, wrapping around. *)
Behind(n, k) == IF k <= n THEN n - k ELSE n + Size - k

Init ==
  /\ counts = [s \in SessionIds |-> Absent]
  /\ pc = [c \in Callers |-> "idle"]
  /\ of \in [Callers -> SessionIds]
  /\ resets = 0
  /\ allowed = [s \in SessionIds |-> 0]
  /\ blocked = {} /\ strays = [s \in SessionIds |-> 0]

----------------------------------------------------------------------------
(* check_and_increment *)

Call(c, s) ==
  /\ pc[c] = "idle"
  /\ Go(c, "read")
  /\ of' = [of EXCEPT ![c] = s]
  /\ UNCHANGED <<counts, resets, allowed, blocked, strays>>

Absentee(c) ==
  /\ pc[c] = "read"
  /\ counts[of[c]] = Absent
  /\ Go(c, "write")
  /\ UNCHANGED <<counts, of, resets, allowed, blocked, strays>>

(* Mutant of FetchAdd: one call more than the limit is allowed. *)
FetchAdd_OffByOne(c) ==
  /\ pc[c] = "read"
  /\ counts[of[c]] # Absent
  /\ counts' = [counts EXCEPT ![of[c]] = Up(@)]
  /\ IF counts[of[c]] > Limit
     THEN /\ Go(c, "undo")
          /\ UNCHANGED allowed
     ELSE /\ Go(c, "screen")
          /\ Allow(of[c])
  /\ UNCHANGED <<of, resets, blocked, strays>>

(* Mutant of FetchAdd: the increment of a blocked call is kept. *)
FetchAdd_Kept(c) ==
  /\ pc[c] = "read"
  /\ counts[of[c]] # Absent
  /\ counts' = [counts EXCEPT ![of[c]] = Up(@)]
  /\ IF counts[of[c]] >= Limit
     THEN /\ Go(c, "idle")
          /\ blocked' = blocked \cup {of[c]}
          /\ UNCHANGED allowed
     ELSE /\ Go(c, "screen")
          /\ Allow(of[c])
          /\ UNCHANGED blocked
  /\ UNCHANGED <<of, resets, strays>>

FetchAdd(c) ==
  /\ pc[c] = "read"
  /\ counts[of[c]] # Absent
  /\ counts' = [counts EXCEPT ![of[c]] = Up(@)]
  /\ IF counts[of[c]] >= Limit
     THEN /\ Go(c, "undo")
          /\ UNCHANGED allowed
     ELSE /\ Go(c, "screen")
          /\ Allow(of[c])
  /\ UNCHANGED <<of, resets, blocked, strays>>

FetchSub(c) ==
  /\ pc[c] = "undo"
  /\ counts' = [counts EXCEPT ![of[c]] = Down(@)]
  /\ Go(c, "idle")
  /\ blocked' = blocked \cup {of[c]}
  /\ UNCHANGED <<of, resets, allowed, strays>>

(* With the write lock held no other call is between its two accesses, so  *)
(* adding one and taking it back is one step that changes nothing.         *)
WriteLocked(c) ==
  /\ pc[c] = "write" /\ Unlocked
  /\ LET s == of[c]
         current == IF counts[s] = Absent THEN 0 ELSE counts[s]
     IN IF counts[s] # Absent /\ current >= Limit
        THEN /\ blocked' = blocked \cup {s}
             /\ Go(c, "idle")
             /\ UNCHANGED <<counts, allowed>>
        ELSE /\ counts' = [counts EXCEPT ![s] = Up(current)]
             /\ Allow(s)
             /\ Go(c, "screen")
             /\ UNCHANGED blocked
  /\ UNCHANGED <<of, resets, strays>>

(* The call was counted; whatever the check of its content for shell       *)
(* patterns says, it stays counted.                                        *)
Screen(c) ==
  /\ pc[c] = "screen"
  /\ Go(c, "idle")
  /\ UNCHANGED <<counts, of, resets, allowed, blocked, strays>>

(* reset: the read lock does not keep other calls out. *)
Reset(s) ==
  /\ resets < MaxResets
  /\ counts[s] # Absent
  /\ resets' = resets + 1
  /\ counts' = [counts EXCEPT ![s] = 0]
  /\ allowed' = [allowed EXCEPT ![s] = 0]
  /\ blocked' = blocked \ {s}
  /\ strays' = [strays EXCEPT ![s] = Cardinality(Undoing(s))]
  /\ UNCHANGED <<pc, of>>

----------------------------------------------------------------------------
Next ==
  \/ \E c \in Callers :
       \/ \E s \in SessionIds : Call(c, s)
       \/ Absentee(c) \/ FetchAdd(c) \/ FetchSub(c) \/ WriteLocked(c)
       \/ Screen(c)
  \/ \E s \in SessionIds : Reset(s)

Spec == Init /\ [][Next]_vars

----------------------------------------------------------------------------
(* Types. *)
TypeOK ==
  /\ counts \in [SessionIds -> (0 .. Size - 1) \cup {Absent}]
  /\ pc \in [Callers -> {"idle", "read", "write", "undo", "screen"}]
  /\ of \in [Callers -> SessionIds]
  /\ resets \in 0 .. MaxResets
  /\ allowed \in [SessionIds -> Nat]
  /\ blocked \in SUBSET SessionIds
  /\ strays \in [SessionIds -> Nat]

(* Racing calls get no more than the limit, first calls that race for the  *)
(* missing counter included.  A reset lets in one more call for every call *)
(* that was about to take its increment back.                              *)
WithinLimit == \A s \in SessionIds : allowed[s] <= Limit + strays[s]

(* The value a counter has, whatever overlaps: the calls allowed since the *)
(* reset, the increments to be taken back, less those the reset forgot,    *)
(* which wrap it.                                                          *)
CounterDrift ==
  \A s \in SessionIds : counts[s] # Absent =>
    counts[s] = Behind(allowed[s] + Cardinality(Undoing(s)), strays[s])

(* Increments that are about to be taken back block nobody who would have  *)
(* been let in: without resets a call is blocked only when the limit is    *)
(* used up.                                                                *)
BlockedAtLimit ==
  \A s \in SessionIds :
    s \in blocked \/ Undoing(s) # {} => allowed[s] >= Limit

(* A reset means what its comment says, "Reset the counter for a given     *)
(* session": when no call is between its two accesses, the counter is the  *)
(* number of calls allowed since.                                          *)
CounterExact ==
  \A s \in SessionIds :
    Undoing(s) = {} /\ counts[s] # Absent => counts[s] = allowed[s]
=============================================================================
