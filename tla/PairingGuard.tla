---------------------------- MODULE PairingGuard ----------------------------
(***************************************************************************)
(* The pairing guard of the gateway: liveclaw-gateway/src/pairing.rs.      *)
(*                                                                         *)
(* PairingGuard is shared by every connection task through an Arc, and     *)
(* try_pair takes no lock that spans the call: the lockout deadline sits   *)
(* behind a RwLock, the failure count in an AtomicU32, the token hashes    *)
(* behind another RwLock.  Calls made by different worker threads can      *)
(* therefore interleave between any two of these accesses.  One action     *)
(* here is one such access.                                                *)
(***************************************************************************)
EXTENDS Integers, FiniteSets

CONSTANTS
  Callers,      \* the worker threads that may be inside try_pair at once
  MaxAttempts,  \* max_attempts: failures that trip the lockout (5 in new())
  Lockout,      \* lockout_duration, in clock ticks (300 s in new())
  MaxTime,      \* bound: the last tick of the clock
  MaxCalls      \* bound: calls of try_pair ever started

ASSUME GuardAssumption ==
  /\ IsFiniteSet(Callers)
  /\ MaxAttempts \in Nat \ {0}
  /\ Lockout \in Nat \ {0}
  /\ MaxTime \in Nat \ {0}
  /\ MaxCalls \in Nat

VARIABLES
  config,          \* require_pairing, and whether a pairing code exists
  clock,           \* Instant::now()
  failed_attempts, \* the AtomicU32
  lockout_until,   \* the RwLock<Option<Instant>>; 0 stands for None
  token_hashes,    \* how many hashes the Vec holds
  pc,              \* the access each caller makes next
  stamp,           \* the local `until` a tripping caller has computed
  (* History, read by no action: *)
  calls,           \* calls of try_pair started
  wrong,           \* wrong codes compared
  trips,           \* failures that reached max_attempts
  resets,          \* stores of 0 into failed_attempts
  late             \* comparisons made since the lockout now in force began

guardVars   == <<config, clock, failed_attempts, lockout_until, token_hashes>>
historyVars == <<calls, wrong, trips, resets, late>>
vars        == <<guardVars, pc, stamp, historyVars>>

Steps == {"idle", "compare", "reset", "push", "trip", "lock", "zero"}

----------------------------------------------------------------------------

(* new(): a code is generated exactly when pairing is required and no      *)
(* existing token was configured.                                          *)
Init ==
  /\ config \in [required : BOOLEAN, code : BOOLEAN]
  /\ config.code => config.required
  /\ token_hashes = IF config.required /\ ~config.code THEN 1 ELSE 0
  /\ clock = 1
  /\ failed_attempts = 0
  /\ lockout_until = 0
  /\ pc = [c \in Callers |-> "idle"]
  /\ stamp = [c \in Callers |-> 0]
  /\ calls = 0 /\ wrong = 0 /\ trips = 0 /\ resets = 0 /\ late = 0

LockedAt(now, until) == now < until
Locked == LockedAt(clock, lockout_until)

Step(c, from, to) ==
  /\ pc[c] = from
  /\ pc' = [pc EXCEPT ![c] = to]

(* Mutant of CheckLockout: the deadline is not looked at. *)
CheckLockout_Ignored(c) ==
  /\ calls < MaxCalls
  /\ calls' = calls + 1
  /\ Step(c, "idle", IF config.required /\ config.code THEN "compare" ELSE "idle")
  /\ UNCHANGED <<guardVars, stamp, wrong, trips, resets, late>>

(* The early return for require_pairing = false, the lockout check under   *)
(* the read lock, and the early return when no code was generated.         *)
CheckLockout(c) ==
  /\ calls < MaxCalls
  /\ calls' = calls + 1
  /\ IF config.required /\ ~Locked /\ config.code
     THEN Step(c, "idle", "compare")
     ELSE Step(c, "idle", "idle")
  /\ UNCHANGED <<guardVars, stamp, wrong, trips, resets, late>>

CountLate == late' = IF Locked THEN late + 1 ELSE late

(* code == expected *)
CompareRight(c) ==
  /\ Step(c, "compare", "reset")
  /\ CountLate
  /\ UNCHANGED <<guardVars, stamp, calls, wrong, trips, resets>>

(* Mutant of CompareWrong: one failure too many before the lockout. *)
CompareWrong_OffByOne(c) ==
  LET attempts == failed_attempts + 1
      trip     == attempts > MaxAttempts
  IN /\ Step(c, "compare", IF trip THEN "trip" ELSE "idle")
     /\ failed_attempts' = attempts
     /\ wrong' = wrong + 1
     /\ trips' = IF trip THEN trips + 1 ELSE trips
     /\ CountLate
     /\ UNCHANGED <<config, clock, lockout_until, token_hashes, stamp,
                    calls, resets>>

(* code != expected: fetch_add, then the test of attempts = prev + 1 *)
CompareWrong(c) ==
  LET attempts == failed_attempts + 1
      trip     == attempts >= MaxAttempts
  IN /\ Step(c, "compare", IF trip THEN "trip" ELSE "idle")
     /\ failed_attempts' = attempts
     /\ wrong' = wrong + 1
     /\ trips' = IF trip THEN trips + 1 ELSE trips
     /\ CountLate
     /\ UNCHANGED <<config, clock, lockout_until, token_hashes, stamp,
                    calls, resets>>

StoreZero ==
  /\ failed_attempts' = 0
  /\ resets' = resets + 1

(* Success, first access: failed_attempts.store(0). *)
ResetAttempts(c) ==
  /\ Step(c, "reset", "push")
  /\ StoreZero
  /\ UNCHANGED <<config, clock, lockout_until, token_hashes, stamp,
                 calls, wrong, trips, late>>

(* Success, second access: the new token's hash joins token_hashes. *)
PushToken(c) ==
  /\ Step(c, "push", "idle")
  /\ token_hashes' = token_hashes + 1
  /\ UNCHANGED <<config, clock, failed_attempts, lockout_until, stamp,
                 historyVars>>

(* The tripping failure computes its deadline before it asks for the lock. *)
ComputeUntil(c) ==
  /\ Step(c, "trip", "lock")
  /\ stamp' = [stamp EXCEPT ![c] = clock + Lockout]
  /\ UNCHANGED <<guardVars, historyVars>>

WriteLockout(c) ==
  /\ Step(c, "lock", "zero")
  /\ lockout_until' = stamp[c]
  /\ stamp' = [stamp EXCEPT ![c] = 0]
  /\ late' = IF LockedAt(clock, lockout_until) /\ LockedAt(clock, stamp[c])
             THEN late ELSE 0
  /\ UNCHANGED <<config, clock, failed_attempts, token_hashes,
                 calls, wrong, trips, resets>>

(* Mutant of ZeroAttempts: the lockout leaves the count as it is. *)
ZeroAttempts_Forgotten(c) ==
  /\ Step(c, "zero", "idle")
  /\ resets' = resets + 1
  /\ UNCHANGED <<guardVars, stamp, calls, wrong, trips, late>>

ZeroAttempts(c) ==
  /\ Step(c, "zero", "idle")
  /\ StoreZero
  /\ UNCHANGED <<config, clock, lockout_until, token_hashes, stamp,
                 calls, wrong, trips, late>>

Tick ==
  /\ clock < MaxTime
  /\ clock' = clock + 1
  /\ late' = IF LockedAt(clock + 1, lockout_until) THEN late ELSE 0
  /\ UNCHANGED <<config, failed_attempts, lockout_until, token_hashes, pc,
                 stamp, calls, wrong, trips, resets>>

Next ==
  \/ \E c \in Callers :
       \/ CheckLockout(c)
       \/ CompareRight(c)
       \/ CompareWrong(c)
       \/ ResetAttempts(c)
       \/ PushToken(c)
       \/ ComputeUntil(c)
       \/ WriteLockout(c)
       \/ ZeroAttempts(c)
  \/ Tick

Spec == Init /\ [][Next]_vars

----------------------------------------------------------------------------

TypeOK ==
  /\ config \in [required : BOOLEAN, code : BOOLEAN]
  /\ clock \in 1..MaxTime
  /\ failed_attempts \in Nat
  /\ lockout_until \in Nat
  /\ token_hashes \in Nat
  /\ pc \in [Callers -> Steps]
  /\ stamp \in [Callers -> Nat]
  /\ calls \in 0..MaxCalls
  /\ wrong \in Nat /\ trips \in Nat /\ resets \in Nat /\ late \in Nat

CallersAt(S) == {c \in Callers : pc[c] \in S}

(* Callers that have counted a tripping failure and not yet stored the 0.  *)
Tripping == CallersAt({"trip", "lock", "zero"})

(* The failure count never drifts: it exceeds max_attempts - 1 by at most  *)
(* one per tripping caller.  So once no call is in progress it is below    *)
(* max_attempts, and the u32 cannot wrap, however the two stores of 0 and  *)
(* the fetch_adds interleave.                                              *)
CounterBound ==
  failed_attempts <= (MaxAttempts - 1) + Cardinality(Tripping)

(* Racing calls gain no free guesses: between two stores of 0 at most      *)
(* max_attempts - 1 wrong codes are compared without tripping the lockout, *)
(* every other wrong code trips it.                                        *)
GuessBudget ==
  wrong <= (MaxAttempts - 1) * (resets + 1) + trips

(* The lockout is checked before the code is compared and may be set in    *)
(* between: while one lockout is in force the comparisons that slip through*)
(* are only those already past the check, fewer than the calling threads.  *)
LateGuesses ==
  Locked => late + Cardinality(CallersAt({"compare"})) < Cardinality(Callers)

(* "One-time 6-digit pairing code authentication" (README.md:22): the      *)
(* generated code buys one token.                                          *)
OneTimeCode == config.code => token_hashes <= 1
=============================================================================
