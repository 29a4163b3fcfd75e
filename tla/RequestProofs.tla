---------------------------- MODULE RequestProofs ----------------------------
(***************************************************************************)
(* The properties of the parts that handle one request or event each, for  *)
(* every value of their constants: the pairing guard, the webhook events,  *)
(* the supervised actions, the tool calls and the turns of a session.      *)
(***************************************************************************)
EXTENDS MCRequests, Sequences, FiniteSetTheorems, TLAPS

----------------------------------------------------------------------------
(* PairingGuard *)

(* Types are preserved by every step. *)
LEMMA TypeNext ==
  ASSUME TypeOK, [Next]_vars
  PROVE  TypeOK'
<1> USE GuardAssumption DEF TypeOK, Steps, Step, guardVars, historyVars
<1>1. CASE UNCHANGED vars
  BY <1>1 DEF vars
<1>2. ASSUME NEW c \in Callers, CheckLockout(c) PROVE TypeOK'
  BY <1>2 DEF CheckLockout
<1>3. ASSUME NEW c \in Callers, CompareRight(c) PROVE TypeOK'
  BY <1>3 DEF CompareRight, CountLate
<1>4. ASSUME NEW c \in Callers, CompareWrong(c) PROVE TypeOK'
  BY <1>4 DEF CompareWrong, CountLate
<1>5. ASSUME NEW c \in Callers, ResetAttempts(c) PROVE TypeOK'
  BY <1>5 DEF ResetAttempts, StoreZero
<1>6. ASSUME NEW c \in Callers, PushToken(c) PROVE TypeOK'
  BY <1>6 DEF PushToken
<1>7. ASSUME NEW c \in Callers, ComputeUntil(c) PROVE TypeOK'
  BY <1>7 DEF ComputeUntil
<1>8. ASSUME NEW c \in Callers, WriteLockout(c) PROVE TypeOK'
  BY <1>8 DEF WriteLockout
<1>9. ASSUME NEW c \in Callers, ZeroAttempts(c) PROVE TypeOK'
  BY <1>9 DEF ZeroAttempts, StoreZero
<1>10. CASE Tick
  BY <1>10 DEF Tick
<1> QED
  BY <1>1, <1>2, <1>3, <1>4, <1>5, <1>6, <1>7, <1>8, <1>9, <1>10 DEF Next

(* The guard's variables keep their types in every reachable state: the    *)
(* failure count, the deadline and the stamps stay natural numbers and     *)
(* every caller is at one of the accesses of try_pair.                     *)
THEOREM GuardTypeCorrect == Spec => []TypeOK
<1>1. Init => TypeOK
  BY GuardAssumption DEF Init, TypeOK, Steps
<1>2. TypeOK /\ [Next]_vars => TypeOK'
  BY TypeNext
<1> QED
  BY <1>1, <1>2, PTL DEF Spec

----------------------------------------------------------------------------

(* Moving one caller moves it in or out of the tripping ones, alone. *)
LEMMA TrippingMoves ==
  ASSUME TypeOK, NEW c \in Callers, NEW from, NEW to, Step(c, from, to)
  PROVE  /\ from \notin {"trip", "lock", "zero"} /\ to \in {"trip", "lock", "zero"}
              => Cardinality(Tripping)' = Cardinality(Tripping) + 1
         /\ from = "zero" /\ to = "idle"
              => Cardinality(Tripping)' = Cardinality(Tripping) - 1
         /\ (from \in {"trip", "lock", "zero"} <=> to \in {"trip", "lock", "zero"})
              => Cardinality(Tripping)' = Cardinality(Tripping)
<1>1. IsFiniteSet(Tripping)
  BY FS_Subset, GuardAssumption DEF Tripping, CallersAt
<1>2. CASE from \notin {"trip", "lock", "zero"} /\ to \in {"trip", "lock", "zero"}
  <2>1. Tripping' = Tripping \cup {c} /\ c \notin Tripping
    BY <1>2 DEF Tripping, CallersAt, Step, TypeOK
  <2> QED
    BY <1>1, <1>2, <2>1, FS_AddElement
<1>3. CASE from = "zero" /\ to = "idle"
  <2>1. Tripping' = Tripping \ {c} /\ c \in Tripping
    BY <1>3 DEF Tripping, CallersAt, Step, TypeOK
  <2> QED
    BY <1>1, <1>3, <2>1, FS_RemoveElement
<1>4. CASE from \in {"trip", "lock", "zero"} <=> to \in {"trip", "lock", "zero"}
  <2>1. Tripping' = Tripping
    BY <1>4 DEF Tripping, CallersAt, Step, TypeOK
  <2> QED
    BY <1>4, <2>1
<1> QED
  BY <1>2, <1>3, <1>4

(* They can be counted. *)
LEMMA TrippingCounted ==
  ASSUME TypeOK
  PROVE  Cardinality(Tripping) \in Nat
BY FS_Subset, FS_CardinalityType, GuardAssumption DEF Tripping, CallersAt

(* A tripping failure adds one to the count and to the bound, a store of 0 *)
(* resets the count and may lower the bound by one, and every other        *)
(* failure leaves the count below max_attempts.                            *)
LEMMA CounterNext ==
  ASSUME TypeOK, CounterBound, [Next]_vars
  PROVE  CounterBound'
<1> SUFFICES failed_attempts' <= (MaxAttempts - 1) + Cardinality(Tripping)'
  BY DEF CounterBound
<1>0. /\ Cardinality(Tripping) \in Nat /\ failed_attempts \in Nat
      /\ MaxAttempts \in Nat /\ MaxAttempts >= 1
      /\ failed_attempts <= (MaxAttempts - 1) + Cardinality(Tripping)
  BY TrippingCounted, GuardAssumption DEF TypeOK, CounterBound
<1>p. Cardinality(Tripping)' \in Nat
  BY FS_Subset, FS_CardinalityType, GuardAssumption DEF Tripping, CallersAt
<1>1. CASE UNCHANGED vars
  <2>1. /\ Cardinality(Tripping)' = Cardinality(Tripping)
        /\ failed_attempts' = failed_attempts
    BY <1>1 DEF vars, guardVars, Tripping, CallersAt
  <2> QED
    BY <1>0, <2>1
<1>2. ASSUME NEW c \in Callers, CheckLockout(c)
      PROVE  failed_attempts' <= (MaxAttempts - 1) + Cardinality(Tripping)'
  <2>1. \E to \in {"compare", "idle"} : Step(c, "idle", to)
    BY <1>2 DEF CheckLockout
  <2>2. Cardinality(Tripping)' = Cardinality(Tripping)
    BY <2>1, TrippingMoves
  <2> QED
    BY <1>0, <1>2, <2>2 DEF CheckLockout, guardVars
<1>3. ASSUME NEW c \in Callers, CompareRight(c)
      PROVE  failed_attempts' <= (MaxAttempts - 1) + Cardinality(Tripping)'
  <2>1. Cardinality(Tripping)' = Cardinality(Tripping)
    BY <1>3, TrippingMoves DEF CompareRight
  <2> QED
    BY <1>0, <1>3, <2>1 DEF CompareRight, guardVars
<1>4. ASSUME NEW c \in Callers, CompareWrong(c)
      PROVE  failed_attempts' <= (MaxAttempts - 1) + Cardinality(Tripping)'
  <2>1. failed_attempts' = failed_attempts + 1
    BY <1>4 DEF CompareWrong
  <2>2. CASE failed_attempts + 1 >= MaxAttempts
    <3>1. Step(c, "compare", "trip")
      BY <1>4, <2>2 DEF CompareWrong
    <3>2. Cardinality(Tripping)' = Cardinality(Tripping) + 1
      BY <3>1, TrippingMoves
    <3> QED
      BY <1>0, <2>1, <3>2
  <2>3. CASE ~(failed_attempts + 1 >= MaxAttempts)
    BY <1>0, <1>p, <2>1, <2>3
  <2> QED
    BY <2>2, <2>3
<1>5. ASSUME NEW c \in Callers, ResetAttempts(c) \/ ZeroAttempts(c)
      PROVE  failed_attempts' <= (MaxAttempts - 1) + Cardinality(Tripping)'
  <2>1. failed_attempts' = 0
    BY <1>5 DEF ResetAttempts, ZeroAttempts, StoreZero
  <2> QED
    BY <1>0, <1>p, <2>1
<1>6. ASSUME NEW c \in Callers, PushToken(c) \/ ComputeUntil(c) \/ WriteLockout(c)
      PROVE  failed_attempts' <= (MaxAttempts - 1) + Cardinality(Tripping)'
  <2>1. Cardinality(Tripping)' = Cardinality(Tripping)
    BY <1>6, TrippingMoves DEF PushToken, ComputeUntil, WriteLockout
  <2>2. failed_attempts' = failed_attempts
    BY <1>6 DEF PushToken, ComputeUntil, WriteLockout, guardVars
  <2> QED
    BY <1>0, <2>1, <2>2
<1>7. CASE Tick
  <2>1. /\ Cardinality(Tripping)' = Cardinality(Tripping)
        /\ failed_attempts' = failed_attempts
    BY <1>7 DEF Tick, Tripping, CallersAt
  <2> QED
    BY <1>0, <2>1
<1> QED
  BY <1>1, <1>2, <1>3, <1>4, <1>5, <1>6, <1>7 DEF Next

(* The failure count exceeds max_attempts - 1 by at most one per tripping  *)
(* caller, so it is below max_attempts whenever no call is in progress and *)
(* the u32 cannot wrap, for every number of threads.                       *)
THEOREM CounterNeverDrifts == Spec => []CounterBound
<1>1. Init => TypeOK /\ CounterBound
  <2> SUFFICES ASSUME Init PROVE TypeOK /\ CounterBound
    OBVIOUS
  <2>1. TypeOK
    BY GuardAssumption DEF Init, TypeOK, Steps
  <2> QED
    BY <2>1, TrippingCounted, GuardAssumption DEF Init, CounterBound
<1>2. TypeOK /\ CounterBound /\ [Next]_vars => TypeOK' /\ CounterBound'
  BY TypeNext, CounterNext
<1> QED
  BY <1>1, <1>2, PTL DEF Spec

----------------------------------------------------------------------------

(* What the guess budget rests on: failures counted since the last store   *)
(* of 0 are in failed_attempts, and it takes one that did not trip to get  *)
(* from a count below max_attempts - 1 to a higher one below max_attempts. *)
Budget ==
  LET quiet == IF failed_attempts < MaxAttempts THEN failed_attempts
               ELSE MaxAttempts - 1
  IN wrong <= (MaxAttempts - 1) * resets + trips + quiet

(* Every step keeps to the budget. *)
LEMMA BudgetNext ==
  ASSUME TypeOK, Budget, [Next]_vars
  PROVE  Budget'
<1> USE GuardAssumption DEF TypeOK, Budget, guardVars, historyVars
<1>1. CASE UNCHANGED vars
  BY <1>1 DEF vars
<1>2. ASSUME NEW c \in Callers, CompareWrong(c) PROVE Budget'
  BY <1>2 DEF CompareWrong
<1>3. ASSUME NEW c \in Callers, ResetAttempts(c) \/ ZeroAttempts(c) PROVE Budget'
  <2>1. /\ failed_attempts' = 0 /\ resets' = resets + 1
        /\ wrong' = wrong /\ trips' = trips
    BY <1>3 DEF ResetAttempts, ZeroAttempts, StoreZero
  <2>2. (MaxAttempts - 1) * (resets + 1) =
          (MaxAttempts - 1) * resets + (MaxAttempts - 1)
    OBVIOUS
  <2>3. (MaxAttempts - 1) * resets \in Nat
    OBVIOUS
  <2> QED
    BY <2>1, <2>2, <2>3
<1>4. ASSUME NEW c \in Callers,
             \/ CheckLockout(c) \/ CompareRight(c) \/ PushToken(c)
             \/ ComputeUntil(c) \/ WriteLockout(c)
      PROVE  Budget'
  BY <1>4 DEF CheckLockout, CompareRight, PushToken, ComputeUntil, WriteLockout
<1>5. CASE Tick
  BY <1>5 DEF Tick
<1> QED
  BY <1>1, <1>2, <1>3, <1>4, <1>5 DEF Next

(* However the calls interleave, of the wrong codes compared between two   *)
(* stores of 0 all but max_attempts - 1 trip the lockout.                  *)
THEOREM NoFreeGuesses == Spec => []GuessBudget
<1>1. Init => TypeOK /\ Budget
  BY GuardAssumption DEF Init, TypeOK, Steps, Budget
<1>2. TypeOK /\ Budget /\ [Next]_vars => TypeOK' /\ Budget'
  BY TypeNext, BudgetNext
<1>3. TypeOK /\ Budget => GuessBudget
  <2> SUFFICES ASSUME TypeOK, Budget PROVE GuessBudget
    OBVIOUS
  <2>1. (MaxAttempts - 1) * (resets + 1) =
          (MaxAttempts - 1) * resets + (MaxAttempts - 1)
    BY GuardAssumption DEF TypeOK
  <2>2. (MaxAttempts - 1) * resets \in Nat
    BY GuardAssumption DEF TypeOK
  <2> QED
    BY <2>1, <2>2, GuardAssumption DEF GuessBudget, Budget, TypeOK
<1> QED
  BY <1>1, <1>2, <1>3, PTL DEF Spec

(* Callers that have passed the lockout check and not yet compared. *)
Comparing == CallersAt({"compare"})

LateInv == Locked => late + Cardinality(Comparing) < Cardinality(Callers)

(* There are finitely many of them. *)
LEMMA ComparingCounted ==
  IsFiniteSet(Callers) /\ IsFiniteSet(Comparing) /\ Cardinality(Comparing) \in Nat
<1>1. Comparing \subseteq Callers
  BY DEF Comparing, CallersAt
<1> QED
  BY <1>1, FS_Subset, FS_CardinalityType, GuardAssumption

(* A step of one caller moves that caller alone. *)
LEMMA ComparingMoves ==
  ASSUME TypeOK, NEW c \in Callers, NEW from, NEW to, Step(c, from, to)
  PROVE  /\ from = "compare" /\ to # "compare" =>
              Cardinality(Comparing)' = Cardinality(Comparing) - 1
         /\ from # "compare" /\ to # "compare" =>
              /\ Cardinality(Comparing)' = Cardinality(Comparing)
              /\ Cardinality(Comparing) < Cardinality(Callers)
<1>1. /\ \A d \in Callers \ {c} : pc'[d] = pc[d]
      /\ pc[c] = from /\ pc'[c] = to
  BY DEF Step, TypeOK
<1>2. CASE from = "compare" /\ to # "compare"
  <2>1. Comparing' = Comparing \ {c} /\ c \in Comparing
    BY <1>1, <1>2 DEF Comparing, CallersAt
  <2> QED
    BY <1>2, <2>1, ComparingCounted, FS_RemoveElement
<1>3. CASE from # "compare" /\ to # "compare"
  <2>1. Comparing' = Comparing /\ c \notin Comparing /\ Comparing \subseteq Callers
    BY <1>1, <1>3 DEF Comparing, CallersAt
  <2>2. Cardinality(Comparing) < Cardinality(Callers)
    <3>1. /\ Comparing \subseteq Callers \ {c}
          /\ IsFiniteSet(Callers \ {c})
          /\ Cardinality(Callers \ {c}) = Cardinality(Callers) - 1
      BY <2>1, ComparingCounted, FS_RemoveElement, FS_Subset
    <3>2. Cardinality(Comparing) <= Cardinality(Callers \ {c})
      BY <3>1, FS_Subset
    <3> QED
      BY <3>1, <3>2, ComparingCounted, FS_CardinalityType
  <2> QED
    BY <1>3, <2>1, <2>2
<1> QED
  BY <1>2, <1>3

(* A caller gets past the check only while no lockout is in force, and the *)
(* one that sets a lockout is not comparing.                               *)
LEMMA LateNext ==
  ASSUME TypeOK, LateInv, [Next]_vars
  PROVE  LateInv'
<1> USE DEF guardVars, historyVars
<1>1. /\ late \in Nat /\ clock \in Nat /\ lockout_until \in Nat
      /\ Cardinality(Comparing) \in Nat /\ Cardinality(Callers) \in Nat
      /\ stamp \in [Callers -> Nat]
  BY ComparingCounted, FS_CardinalityType, GuardAssumption DEF TypeOK
<1>2. /\ Locked <=> clock < lockout_until
      /\ Locked' <=> clock' < lockout_until'
  BY DEF Locked, LockedAt
<1>3. ASSUME UNCHANGED <<clock, lockout_until>>, late' = late,
             Cardinality(Comparing)' = Cardinality(Comparing)
      PROVE  LateInv'
  BY <1>2, <1>3 DEF LateInv
<1>4. ASSUME NEW c \in Callers, CheckLockout(c)
      PROVE  LateInv'
  <2>1. CASE Locked
    <3>1. Step(c, "idle", "idle") /\ UNCHANGED <<clock, lockout_until, late>>
      BY <1>4, <2>1 DEF CheckLockout
    <3> QED
      BY <1>3, <3>1, ComparingMoves
  <2>2. CASE ~Locked
    BY <1>2, <1>4, <2>2 DEF CheckLockout, LateInv
  <2> QED
    BY <2>1, <2>2
<1>5. ASSUME NEW c \in Callers, CompareRight(c) \/ CompareWrong(c)
      PROVE  LateInv'
  <2>1. /\ \E to \in {"reset", "trip", "idle"} : Step(c, "compare", to)
        /\ CountLate /\ UNCHANGED <<clock, lockout_until>>
    BY <1>5 DEF CompareRight, CompareWrong
  <2>2. Cardinality(Comparing)' = Cardinality(Comparing) - 1
    BY <2>1, ComparingMoves
  <2> QED
    BY <1>1, <1>2, <2>1, <2>2 DEF LateInv, CountLate
<1>6. ASSUME NEW c \in Callers,
             ResetAttempts(c) \/ PushToken(c) \/ ComputeUntil(c) \/ ZeroAttempts(c)
      PROVE  LateInv'
  <2>1. /\ \E from \in {"reset", "push", "trip", "zero"},
             to \in {"push", "idle", "lock"} :
             Step(c, from, to)
        /\ UNCHANGED <<clock, lockout_until, late>>
    BY <1>6 DEF ResetAttempts, PushToken, ComputeUntil, ZeroAttempts
  <2> QED
    BY <1>3, <2>1, ComparingMoves
<1>7. ASSUME NEW c \in Callers, WriteLockout(c)
      PROVE  LateInv'
  <2>1. /\ Step(c, "lock", "zero") /\ clock' = clock /\ lockout_until' = stamp[c]
        /\ late' = IF clock < lockout_until /\ clock < stamp[c] THEN late ELSE 0
    BY <1>7 DEF WriteLockout, LockedAt
  <2>2. /\ Cardinality(Comparing)' = Cardinality(Comparing)
        /\ Cardinality(Comparing) < Cardinality(Callers)
    BY <2>1, ComparingMoves
  <2> QED
    BY <1>1, <1>2, <2>1, <2>2 DEF LateInv
<1>8. CASE Tick
  <2>1. /\ clock' = clock + 1 /\ UNCHANGED <<lockout_until, pc>>
        /\ late' = IF clock + 1 < lockout_until THEN late ELSE 0
    BY <1>8 DEF Tick, LockedAt
  <2>2. Comparing' = Comparing
    BY <2>1 DEF Comparing, CallersAt
  <2> QED
    BY <1>1, <1>2, <2>1, <2>2 DEF LateInv
<1>9. CASE UNCHANGED vars
  BY <1>3, <1>9 DEF vars, Comparing, CallersAt
<1> QED
  BY <1>4, <1>5, <1>6, <1>7, <1>8, <1>9 DEF Next

(* Of all the threads that may be inside try_pair, at least one finds the  *)
(* lockout: the guesses that slip through a lockout are those that had     *)
(* passed the check before it was set, and the one that set it was not     *)
(* among them (pairing.rs).                                                *)
THEOREM FewLateGuesses == Spec => []LateGuesses
<1>1. Init => TypeOK /\ LateInv
  <2> SUFFICES ASSUME Init
               PROVE  TypeOK /\ LateInv
    OBVIOUS
  <2>1. TypeOK
    BY GuardAssumption DEF Init, TypeOK, Steps
  <2>2. ~Locked
    BY DEF Init, Locked, LockedAt
  <2> QED
    BY <2>1, <2>2 DEF LateInv
<1>2. TypeOK /\ LateInv /\ [Next]_vars => TypeOK' /\ LateInv'
  BY TypeNext, LateNext
<1>3. LateInv => LateGuesses
  BY DEF LateInv, LateGuesses, Comparing
<1> QED
  BY <1>1, <1>2, <1>3, PTL DEF Spec

----------------------------------------------------------------------------
(* The parts side by side *)

(* A behaviour of the parts is one of each part. *)
LEMMA RequestsRun ==
  RequestsSpec => /\ Spec /\ Ingress!Spec /\ Supervised!Spec /\ Turns!Spec
                  /\ Tool!Spec
<1> DEFINE Pairs == [Next]_vars
           Comes == [Ingress!Next]_(Ingress!vars)
           Acts == [Supervised!Next]_(Supervised!vars)
           Talks == [Turns!Next]_(Turns!vars)
           Calling == [Tool!Next]_(Tool!vars)
<1>1. RequestsInit => /\ Init /\ Ingress!Init /\ Supervised!Init /\ Turns!Init
                      /\ Tool!Init
  BY DEF RequestsInit
<1>2. [RequestsNext]_requestsVars => Pairs /\ Comes /\ Acts /\ Talks /\ Calling
  <2>1. UNCHANGED ingressVars => Comes
    BY DEF ingressVars, Ingress!vars
  <2>2. UNCHANGED actionVars => Acts
    BY DEF actionVars, Supervised!vars
  <2>3. UNCHANGED turnVars => Talks
    BY DEF turnVars, Turns!vars
  <2>4. UNCHANGED toolVars => Calling
    BY DEF toolVars, Tool!vars
  <2> HIDE DEF Pairs, Comes, Acts, Talks, Calling
  <2>5. OnlyPairing => Comes /\ Acts /\ Talks /\ Calling
    BY <2>1, <2>2, <2>3, <2>4 DEF OnlyPairing
  <2>6. OnlyIngress => Pairs /\ Acts /\ Talks /\ Calling
    BY <2>2, <2>3, <2>4 DEF OnlyIngress, Pairs
  <2>7. OnlyActions => Pairs /\ Comes /\ Talks /\ Calling
    BY <2>1, <2>3, <2>4 DEF OnlyActions, Pairs
  <2>8. OnlyTurns => Pairs /\ Comes /\ Acts /\ Calling
    BY <2>1, <2>2, <2>4 DEF OnlyTurns, Pairs
  <2>9. OnlyTools => Pairs /\ Comes /\ Acts /\ Talks
    BY <2>1, <2>2, <2>3 DEF OnlyTools, Pairs
  <2>10. UNCHANGED requestsVars => Pairs /\ Comes /\ Acts /\ Talks /\ Calling
    BY <2>1, <2>2, <2>3, <2>4 DEF requestsVars, Pairs
  <2>11. RequestsNext =>
           \/ OnlyPairing /\ Next
           \/ OnlyIngress /\ Ingress!Next
           \/ OnlyActions /\ Supervised!Next
           \/ OnlyTurns /\ Turns!Next
           \/ OnlyTools /\ Tool!Next
    <3> HAVE RequestsNext
    <3>1. CASE \/ \E c \in Callers :
                    \/ PairingCheckLockout(c) \/ PairingCompareRight(c)
                    \/ PairingCompareWrong(c) \/ PairingResetAttempts(c)
                    \/ PairingPushToken(c) \/ PairingComputeUntil(c)
                    \/ PairingWriteLockout(c) \/ PairingZeroAttempts(c)
               \/ PairingTick
      BY <3>1 DEF PairingCheckLockout, PairingCompareRight, PairingCompareWrong,
         PairingResetAttempts, PairingPushToken, PairingComputeUntil,
         PairingWriteLockout, PairingZeroAttempts, PairingTick, Next
    <3>2. CASE \/ IngressDeliver \/ IngressScreen \/ IngressAuthenticate
               \/ IngressRoute \/ IngressEndSession \/ IngressAuthorize
               \/ IngressSendText \/ IngressCreateResponse \/ IngressReply
               \/ IngressTimeOut
      BY <3>2 DEF IngressDeliver, IngressScreen, IngressAuthenticate, IngressRoute,
         IngressEndSession, IngressAuthorize, IngressSendText,
         IngressCreateResponse, IngressReply, IngressTimeOut, Ingress!Next
    <3>3. CASE \E r \in Supervised!Requests :
                 \/ ActionLook(r) \/ ActionReplace(r) \/ ActionCheck(r)
                 \/ ActionCreate(r) \/ ActionInsertRoute(r) \/ ActionUse(r)
      BY <3>3 DEF ActionLook, ActionReplace, ActionCheck, ActionCreate,
         ActionInsertRoute, ActionUse, Supervised!Next
    <3>4. CASE \E c \in Conns :
                 TurnStep(c) \/ \E cmd \in Turns!Commands : TurnBegin(c, cmd)
      BY <3>4 DEF TurnStep, TurnBegin, Turns!Next
    <3>5. CASE \/ \E i \in Ids : ToolCreate(i) \/ ToolEnd(i) \/ ToolAbort(i)
      BY <3>5 DEF ToolCreate, ToolEnd, ToolAbort, Tool!Next
    <3>6. CASE \E c \in Calls :
                 \/ \E i \in Ids, name \in Tools \cup {OtherName} :
                      ToolLookup(c, i, name) \/ ToolDispatch(c, i, name)
                 \/ ToolResolve(c) \/ ToolFind(c) \/ ToolCheck(c) \/ ToolRun(c)
                 \/ \E result \in {"ok", "error"} : ToolReturn(c, result)
                 \/ ToolAnswer(c) \/ ToolCount(c) \/ ToolCountFailure(c)
                 \/ ToolGraphFails(c)
      BY <3>6 DEF ToolLookup, ToolDispatch, ToolResolve, ToolFind, ToolCheck,
         ToolRun, ToolReturn, ToolAnswer, ToolCount, ToolCountFailure,
         ToolGraphFails, Tool!Step, Tool!Next
    <3> QED
      BY <3>1, <3>2, <3>3, <3>4, <3>5, <3>6 DEF RequestsNext
  <2> QED
    BY <2>5, <2>6, <2>7, <2>8, <2>9, <2>10, <2>11
       DEF Pairs, Comes, Acts, Talks, Calling
<1> QED
  BY <1>1, <1>2, PTL DEF RequestsSpec, Spec, Ingress!Spec, Supervised!Spec,
     Turns!Spec, Tool!Spec

----------------------------------------------------------------------------
(* SupervisedAction *)

----------------------------------------------------------------------------
(* SupervisedAction *)

(* The session a forced action works on, once it has created it. *)
Owning(a) == request[a].pc \in {"map", "use"}

OwnSessions ==
  /\ roles \in Seq({"supervised", DefaultRole})
  /\ DOMAIN request = Supervised!Requests /\ DOMAIN ran = Actions
  /\ \A a \in Forced :
       /\ request[a].pc # "check" /\ ran[a] \in {"none", "supervised"}
       /\ Owning(a) => /\ request[a].session \in 1 .. Len(roles)
                       /\ roles[request[a].session] = "supervised"
       /\ \A b \in Forced \ {a} :
            Owning(a) /\ Owning(b) => request[a].session # request[b].session

(* A forced action works on a session it has created itself. *)
LEMMA OwnSessionsNext ==
  ASSUME OwnSessions, [Supervised!Next]_(Supervised!vars)
  PROVE  OwnSessions'
<1> USE DEF Supervised!At, Supervised!Moves
<1>1. Forced \subseteq Actions /\ Actions \subseteq Supervised!Requests
  BY RequestsAssumption DEF Supervised!SupervisedActionAssumption,
     Supervised!Requests
<1>2. ASSUME NEW r \in Supervised!Requests, NEW p, NEW s,
             request' = [request EXCEPT ![r] = [pc |-> p, session |-> s]]
      PROVE  /\ DOMAIN request' = Supervised!Requests
             /\ request'[r].pc = p /\ request'[r].session = s
             /\ \A a \in Supervised!Requests \ {r} : request'[a] = request[a]
  BY <1>2 DEF OwnSessions
<1>3. ASSUME NEW r \in Supervised!Requests, NEW p, NEW s,
             request' = [request EXCEPT ![r] = [pc |-> p, session |-> s]],
             p \notin {"map", "use"}, r \in Forced => p # "check",
             UNCHANGED <<roles, ran>>
      PROVE  OwnSessions'
  BY <1>1, <1>2, <1>3 DEF OwnSessions, Owning
<1>4. ASSUME NEW r \in Supervised!Requests, Supervised!Look(r)
      PROVE  OwnSessions'
  BY <1>3, <1>4 DEF Supervised!Look
<1>5. ASSUME NEW r \in Supervised!Requests, Supervised!Replace(r)
      PROVE  OwnSessions'
  BY <1>3, <1>5 DEF Supervised!Replace
<1>6. ASSUME NEW r \in Supervised!Requests, Supervised!Check(r)
      PROVE  OwnSessions'
  <2>1. r \notin Forced
    BY <1>6 DEF Supervised!Check, OwnSessions
  <2>2. PICK p \in {"use", "create"}, s \in {request[r].session, 0} :
          /\ request' = [request EXCEPT ![r] = [pc |-> p, session |-> s]]
          /\ UNCHANGED <<roles, ran>>
    BY <1>6 DEF Supervised!Check
  <2> QED
    BY <1>1, <1>2, <2>1, <2>2 DEF OwnSessions, Owning
<1>7. ASSUME NEW r \in Supervised!Requests, Supervised!Create(r)
      PROVE  OwnSessions'
  <2>1. PICK role \in {"supervised", DefaultRole} :
          /\ r \in Actions => role = "supervised"
          /\ roles' = Append(roles, role) /\ ran' = ran
    BY <1>7 DEF Supervised!Create
  <2>2. request' =
          [request EXCEPT ![r] = [pc |-> "map", session |-> Len(roles) + 1]]
    BY <1>7 DEF Supervised!Create, Supervised!Newest
  <2>3. /\ roles' \in Seq({"supervised", DefaultRole}) /\ Len(roles) \in Nat
        /\ Len(roles') = Len(roles) + 1 /\ roles'[Len(roles) + 1] = role
        /\ \A i \in 1 .. Len(roles) : roles'[i] = roles[i]
    BY <2>1 DEF OwnSessions
  <2>4. ASSUME NEW a \in Forced
        PROVE  /\ request'[a].pc # "check"
               /\ Owning(a)' => /\ request'[a].session \in 1 .. Len(roles')
                                /\ roles'[request'[a].session] = "supervised"
    <3>1. CASE a = r
      <4>1. role = "supervised"
        BY <1>1, <2>1, <3>1
      <4>2. request'[a].pc = "map" /\ request'[a].session = Len(roles) + 1
        BY <1>2, <2>2, <3>1
      <4>3. roles'[request'[a].session] = "supervised"
        BY <2>3, <4>1, <4>2
      <4> QED
        BY <2>3, <4>2, <4>3
    <3>2. CASE a # r
      BY <1>1, <1>2, <2>2, <2>3, <3>2 DEF OwnSessions, Owning
    <3> QED
      BY <3>1, <3>2
  <2>5. ASSUME NEW a \in Forced, NEW b \in Forced \ {a}, Owning(a)', Owning(b)'
        PROVE  request'[a].session # request'[b].session
    <3>1. \A f \in Forced : f # r /\ Owning(f)' =>
            /\ Owning(f) /\ request'[f].session = request[f].session
            /\ request[f].session \in 1 .. Len(roles)
      BY <1>1, <1>2, <2>2 DEF OwnSessions, Owning
    <3>2. request'[r].session = Len(roles) + 1
      BY <1>2, <2>2
    <3> QED
      BY <2>3, <2>5, <3>1, <3>2 DEF OwnSessions
  <2> QED
    BY <1>2, <2>1, <2>2, <2>3, <2>4, <2>5 DEF OwnSessions
<1>8. ASSUME NEW r \in Supervised!Requests, Supervised!InsertRoute(r)
      PROVE  OwnSessions'
  <2>1. /\ request[r].pc = "map" /\ UNCHANGED <<roles, ran>>
        /\ request' =
             [request EXCEPT ![r] = [pc |-> "use", session |-> request[r].session]]
    BY <1>8 DEF Supervised!InsertRoute
  <2>2. \A a \in Forced : /\ Owning(a)' <=> Owning(a)
                          /\ request'[a].session = request[a].session
                          /\ request'[a].pc # "check"
    BY <1>1, <1>2, <2>1 DEF OwnSessions, Owning
  <2> QED
    BY <1>2, <2>1, <2>2 DEF OwnSessions
<1>9. ASSUME NEW r \in Supervised!Requests, Supervised!Use(r)
      PROVE  OwnSessions'
  <2>1. /\ request[r].pc = "use" /\ UNCHANGED roles
        /\ request' =
             [request EXCEPT ![r] = [pc |-> "done", session |-> request[r].session]]
    BY <1>9 DEF Supervised!Use
  <2>2. /\ DOMAIN ran' = Actions
        /\ \A a \in Forced : ran'[a] \in {"none", "supervised"}
    <3>1. \/ ran' = ran
          \/ r \in Actions /\ ran' = [ran EXCEPT ![r] = roles[request[r].session]]
      BY <1>9 DEF Supervised!Use
    <3>2. r \in Forced => roles[request[r].session] = "supervised"
      BY <2>1 DEF OwnSessions, Owning
    <3> QED
      BY <1>1, <3>1, <3>2 DEF OwnSessions
  <2>3. \A a \in Forced : \/ a # r /\ request'[a] = request[a]
                          \/ a = r /\ ~Owning(a)' /\ request'[a].pc # "check"
    BY <1>1, <1>2, <2>1 DEF Owning
  <2> QED
    BY <1>2, <2>1, <2>2, <2>3 DEF OwnSessions, Owning
<1>10. CASE UNCHANGED Supervised!vars
  BY <1>10 DEF Supervised!vars, OwnSessions, Owning
<1> QED
  BY <1>4, <1>5, <1>6, <1>7, <1>8, <1>9, <1>10 DEF Supervised!Next

(* Whatever other requests of the route do meanwhile, an action that asks  *)
(* for a replacement runs its tool with the role "supervised", in a        *)
(* session no other such action has (server.rs,                            *)
(* channel_webhook_supervised_action_handler).                             *)
THEOREM ReplacedIsSupervised == RequestsSpec => []ForcedIsSupervised
<1>1. Supervised!Init => OwnSessions
  <2>1. <<>> \in Seq({"supervised", DefaultRole})
    OBVIOUS
  <2> QED
    BY <2>1, RequestsAssumption
       DEF Supervised!Init, OwnSessions, Owning, Supervised!Requests,
           Supervised!SupervisedActionAssumption
<1>2. OwnSessions /\ [Supervised!Next]_(Supervised!vars) => OwnSessions'
  BY OwnSessionsNext
<1>3. OwnSessions => ForcedIsSupervised
  BY DEF OwnSessions, Owning, ForcedIsSupervised, Supervised!ForcedIsSupervised,
         Supervised!At
<1> QED
  BY <1>1, <1>2, <1>3, RequestsRun, PTL DEF Supervised!Spec

----------------------------------------------------------------------------
(* ChannelIngress *)


(* A list of checks has at most five; the first that applies decides. *)
LEMMA LeastOfFive ==
  ASSUME NEW S, S \subseteq 1 .. 5, S # {}
  PROVE  /\ Ingress!Min(S) \in S
         /\ \A j \in S : Ingress!Min(S) <= j
<1>1. \E x \in S : \A y \in S : x <= y
  <2>1. CASE 1 \in S
    BY <2>1
  <2>2. CASE 1 \notin S /\ 2 \in S
    BY <2>2
  <2>3. CASE 1 \notin S /\ 2 \notin S /\ 3 \in S
    BY <2>3
  <2>4. CASE 1 \notin S /\ 2 \notin S /\ 3 \notin S /\ 4 \in S
    BY <2>4
  <2>5. CASE 1 \notin S /\ 2 \notin S /\ 3 \notin S /\ 4 \notin S
    <3>1. \A y \in S : y \in 1 .. 5 /\ y # 1 /\ y # 2 /\ y # 3 /\ y # 4
      BY <2>5
    <3>2. \A y \in S : y = 5
      BY <3>1
    <3>3. 5 \in S
      BY <3>2
    <3> QED
      BY <3>2, <3>3
  <2> QED
    BY <2>1, <2>2, <2>3, <2>4, <2>5
<1> QED
  BY <1>1 DEF Ingress!Min

(* The verdict is that of a check that applies, or none applies. *)
LEMMA FirstApplies ==
  ASSUME NEW checks, DOMAIN checks \subseteq 1 .. 5
  PROVE  \/ /\ Ingress!FirstOf(checks) = "pass"
            /\ \A i \in DOMAIN checks : ~checks[i].applies
         \/ \E i \in DOMAIN checks :
              checks[i].applies /\ Ingress!FirstOf(checks) = checks[i].verdict
<1> DEFINE hits == {i \in DOMAIN checks : checks[i].applies}
<1>1. CASE hits = {}
  BY <1>1 DEF Ingress!FirstOf
<1>2. CASE hits # {}
  <2>1. Ingress!Min(hits) \in hits
    <3>1. hits \subseteq 1 .. 5
      OBVIOUS
    <3> HIDE DEF hits
    <3> QED
      BY <1>2, <3>1, LeastOfFive
  <2>2. Ingress!FirstOf(checks) = checks[Ingress!Min(hits)].verdict
    BY <1>2 DEF Ingress!FirstOf
  <2> QED
    BY <2>1, <2>2
<1> QED
  BY <1>1, <1>2

Refusals == {"ignored", "challenge", "malformed", "auth_required", "invalid_token",
             "invalid_channel", "invalid_channel_route", "invalid_channel_message"}

(* A message of a user with the token of a principal. *)
Passes ==
  /\ Ingress!Screened(event) = "pass" /\ Ingress!Authenticated(event) = "pass"
  /\ Ingress!Normalized(event) = "pass"

(* A list of checks that refuse lets pass what none of them applies to. *)
LEMMA PassesChecks ==
  ASSUME NEW checks, DOMAIN checks \subseteq 1 .. 5,
         \A i \in DOMAIN checks : checks[i].verdict \in Refusals
  PROVE  /\ Ingress!FirstOf(checks) \in Refusals \cup {"pass"}
         /\ Ingress!FirstOf(checks) = "pass" =>
              \A i \in DOMAIN checks : ~checks[i].applies
<1>1. "pass" \notin Refusals
  BY DEF Refusals
<1> QED
  BY <1>1, FirstApplies

(* The check of a token. *)
LEMMA TokenChecked ==
  ASSUME event \in Ingress!Events
  PROVE  /\ Ingress!Authenticated(event) \in Refusals \cup {"pass"}
         /\ Ingress!Authenticated(event) = "pass" =>
              event.token = "good"
<1> DEFINE checks ==
         <<Ingress!When(event.token = "none", "auth_required"),
           Ingress!When(event.token = "wrong", "invalid_token")>>
<1>1. DOMAIN checks = 1 .. 2 /\ DOMAIN checks \subseteq 1 .. 5
  OBVIOUS
<1>2. \A i \in DOMAIN checks : checks[i].verdict \in Refusals
  BY DEF Ingress!When, Refusals
<1>3. ASSUME \A i \in DOMAIN checks : ~checks[i].applies
      PROVE  event.token = "good"
  <2>1. ~checks[1].applies /\ ~checks[2].applies
    BY <1>1, <1>3
  <2> QED
    BY <2>1 DEF Ingress!When, Ingress!Events, Ingress!Given
<1>4. Ingress!Authenticated(event) = Ingress!FirstOf(checks)
  BY DEF Ingress!Authenticated
<1> HIDE DEF checks
<1> QED
  BY <1>1, <1>2, <1>3, <1>4, PassesChecks

(* The checks of a message. *)
LEMMA MessageChecked ==
  ASSUME event \in Ingress!Events
  PROVE  /\ Ingress!Normalized(event) \in Refusals \cup {"pass"}
         /\ Ingress!Normalized(event) = "pass" =>
              event.text # "blank"
<1> DEFINE checks ==
         <<Ingress!When(event.platform = "webhook" /\ event.type = "other",
                        "invalid_channel"),
           Ingress!When(event.account = "blank", "invalid_channel_route"),
           Ingress!When(event.text = "blank", "invalid_channel_message")>>
<1>1. DOMAIN checks = 1 .. 3 /\ DOMAIN checks \subseteq 1 .. 5
  OBVIOUS
<1>2. \A i \in DOMAIN checks : checks[i].verdict \in Refusals
  BY DEF Ingress!When, Refusals
<1>3. ASSUME \A i \in DOMAIN checks : ~checks[i].applies
      PROVE  event.text # "blank"
  <2>1. ~checks[1].applies /\ ~checks[2].applies /\ ~checks[3].applies
    BY <1>1, <1>3
  <2> QED
    BY <2>1 DEF Ingress!When, Ingress!Events, Ingress!Given
<1>4. Ingress!Normalized(event) = Ingress!FirstOf(checks)
  BY DEF Ingress!Normalized
<1> HIDE DEF checks
<1> QED
  BY <1>1, <1>2, <1>3, <1>4, PassesChecks

(* The checks of the adapters: of the generic webhook, *)
LEMMA WebhookChecked ==
  ASSUME event \in Ingress!Events
  PROVE  /\ Ingress!Webhook(event) \in Refusals \cup {"pass"}
         /\ Ingress!Webhook(event) = "pass" =>
              event.text # "none"
<1> DEFINE checks ==
         <<Ingress!When("none" \in {event.account, event.sender, event.text},
                        "malformed")>>
<1>1. DOMAIN checks = 1 .. 1 /\ DOMAIN checks \subseteq 1 .. 5
  OBVIOUS
<1>2. \A i \in DOMAIN checks : checks[i].verdict \in Refusals
  BY DEF Ingress!When, Refusals
<1>3. ASSUME \A i \in DOMAIN checks : ~checks[i].applies
      PROVE  event.text # "none"
  <2>1. ~checks[1].applies
    BY <1>1, <1>3
  <2> QED
    BY <2>1 DEF Ingress!When, Ingress!Events, Ingress!Given
<1>4. Ingress!Webhook(event) = Ingress!FirstOf(checks)
  BY DEF Ingress!Webhook
<1> HIDE DEF checks
<1> QED
  BY <1>1, <1>2, <1>3, <1>4, PassesChecks

(* of Slack, *)
LEMMA SlackChecked ==
  ASSUME event \in Ingress!Events
  PROVE  /\ Ingress!Slack(event) \in Refusals \cup {"pass"}
         /\ Ingress!Slack(event) = "pass" =>
              event.text # "none" /\ event.sender # "bot"
<1> DEFINE checks ==
         <<Ingress!When(event.type = "challenge", "challenge"),
           Ingress!When(event.type = "none", "malformed"),
           Ingress!When(event.type # "message", "ignored"),
           Ingress!When(event.sender = "bot", "ignored"),
           Ingress!When("none" \in {event.account, event.sender, event.text},
                        "malformed")>>
<1>1. DOMAIN checks = 1 .. 5 /\ DOMAIN checks \subseteq 1 .. 5
  OBVIOUS
<1>2. \A i \in DOMAIN checks : checks[i].verdict \in Refusals
  BY DEF Ingress!When, Refusals
<1>3. ASSUME \A i \in DOMAIN checks : ~checks[i].applies
      PROVE  event.text # "none" /\ event.sender # "bot"
  <2>1. /\ ~checks[1].applies /\ ~checks[2].applies /\ ~checks[3].applies
        /\ ~checks[4].applies /\ ~checks[5].applies
    BY <1>1, <1>3
  <2> QED
    BY <2>1 DEF Ingress!When, Ingress!Events, Ingress!Given
<1>4. Ingress!Slack(event) = Ingress!FirstOf(checks)
  BY DEF Ingress!Slack
<1> HIDE DEF checks
<1> QED
  BY <1>1, <1>2, <1>3, <1>4, PassesChecks

(* of Telegram, *)
LEMMA TelegramChecked ==
  ASSUME event \in Ingress!Events
  PROVE  /\ Ingress!Telegram(event) \in Refusals \cup {"pass"}
         /\ Ingress!Telegram(event) = "pass" =>
              event.text # "none"
<1> DEFINE checks ==
         <<Ingress!When(event.type # "message", "ignored"),
           Ingress!When(event.text = "none", "ignored"),
           Ingress!When("none" \in {event.account, event.sender}, "malformed")>>
<1>1. DOMAIN checks = 1 .. 3 /\ DOMAIN checks \subseteq 1 .. 5
  OBVIOUS
<1>2. \A i \in DOMAIN checks : checks[i].verdict \in Refusals
  BY DEF Ingress!When, Refusals
<1>3. ASSUME \A i \in DOMAIN checks : ~checks[i].applies
      PROVE  event.text # "none"
  <2>1. ~checks[1].applies /\ ~checks[2].applies /\ ~checks[3].applies
    BY <1>1, <1>3
  <2> QED
    BY <2>1 DEF Ingress!When, Ingress!Events, Ingress!Given
<1>4. Ingress!Telegram(event) = Ingress!FirstOf(checks)
  BY DEF Ingress!Telegram
<1> HIDE DEF checks
<1> QED
  BY <1>1, <1>2, <1>3, <1>4, PassesChecks

(* of Discord, *)
LEMMA DiscordChecked ==
  ASSUME event \in Ingress!Events
  PROVE  /\ Ingress!Discord(event) \in Refusals \cup {"pass"}
         /\ Ingress!Discord(event) = "pass" =>
              event.text # "none" /\ event.sender # "bot"
<1> DEFINE checks ==
         <<Ingress!When(event.type \notin {"none", "message"}, "ignored"),
           Ingress!When(event.sender = "none", "malformed"),
           Ingress!When(event.sender = "bot", "ignored"),
           Ingress!When(event.text # "text", "ignored"),
           Ingress!When(event.account = "none", "malformed")>>
<1>1. DOMAIN checks = 1 .. 5 /\ DOMAIN checks \subseteq 1 .. 5
  OBVIOUS
<1>2. \A i \in DOMAIN checks : checks[i].verdict \in Refusals
  BY DEF Ingress!When, Refusals
<1>3. ASSUME \A i \in DOMAIN checks : ~checks[i].applies
      PROVE  event.text # "none" /\ event.sender # "bot"
  <2>1. /\ ~checks[1].applies /\ ~checks[2].applies /\ ~checks[3].applies
        /\ ~checks[4].applies /\ ~checks[5].applies
    BY <1>1, <1>3
  <2> QED
    BY <2>1 DEF Ingress!When, Ingress!Events, Ingress!Given
<1>4. Ingress!Discord(event) = Ingress!FirstOf(checks)
  BY DEF Ingress!Discord
<1> HIDE DEF checks
<1> QED
  BY <1>1, <1>2, <1>3, <1>4, PassesChecks

(* of Matrix, *)
LEMMA MatrixChecked ==
  ASSUME event \in Ingress!Events
  PROVE  /\ Ingress!Matrix(event) \in Refusals \cup {"pass"}
         /\ Ingress!Matrix(event) = "pass" =>
              event.text # "none"
<1> DEFINE checks ==
         <<Ingress!When(event.type \notin {"none", "message", "media"},
                        "ignored"),
           Ingress!When("none" \in {event.account, event.sender}, "malformed"),
           Ingress!When(event.type = "media", "ignored"),
           Ingress!When(event.text # "text", "ignored")>>
<1>1. DOMAIN checks = 1 .. 4 /\ DOMAIN checks \subseteq 1 .. 5
  OBVIOUS
<1>2. \A i \in DOMAIN checks : checks[i].verdict \in Refusals
  BY DEF Ingress!When, Refusals
<1>3. ASSUME \A i \in DOMAIN checks : ~checks[i].applies
      PROVE  event.text # "none"
  <2>1. /\ ~checks[1].applies /\ ~checks[2].applies /\ ~checks[3].applies
        /\ ~checks[4].applies
    BY <1>1, <1>3
  <2> QED
    BY <2>1 DEF Ingress!When, Ingress!Events, Ingress!Given
<1>4. Ingress!Matrix(event) = Ingress!FirstOf(checks)
  BY DEF Ingress!Matrix
<1> HIDE DEF checks
<1> QED
  BY <1>1, <1>2, <1>3, <1>4, PassesChecks

(* and of Teams. *)
LEMMA TeamsChecked ==
  ASSUME event \in Ingress!Events
  PROVE  /\ Ingress!Teams(event) \in Refusals \cup {"pass"}
         /\ Ingress!Teams(event) = "pass" =>
              event.text # "none"
<1> DEFINE checks ==
         <<Ingress!When(event.type \notin {"none", "message"}, "ignored"),
           Ingress!When("none" \in {event.account, event.sender}, "malformed"),
           Ingress!When(event.text # "text", "ignored")>>
<1>1. DOMAIN checks = 1 .. 3 /\ DOMAIN checks \subseteq 1 .. 5
  OBVIOUS
<1>2. \A i \in DOMAIN checks : checks[i].verdict \in Refusals
  BY DEF Ingress!When, Refusals
<1>3. ASSUME \A i \in DOMAIN checks : ~checks[i].applies
      PROVE  event.text # "none"
  <2>1. ~checks[1].applies /\ ~checks[2].applies /\ ~checks[3].applies
    BY <1>1, <1>3
  <2> QED
    BY <2>1 DEF Ingress!When, Ingress!Events, Ingress!Given
<1>4. Ingress!Teams(event) = Ingress!FirstOf(checks)
  BY DEF Ingress!Teams
<1> HIDE DEF checks
<1> QED
  BY <1>1, <1>2, <1>3, <1>4, PassesChecks

(* What every adapter lets pass has a text, and no bot of Slack or Discord *)
(* has sent it.                                                            *)
LEMMA ScreenChecked ==
  ASSUME event \in Ingress!Events
  PROVE  /\ Ingress!Screened(event) \in Refusals \cup {"pass"}
         /\ Ingress!Screened(event) = "pass" =>
              /\ event.text # "none"
              /\ event.platform \in {"slack", "discord"} => event.sender # "bot"
<1>1. event.platform \in
        {"webhook", "slack", "telegram", "discord", "matrix", "teams"}
  BY DEF Ingress!Events, Ingress!Platforms
<1>2. CASE event.platform = "webhook"
  <2>1. Ingress!Screened(event) = Ingress!Webhook(event)
    BY <1>2 DEF Ingress!Screened
  <2> QED
    BY <1>2, <2>1, WebhookChecked
<1>3. CASE event.platform = "slack"
  <2>1. Ingress!Screened(event) = Ingress!Slack(event)
    BY <1>3 DEF Ingress!Screened
  <2> QED
    BY <1>3, <2>1, SlackChecked
<1>4. CASE event.platform = "telegram"
  <2>1. Ingress!Screened(event) = Ingress!Telegram(event)
    BY <1>4 DEF Ingress!Screened
  <2> QED
    BY <1>4, <2>1, TelegramChecked
<1>5. CASE event.platform = "discord"
  <2>1. Ingress!Screened(event) = Ingress!Discord(event)
    BY <1>5 DEF Ingress!Screened
  <2> QED
    BY <1>5, <2>1, DiscordChecked
<1>6. CASE event.platform = "matrix"
  <2>1. Ingress!Screened(event) = Ingress!Matrix(event)
    BY <1>6 DEF Ingress!Screened
  <2> QED
    BY <1>6, <2>1, MatrixChecked
<1>7. CASE event.platform = "teams"
  <2>1. Ingress!Screened(event) = Ingress!Teams(event)
    BY <1>7 DEF Ingress!Screened
  <2> QED
    BY <1>7, <2>1, TeamsChecked
<1> QED
  BY <1>1, <1>2, <1>3, <1>4, <1>5, <1>6, <1>7

(* What passes is a text of a known principal, and not an echo. *)
LEMMA PassesMeans ==
  ASSUME event \in Ingress!Events, Passes
  PROVE  /\ event.token = "good" /\ event.text = "text"
         /\ ~(event.platform \in {"slack", "discord"} /\ event.sender = "bot")
<1>1. event.text \in {"none", "blank", "text"}
  BY DEF Ingress!Events, Ingress!Given
<1> QED
  BY <1>1, ScreenChecked, TokenChecked, MessageChecked DEF Passes

Past(p) == event_pc \in p

(* A delivery that got past the checks is one of a message that passes,    *)
(* and so is one that was refused not.                                     *)
ScreenInv ==
  /\ Past({"authenticate", "route", "authorize", "send", "respond", "answer"}) =>
       Ingress!Screened(event) = "pass"
  /\ Past({"route", "authorize", "send", "respond", "answer"}) => Passes
  /\ told # {} => Passes
  /\ \A t \in 1 .. MaxTries : outcomes[t] \in Refusals => ~Passes

Failures == {"channel_inbound_failed", "channel_response_failed"}

(* What the runner has of each delivery, and what the platform was told of *)
(* it: nothing yet of the one in progress.                                 *)
DeliveryInv ==
  /\ tries \in 0 .. MaxTries /\ DOMAIN outcomes = 1 .. MaxTries
  /\ told \subseteq 1 .. tries /\ asked \subseteq told
  /\ \A t \in told : outcomes[t] \in Failures \cup {"none", "routed"}
  /\ \A t \in 1 .. MaxTries :
       t > tries \/ (t = tries /\ event_pc # "idle") => outcomes[t] = "none"
  /\ event_pc # "idle" => tries > 0
  /\ Past({"screen", "authenticate", "route", "authorize", "send"}) =>
       tries \notin told
  /\ Past({"respond", "answer"}) => tries \in told
  /\ Past({"answer"}) /\ event.create_response => tries \in asked

(* The platform stops at the answer "routed". *)
StopInv ==
  \A t \in 1 .. MaxTries : outcomes[t] = "routed" =>
    /\ t = tries /\ event_pc = "idle" /\ t \in told
    /\ event.create_response => t \in asked

IngressInv ==
  /\ event \in Ingress!Events /\ session \in BOOLEAN
  /\ event_pc \in {"idle", "screen", "authenticate", "route", "authorize", "send",
                   "respond", "answer"}
  /\ ScreenInv /\ DeliveryInv /\ StopInv

(* The deliveries are numbered with naturals. *)
LEMMA Numbered ==
  ASSUME IngressInv
  PROVE  MaxTries \in Nat /\ tries \in Nat /\ tries <= MaxTries
BY RequestsAssumption DEF IngressInv, DeliveryInv, Ingress!IngressAssumption

(* The platform gets one answer more, and keeps those before it. *)
Records(a) ==
  /\ event_pc' = "idle" /\ DOMAIN outcomes' = 1 .. MaxTries
  /\ outcomes'[tries] = a
  /\ \A t \in 1 .. MaxTries : t # tries => outcomes'[t] = outcomes[t]

LEMMA AnswersRecord ==
  ASSUME IngressInv, event_pc # "idle", NEW a, Ingress!Answered(a)
  PROVE  Records(a)
<1>1. tries \in 1 .. MaxTries /\ DOMAIN outcomes = 1 .. MaxTries
  BY Numbered DEF IngressInv, DeliveryInv
<1> QED
  BY <1>1 DEF Ingress!Answered, Records

(* The end of a delivery that is under way: it is answered something that  *)
(* is true of it, or not at all.                                           *)
LEMMA IngressAnswers ==
  ASSUME IngressInv, event_pc # "idle", NEW a, Records(a),
         UNCHANGED <<event, tries>>, session' \in BOOLEAN,
         told' = told \/ (Passes /\ told' = told \cup {tries}),
         asked' = asked \/ (tries \in told /\ asked' = asked \cup {tries}),
         a \in Refusals => ~Passes,
         tries \in told' => a \in Failures \cup {"none", "routed"},
         a = "routed" => /\ tries \in told'
                         /\ event.create_response => tries \in asked'
  PROVE  IngressInv'
<1> USE DEF IngressInv
<1>1. /\ MaxTries \in Nat /\ tries \in 1 .. MaxTries
  BY Numbered DEF DeliveryInv
<1>2. /\ DOMAIN outcomes' = 1 .. MaxTries /\ outcomes'[tries] = a
      /\ \A t \in 1 .. MaxTries : t # tries => outcomes'[t] = outcomes[t]
      /\ event_pc' = "idle"
  BY DEF Records
<1>3. Passes' = Passes
  BY DEF Passes
<1>4. ScreenInv'
  BY <1>1, <1>2, <1>3 DEF ScreenInv, Past
<1>5. told' \subseteq 1 .. tries /\ asked' \subseteq told'
  <2>1. told \subseteq 1 .. tries /\ asked \subseteq told /\ tries \in 1 .. tries
    BY <1>1 DEF DeliveryInv
  <2>2. told \subseteq told' /\ told' \subseteq told \cup {tries}
    OBVIOUS
  <2>3. asked' \subseteq told \cup asked
    OBVIOUS
  <2> QED
    BY <2>1, <2>2, <2>3
<1>6. ASSUME NEW t \in told' PROVE outcomes'[t] \in Failures \cup {"none", "routed"}
  <2>1. CASE t = tries
    BY <1>2, <1>6, <2>1
  <2>2. CASE t # tries
    BY <1>1, <1>2, <1>5, <1>6, <2>2 DEF DeliveryInv
  <2> QED
    BY <2>1, <2>2
<1>7. \A t \in 1 .. MaxTries : t > tries => outcomes'[t] = "none"
  BY <1>1, <1>2 DEF DeliveryInv
<1>8. DeliveryInv'
  BY <1>1, <1>2, <1>5, <1>6, <1>7 DEF DeliveryInv, Past
<1>9. StopInv'
  BY <1>1, <1>2 DEF StopInv
<1> QED
  BY <1>2, <1>4, <1>8, <1>9

(* A delivery ends with no answer. *)
LEMMA IngressDrops ==
  ASSUME IngressInv, event_pc # "idle", event_pc' = "idle",
         UNCHANGED <<event, tries, session, outcomes, told, asked>>
  PROVE  IngressInv'
<1>1. tries \in 1 .. MaxTries
  BY Numbered DEF IngressInv, DeliveryInv
<1>2. outcomes[tries] = "none" /\ Records("none")
  BY <1>1 DEF IngressInv, DeliveryInv, Records
<1>3. "none" \notin Refusals /\ "none" \in Failures \cup {"none", "routed"}
  BY DEF Refusals
<1>4. session' \in BOOLEAN
  BY DEF IngressInv
<1> QED
  BY <1>2, <1>3, <1>4, IngressAnswers

(* A step before the text is sent that answers a refusal or a failure.     *)
LEMMA IngressRefuses ==
  ASSUME IngressInv, NEW a, Ingress!Answered(a), a # "routed",
         a \in Refusals => ~Passes,
         Past({"screen", "authenticate", "route", "authorize", "send"}),
         session' \in BOOLEAN, UNCHANGED <<event, tries, told, asked>>
  PROVE  IngressInv'
<1>1. event_pc # "idle" /\ tries \notin told
  BY DEF IngressInv, DeliveryInv, Past
<1>2. Records(a)
  BY <1>1, AnswersRecord
<1>3. tries \notin told' /\ told' = told /\ asked' = asked
  BY <1>1
<1> QED
  BY <1>1, <1>2, <1>3, IngressAnswers

(* Another step of a delivery that does not answer. *)
LEMMA IngressGoesOn ==
  ASSUME IngressInv,
         UNCHANGED <<event, tries, outcomes, told, asked>>,
         session' \in BOOLEAN,
         Past({"screen", "authenticate", "route", "authorize"}),
         event_pc' \in {"authenticate", "route", "authorize", "send"},
         Ingress!Screened(event) = "pass",
         event_pc' # "authenticate" => Passes
  PROVE  IngressInv'
<1> USE DEF IngressInv
<1>1. Passes' = Passes
  BY DEF Passes
<1>2. ScreenInv'
  BY <1>1 DEF ScreenInv, Past
<1>3. DeliveryInv'
  BY DEF DeliveryInv, Past
<1>4. StopInv'
  BY DEF StopInv, Past
<1> QED
  BY <1>2, <1>3, <1>4

(* A step that has the runner take the text or start the response.         *)
LEMMA IngressTakes ==
  ASSUME IngressInv, UNCHANGED <<event, tries, session, outcomes>>, Passes,
         Ingress!Screened(event) = "pass",
         \/ /\ event_pc = "send" /\ event_pc' = "respond"
            /\ told' = told \cup {tries} /\ asked' = asked
         \/ /\ event_pc = "respond" /\ event_pc' = "answer"
            /\ told' = told
            /\ IF event.create_response THEN asked' = asked \cup {tries}
               ELSE asked' = asked
  PROVE  IngressInv'
<1> USE DEF IngressInv
<1>1. Passes' = Passes
  BY DEF Passes
<1>2. tries \in 1 .. MaxTries /\ outcomes[tries] = "none" /\ MaxTries \in Nat
  BY Numbered DEF DeliveryInv
<1>3. ScreenInv'
  BY <1>1 DEF ScreenInv, Past
<1>4. told' \subseteq 1 .. tries /\ asked' \subseteq told' /\ tries \in told'
  <2>1. /\ told \subseteq 1 .. tries /\ asked \subseteq told
        /\ event_pc = "respond" => tries \in told
    BY DEF DeliveryInv, Past
  <2>2. tries \in 1 .. tries
    BY <1>2
  <2>3. CASE told' = told \cup {tries} /\ asked' = asked
    BY <2>1, <2>2, <2>3
  <2>4. CASE event_pc = "respond" /\ told' = told
    <3>1. asked' = asked \/ asked' = asked \cup {tries}
      BY <2>4
    <3> QED
      BY <2>1, <2>4, <3>1
  <2> QED
    BY <2>3, <2>4
<1>5. \A t \in told' : outcomes'[t] \in Failures \cup {"none", "routed"}
  BY <1>2 DEF DeliveryInv
<1>6. DeliveryInv'
  BY <1>2, <1>4, <1>5 DEF DeliveryInv, Past
<1>7. StopInv'
  BY DEF StopInv
<1> QED
  BY <1>3, <1>6, <1>7

(* Every step of a delivery. *)
LEMMA IngressNext ==
  ASSUME IngressInv, [Ingress!Next]_(Ingress!vars)
  PROVE  IngressInv'
<1> USE DEF Ingress!Goes
<1>1. CASE Ingress!Screen
  <2>1. /\ event_pc = "screen"
        /\ UNCHANGED <<event, tries, session, told, asked>>
    BY <1>1 DEF Ingress!Screen
  <2>2. CASE Ingress!Screened(event) = "pass"
    <3>1. event_pc' = "authenticate" /\ UNCHANGED outcomes
      BY <1>1, <2>2 DEF Ingress!Screen
    <3> QED
      BY <2>1, <2>2, <3>1, IngressGoesOn DEF IngressInv, Past
  <2>3. CASE Ingress!Screened(event) # "pass"
    <3>1. Ingress!Answered(Ingress!Screened(event))
      BY <1>1, <2>3 DEF Ingress!Screen
    <3>2. Ingress!Screened(event) # "routed" /\ ~Passes
      BY <2>3, ScreenChecked DEF IngressInv, Refusals, Passes
    <3> QED
      BY <2>1, <3>1, <3>2, IngressRefuses DEF IngressInv, Past
  <2> QED
    BY <2>2, <2>3
<1>2. CASE Ingress!Authenticate
  <2>1. /\ event_pc = "authenticate" /\ Ingress!Screened(event) = "pass"
        /\ UNCHANGED <<event, tries, session, told, asked>>
    BY <1>2 DEF Ingress!Authenticate, IngressInv, ScreenInv, Past
  <2>2. CASE Ingress!Authenticated(event) # "pass"
    <3>1. Ingress!Answered(Ingress!Authenticated(event))
      BY <1>2, <2>2 DEF Ingress!Authenticate
    <3>2. Ingress!Authenticated(event) # "routed" /\ ~Passes
      BY <2>2, TokenChecked DEF IngressInv, Refusals, Passes
    <3> QED
      BY <2>1, <3>1, <3>2, IngressRefuses DEF IngressInv, Past
  <2>3. CASE /\ Ingress!Authenticated(event) = "pass"
             /\ Ingress!Normalized(event) # "pass"
    <3>1. Ingress!Answered(Ingress!Normalized(event))
      BY <1>2, <2>3 DEF Ingress!Authenticate
    <3>2. Ingress!Normalized(event) # "routed" /\ ~Passes
      BY <2>3, MessageChecked DEF IngressInv, Refusals, Passes
    <3> QED
      BY <2>1, <3>1, <3>2, IngressRefuses DEF IngressInv, Past
  <2>4. CASE /\ Ingress!Authenticated(event) = "pass"
             /\ Ingress!Normalized(event) = "pass"
    <3>1. event_pc' = "route" /\ UNCHANGED outcomes /\ Passes
      BY <1>2, <2>1, <2>4 DEF Ingress!Authenticate, Passes
    <3> QED
      BY <2>1, <3>1, IngressGoesOn DEF IngressInv, Past
  <2> QED
    BY <2>2, <2>3, <2>4
<1>3. CASE Ingress!Route
  <2>1. /\ event_pc = "route" /\ Passes /\ Ingress!Screened(event) = "pass"
        /\ UNCHANGED <<event, tries, told, asked>>
    BY <1>3 DEF Ingress!Route, IngressInv, ScreenInv, Past, Passes
  <2>2. CASE event_pc' = "authorize" /\ session' = TRUE /\ UNCHANGED outcomes
    BY <2>1, <2>2, IngressGoesOn DEF Past
  <2>3. CASE Ingress!Answered("session_create_failed") /\ UNCHANGED session
    BY <2>1, <2>3, IngressRefuses DEF Refusals, IngressInv, Past
  <2> QED
    BY <1>3, <2>2, <2>3 DEF Ingress!Route
<1>4. CASE Ingress!Authorize
  <2>1. /\ event_pc = "authorize" /\ Passes /\ Ingress!Screened(event) = "pass"
        /\ UNCHANGED <<event, tries, session, told, asked>>
    BY <1>4 DEF Ingress!Authorize, IngressInv, ScreenInv, Past, Passes
  <2>2. CASE event_pc' = "send" /\ UNCHANGED outcomes
    BY <2>1, <2>2, IngressGoesOn DEF IngressInv, Past
  <2>3. CASE Ingress!Answered("session_not_found")
    BY <2>1, <2>3, IngressRefuses DEF Refusals, IngressInv, Past
  <2> QED
    BY <1>4, <2>2, <2>3 DEF Ingress!Authorize
<1>5. CASE Ingress!SendText
  <2>1. /\ event_pc = "send" /\ Passes /\ Ingress!Screened(event) = "pass"
        /\ UNCHANGED <<event, tries, session, asked>>
    BY <1>5 DEF Ingress!SendText, IngressInv, ScreenInv, Past, Passes
  <2>2. CASE /\ told' = told \cup {tries} /\ event_pc' = "respond"
             /\ UNCHANGED outcomes
    BY <2>1, <2>2, IngressTakes
  <2>3. CASE /\ told' = told \cup {tries} \/ UNCHANGED told
             /\ Ingress!Answered("channel_inbound_failed")
    <3>1. Records("channel_inbound_failed") /\ session' \in BOOLEAN
      BY <2>1, <2>3, AnswersRecord DEF IngressInv
    <3>2. /\ "channel_inbound_failed" \notin Refusals
          /\ "channel_inbound_failed" \in Failures \cup {"none", "routed"}
      BY DEF Refusals, Failures
    <3> QED
      BY <2>1, <2>3, <3>1, <3>2, IngressAnswers
  <2> QED
    BY <1>5, <2>2, <2>3 DEF Ingress!SendText
<1>6. CASE Ingress!CreateResponse
  <2>1. /\ event_pc = "respond" /\ Passes /\ Ingress!Screened(event) = "pass"
        /\ UNCHANGED <<event, tries, session, told>> /\ tries \in told
    BY <1>6 DEF Ingress!CreateResponse, IngressInv, ScreenInv, DeliveryInv, Past, Passes
  <2>2. CASE /\ event_pc' = "answer" /\ UNCHANGED outcomes
             /\ IF event.create_response THEN asked' = asked \cup {tries}
                ELSE asked' = asked
    BY <2>1, <2>2, IngressTakes
  <2>3. CASE /\ asked' = asked \cup {tries} \/ UNCHANGED asked
             /\ Ingress!Answered("channel_response_failed")
    <3>1. Records("channel_response_failed") /\ session' \in BOOLEAN
      BY <2>1, <2>3, AnswersRecord DEF IngressInv
    <3>2. /\ "channel_response_failed" \notin Refusals
          /\ "channel_response_failed" \in Failures \cup {"none", "routed"}
      BY DEF Refusals, Failures
    <3> QED
      BY <2>1, <2>3, <3>1, <3>2, IngressAnswers
  <2> QED
    BY <1>6, <2>2, <2>3 DEF Ingress!CreateResponse
<1>7. CASE Ingress!Reply
  <2>1. /\ event_pc = "answer" /\ UNCHANGED <<event, tries, session, told, asked>>
        /\ Records("routed")
    BY <1>7, AnswersRecord DEF Ingress!Reply
  <2>2. tries \in told /\ (event.create_response => tries \in asked)
    BY <2>1 DEF IngressInv, DeliveryInv, Past
  <2> QED
    BY <2>1, <2>2, IngressAnswers DEF Refusals, IngressInv
<1>8. CASE Ingress!Deliver
  <2>1. /\ event_pc = "idle" /\ tries < MaxTries /\ tries' = tries + 1
        /\ event_pc' = "screen" /\ UNCHANGED <<event, session, outcomes, told, asked>>
        /\ tries > 0 => outcomes[tries] # "routed"
    BY <1>8 DEF Ingress!Deliver, Ingress!Success
  <2>2. MaxTries \in Nat /\ tries \in Nat
    BY Numbered
  <2>3. ScreenInv'
    BY <2>1 DEF IngressInv, ScreenInv, Passes, Past
  <2>4. DeliveryInv'
    BY <2>1, <2>2 DEF IngressInv, DeliveryInv, Past
  <2>5. StopInv'
    BY <2>1, <2>2 DEF IngressInv, StopInv
  <2> QED
    BY <2>1, <2>3, <2>4, <2>5 DEF IngressInv
<1>9. CASE Ingress!TimeOut
  BY <1>9, IngressDrops DEF Ingress!TimeOut
<1>10. CASE Ingress!EndSession \/ UNCHANGED Ingress!vars
  <2>1. /\ UNCHANGED <<event, event_pc, tries, outcomes, told, asked>>
        /\ session' \in BOOLEAN
    BY <1>10 DEF Ingress!EndSession, Ingress!vars, IngressInv
  <2> QED
    BY <2>1 DEF IngressInv, ScreenInv, DeliveryInv, StopInv, Passes, Past
<1> QED
  BY <1>1, <1>2, <1>3, <1>4, <1>5, <1>6, <1>7, <1>8, <1>9, <1>10 DEF Ingress!Next

(* However often a platform delivers an event, wherever a delivery is cut  *)
(* off and though a failure of the runner may come after its effect, the   *)
(* runner gets a text again only after a failure or no answer, a success   *)
(* is final and complete, only messages of known principals reach the      *)
(* runner, and a bot does not hear itself (the webhook adapters in         *)
(* server.rs).                                                             *)
THEOREM EventsAreDeliveredOnce == RequestsSpec => []EventsDeliveredOnce
<1>1. Ingress!Init => IngressInv
  <2> SUFFICES ASSUME Ingress!Init
               PROVE  IngressInv
    OBVIOUS
  <2>1. MaxTries \in Nat
    BY RequestsAssumption DEF Ingress!IngressAssumption
  <2>2. \A t \in 1 .. MaxTries : outcomes[t] = "none"
    BY DEF Ingress!Init
  <2>3. ScreenInv /\ StopInv
    BY <2>2 DEF Ingress!Init, ScreenInv, StopInv, Past, Refusals
  <2>4. DeliveryInv
    BY <2>1, <2>2 DEF Ingress!Init, DeliveryInv, Past
  <2> QED
    BY <2>3, <2>4 DEF Ingress!Init, IngressInv
<1>2. IngressInv /\ [Ingress!Next]_(Ingress!vars) => IngressInv'
  BY IngressNext
<1>3. IngressInv => EventsDeliveredOnce
  <2> SUFFICES ASSUME IngressInv
               PROVE  EventsDeliveredOnce
    OBVIOUS
  <2> USE DEF IngressInv
  <2>1. /\ MaxTries \in Nat /\ tries \in 0 .. MaxTries
        /\ told \subseteq 1 .. tries /\ asked \subseteq told
        /\ 1 .. tries \subseteq 1 .. MaxTries
    BY Numbered DEF DeliveryInv
  <2>2. Ingress!TypeOK
    BY <2>1 DEF Ingress!TypeOK, Ingress!Deliveries
  <2>3. Ingress!CopiesExplained
    BY <2>1 DEF DeliveryInv, StopInv, Failures, Ingress!CopiesExplained
  <2>4. Ingress!SuccessIsFinal
    BY <2>1 DEF StopInv, Ingress!SuccessIsFinal, Ingress!Deliveries
  <2>5. Ingress!OnlyMessagesReach
    BY <2>1, PassesMeans
       DEF ScreenInv, Refusals, Ingress!OnlyMessagesReach, Ingress!Deliveries
  <2>6. Ingress!NoEchoes
    BY PassesMeans DEF ScreenInv, Ingress!NoEchoes
  <2> QED
    BY <2>2, <2>3, <2>4, <2>5, <2>6 DEF EventsDeliveredOnce
<1> QED
  BY <1>1, <1>2, <1>3, RequestsRun, PTL DEF Ingress!Spec

----------------------------------------------------------------------------
(* ToolCalls *)


Audited(c, o) == [call |-> c, outcome |-> o] \in audit

CallRecords ==
  [by : {"nobody", "client", "provider"}, session : Ids \cup {NoId},
   name : Tools \cup {OtherName},
   pc : Tool!Finals \cup {"idle", "resolve", "find", "execute", "run", "ran",
                          "finished", "count_failure"},
   result : {"none", "ok", "error"}]

(* Places where no tool has run, and none has been tried. *)
Untried == {"idle", "resolve", "find", "execute", "not_found", "unregistered",
            "interrupted"}

(* What is known of a call, wherever it is. *)
CallInv(c) ==
  /\ call[c] \in CallRecords /\ runs[c] \in {0, 1}
  /\ call[c].pc # "idle" =>
       /\ call[c].by \in {"client", "provider"} /\ call[c].session \in Ids
       /\ settings[call[c].session].role # "none"
  /\ call[c].pc = "idle" => call[c].by = "nobody"
  /\ call[c].result # "none" =>
       call[c].pc \in Tool!Finals \cup {"finished", "count_failure"}
  /\ call[c].pc \in {"finished", "count_failure"} => call[c].result # "none"
  /\ call[c].pc = "count_failure" =>
       call[c].by = "provider" /\ call[c].result = "error"
  /\ call[c].pc \in Untried =>
       runs[c] = 0 /\ ~Audited(c, "allowed") /\ ~Audited(c, "denied")
  /\ call[c].pc = "run" =>
       runs[c] = 0 /\ Audited(c, "allowed") /\ ~Audited(c, "denied")
  /\ call[c].pc = "ran" => runs[c] = 1 /\ ~Audited(c, "denied")
  /\ call[c].pc \in {"finished", "count_failure", "answered"} =>
       runs[c] = IF Audited(c, "denied") THEN 0 ELSE 1
  /\ runs[c] > 0 => Audited(c, "allowed")
  /\ Audited(c, "allowed") => Tool!Permitted(Tool!Settings(c).role, call[c].name)
  /\ Tool!InGraph(c) /\ Tool!Settings(c).role = "supervised" =>
       /\ call[c].pc \in {"resolve", "interrupted", "not_found", "graph_failed"}
       /\ runs[c] = 0
  /\ Tool!UnderWay(c) =>
       IF call[c].by = "client" THEN call[c].session \in table \/ c \in tool_late
       ELSE call[c].session \in loops

(* The provider's calls that have been counted. *)
Counted == {c \in Calls : call[c].by = "provider"
                          /\ call[c].pc \in {"answered", "count_failure"}}
CountedFailures ==
  {c \in Counted : call[c].pc = "answered" /\ call[c].result = "error"}

CountsInv ==
  /\ IsFiniteSet(Counted) /\ IsFiniteSet(CountedFailures)
  /\ total = Cardinality(Counted) /\ failed = Cardinality(CountedFailures)

ToolInv ==
  /\ settings \in [Ids -> [role : Tool!Roles \cup {"none"}, graph : BOOLEAN]]
  /\ table \subseteq loops /\ loops \subseteq Ids
  /\ \A i \in loops : settings[i].role # "none"
  /\ DOMAIN call = Calls /\ DOMAIN runs = Calls
  /\ audit \subseteq [call : Calls, outcome : {"allowed", "denied"}]
  /\ \A c \in Calls : CallInv(c)
  /\ CountsInv

(* A call that does not move keeps what is known of it. *)
LEMMA CallKept ==
  ASSUME NEW c \in Calls, CallInv(c), call'[c] = call[c], runs'[c] = runs[c],
         \A o : Audited(c, o)' <=> Audited(c, o),
         call[c].pc # "idle" =>
           settings'[call[c].session] = settings[call[c].session],
         Tool!UnderWay(c) =>
           IF call[c].by = "client"
           THEN call[c].session \in table' \/ c \in tool_late'
           ELSE call[c].session \in loops'
  PROVE  CallInv(c)'
<1>1. CASE call[c].pc = "idle"
  <2>1. /\ call'[c].pc = "idle" /\ call'[c].by = "nobody" /\ ~Tool!InGraph(c)'
        /\ ~Tool!UnderWay(c)'
    BY <1>1 DEF CallInv, Tool!InGraph, Tool!By, Tool!UnderWay
  <2>2. ~Audited(c, "allowed") /\ ~Audited(c, "denied") /\ runs[c] = 0
    BY <1>1 DEF CallInv, Untried
  <2> QED
    BY <1>1, <2>1, <2>2 DEF CallInv
<1>2. CASE call[c].pc # "idle"
  <2>1. /\ Tool!Settings(c)' = Tool!Settings(c)
        /\ Tool!InGraph(c)' <=> Tool!InGraph(c)
        /\ Tool!UnderWay(c)' <=> Tool!UnderWay(c)
    BY <1>2 DEF Tool!Settings, Tool!InGraph, Tool!By, Tool!UnderWay
  <2> QED
    BY <1>2, <2>1 DEF CallInv
<1> QED
  BY <1>1, <1>2

(* The step of a call that is none of a counter. *)
LEMMA CallMoves ==
  ASSUME ToolInv, NEW c \in Calls, CallInv(c)', CountsInv',
         UNCHANGED <<settings, table, loops, tool_late>>,
         DOMAIN call' = Calls, DOMAIN runs' = Calls,
         audit' \subseteq [call : Calls, outcome : {"allowed", "denied"}],
         \A d \in Calls \ {c} :
           /\ call'[d] = call[d] /\ runs'[d] = runs[d]
           /\ \A o : Audited(d, o)' <=> Audited(d, o)
  PROVE  ToolInv'
<1>1. ASSUME NEW d \in Calls \ {c}
      PROVE  CallInv(d)'
  <2>1. CallInv(d)
    BY DEF ToolInv
  <2> QED
    BY <2>1, CallKept DEF CallInv
<1> QED
  BY <1>1 DEF ToolInv

(* What has been counted stays, if no call is counted or dropped. *)
LEMMA CountsKept ==
  ASSUME CountsInv, UNCHANGED <<total, failed>>,
         \A c \in Calls : \/ call'[c] = call[c]
                          \/ /\ c \notin Counted
                             /\ \/ call'[c].by # "provider"
                                \/ call'[c].pc \notin {"answered", "count_failure"}
  PROVE  CountsInv'
<1>1. Counted' = Counted
  BY DEF Counted
<1>2. CountedFailures' = CountedFailures
  <2>1. \A c \in Counted : call'[c] = call[c]
    BY DEF Counted
  <2> QED
    BY <1>1, <2>1 DEF CountedFailures
<1> QED
  BY <1>1, <1>2 DEF CountsInv

(* A call goes on. *)
LEMMA ToolGoes ==
  ASSUME ToolInv, NEW c \in Calls, NEW p, Tool!Goes(c, p),
         p \in Tool!Finals \cup {"find", "execute", "ran", "count_failure"},
         UNCHANGED settings
  PROVE  /\ DOMAIN call' = Calls /\ call'[c] \in CallRecords /\ call'[c].pc = p
         /\ call'[c].by = call[c].by /\ call'[c].session = call[c].session
         /\ call'[c].name = call[c].name /\ call'[c].result = call[c].result
         /\ \A d \in Calls \ {c} : call'[d] = call[d]
         /\ call[c].pc # "idle" =>
              /\ Tool!Settings(c)' = Tool!Settings(c)
              /\ Tool!InGraph(c)' <=> Tool!InGraph(c)
<1>1. call[c] \in CallRecords /\ DOMAIN call = Calls
  BY DEF ToolInv, CallInv
<1>2. call' = [call EXCEPT ![c].pc = p]
  BY DEF Tool!Goes
<1>3. /\ DOMAIN call' = Calls /\ call'[c] = [call[c] EXCEPT !.pc = p]
      /\ \A d \in Calls \ {c} : call'[d] = call[d]
  BY <1>1, <1>2
<1>4. /\ call'[c] \in CallRecords /\ call'[c].pc = p
      /\ call'[c].by = call[c].by /\ call'[c].session = call[c].session
      /\ call'[c].name = call[c].name /\ call'[c].result = call[c].result
  BY <1>1, <1>3 DEF CallRecords
<1>5. call[c].pc # "idle" =>
        /\ Tool!Settings(c)' = Tool!Settings(c)
        /\ Tool!InGraph(c)' <=> Tool!InGraph(c)
  BY <1>4 DEF Tool!Settings, Tool!InGraph, Tool!By
<1> QED
  BY <1>3, <1>4, <1>5

(* Steps of a call that leave the audit and the counters alone. *)
LEMMA ToolPlainSteps ==
  ASSUME ToolInv, NEW c \in Calls,
         \/ Tool!Resolve(c) \/ Tool!Find(c) \/ Tool!Answer(c) \/ Tool!GraphFails(c)
  PROVE  ToolInv'
<1>1. PICK p \in {"find", "interrupted", "execute", "unregistered", "answered",
                  "graph_failed"} :
        /\ Tool!Goes(c, p)
        /\ p = "find" => /\ call[c].pc = "resolve"
                         /\ Tool!Settings(c).role # "supervised"
        /\ p = "interrupted" => call[c].pc = "resolve"
        /\ p \in {"execute", "unregistered"} => call[c].pc = "find"
        /\ p = "answered" => call[c].pc = "finished" /\ call[c].by = "client"
        /\ p = "graph_failed" =>
             /\ call[c].pc \in {"resolve", "find", "finished"}
             /\ call[c].by = "client"
  BY DEF Tool!Resolve, Tool!Find, Tool!Answer, Tool!GraphFails, Tool!At,
         Tool!InGraph, Tool!By
<1>2. UNCHANGED <<settings, table, loops, tool_late, audit, total, failed, runs>>
  BY DEF Tool!Resolve, Tool!Find, Tool!Answer, Tool!GraphFails
<1>3. CallInv(c) /\ call[c].pc # "idle"
  BY <1>1 DEF ToolInv
<1>4. /\ DOMAIN call' = Calls /\ call'[c] \in CallRecords /\ call'[c].pc = p
      /\ call'[c].by = call[c].by /\ call'[c].session = call[c].session
      /\ call'[c].name = call[c].name /\ call'[c].result = call[c].result
      /\ \A d \in Calls \ {c} : call'[d] = call[d]
      /\ Tool!Settings(c)' = Tool!Settings(c)
      /\ Tool!InGraph(c)' <=> Tool!InGraph(c)
  BY <1>1, <1>2, <1>3, ToolGoes DEF Tool!Finals
<1>5. \A d \in Calls : \A o : Audited(d, o)' <=> Audited(d, o)
  BY <1>2 DEF Audited
<1>6. call[c].pc \in {"resolve", "find", "finished"}
  BY <1>1
<1>7. Tool!UnderWay(c)
  BY <1>6 DEF Tool!UnderWay, Tool!Finals
<1>8. CallInv(c)'
  <2>1. /\ call'[c] \in CallRecords /\ runs'[c] = runs[c] /\ runs[c] \in {0, 1}
        /\ call'[c].by \in {"client", "provider"} /\ call'[c].session \in Ids
        /\ settings'[call'[c].session].role # "none" /\ call'[c].pc # "idle"
    BY <1>1, <1>2, <1>3, <1>4 DEF CallInv
  <2>2. /\ call'[c].result # "none" => call'[c].pc \in Tool!Finals
        /\ call'[c].pc \notin {"finished", "count_failure", "run", "ran"}
    BY <1>1, <1>3, <1>4 DEF CallInv, Tool!Finals
  <2>3. call'[c].pc \in Untried =>
          runs[c] = 0 /\ ~Audited(c, "allowed") /\ ~Audited(c, "denied")
    BY <1>1, <1>3, <1>4 DEF CallInv, Untried
  <2>4. call'[c].pc = "answered" => runs[c] = IF Audited(c, "denied") THEN 0 ELSE 1
    BY <1>1, <1>3, <1>4 DEF CallInv
  <2>5. Tool!InGraph(c)' /\ Tool!Settings(c)'.role = "supervised" =>
          /\ call'[c].pc \in {"resolve", "interrupted", "not_found", "graph_failed"}
          /\ runs[c] = 0
    BY <1>1, <1>3, <1>4 DEF CallInv
  <2>6. IF call[c].by = "client" THEN call[c].session \in table \/ c \in tool_late
        ELSE call[c].session \in loops
    BY <1>3, <1>7 DEF CallInv
  <2>7. /\ runs[c] > 0 => Audited(c, "allowed")
        /\ Audited(c, "allowed") =>
             Tool!Permitted(Tool!Settings(c).role, call[c].name)
    BY <1>3 DEF CallInv
  <2> QED
    BY <1>2, <1>4, <1>5, <2>1, <2>2, <2>3, <2>4, <2>5, <2>6, <2>7 DEF CallInv
<1>9. CountsInv'
  <2>1. c \notin Counted
    BY <1>6 DEF Counted
  <2>2. call'[c].by # "provider" \/ call'[c].pc \notin {"answered", "count_failure"}
    BY <1>1, <1>4
  <2> QED
    BY <1>2, <1>4, <2>1, <2>2, CountsKept DEF ToolInv
<1> QED
  BY <1>2, <1>4, <1>5, <1>8, <1>9, CallMoves DEF ToolInv

(* A call is given a result. *)
LEMMA ToolResults ==
  ASSUME ToolInv, NEW c \in Calls, NEW p \in {"run", "finished"},
         NEW r \in {"none", "ok", "error"}, call[c].pc # "idle",
         call' = [call EXCEPT ![c].pc = p, ![c].result = r],
         UNCHANGED settings
  PROVE  /\ DOMAIN call' = Calls /\ call'[c] \in CallRecords /\ call'[c].pc = p
         /\ call'[c].by = call[c].by /\ call'[c].session = call[c].session
         /\ call'[c].name = call[c].name /\ call'[c].result = r
         /\ \A d \in Calls \ {c} : call'[d] = call[d]
         /\ Tool!Settings(c)' = Tool!Settings(c)
         /\ Tool!InGraph(c)' <=> Tool!InGraph(c)
<1>1. call[c] \in CallRecords /\ DOMAIN call = Calls
  BY DEF ToolInv, CallInv
<1>2. /\ DOMAIN call' = Calls
      /\ call'[c] = [call[c] EXCEPT !.pc = p, !.result = r]
      /\ \A d \in Calls \ {c} : call'[d] = call[d]
  BY <1>1
<1>3. /\ call'[c] \in CallRecords /\ call'[c].pc = p
      /\ call'[c].by = call[c].by /\ call'[c].session = call[c].session
      /\ call'[c].name = call[c].name /\ call'[c].result = r
  BY <1>1, <1>2 DEF CallRecords
<1>4. /\ Tool!Settings(c)' = Tool!Settings(c)
      /\ Tool!InGraph(c)' <=> Tool!InGraph(c)
  BY <1>3 DEF Tool!Settings, Tool!InGraph, Tool!By
<1> QED
  BY <1>2, <1>3, <1>4

(* The tool of a permitted call runs. *)
LEMMA ToolRuns ==
  ASSUME ToolInv, NEW c \in Calls, Tool!Run(c)
  PROVE  ToolInv'
<1>1. /\ call[c].pc = "run" /\ Tool!Goes(c, "ran")
      /\ runs' = [runs EXCEPT ![c] = @ + 1]
      /\ UNCHANGED <<settings, table, loops, tool_late, audit, total, failed>>
  BY DEF Tool!Run, Tool!At
<1>2. CallInv(c) /\ call[c].pc # "idle" /\ DOMAIN runs = Calls
  BY <1>1 DEF ToolInv
<1>3. /\ DOMAIN call' = Calls /\ call'[c] \in CallRecords /\ call'[c].pc = "ran"
      /\ call'[c].by = call[c].by /\ call'[c].session = call[c].session
      /\ call'[c].name = call[c].name /\ call'[c].result = call[c].result
      /\ \A d \in Calls \ {c} : call'[d] = call[d]
      /\ Tool!Settings(c)' = Tool!Settings(c)
      /\ Tool!InGraph(c)' <=> Tool!InGraph(c)
  BY <1>1, <1>2, ToolGoes
<1>4. \A d \in Calls : \A o : Audited(d, o)' <=> Audited(d, o)
  BY <1>1 DEF Audited
<1>5. runs[c] = 0 /\ Audited(c, "allowed") /\ ~Audited(c, "denied")
  BY <1>1, <1>2 DEF CallInv
<1>6. /\ DOMAIN runs' = Calls /\ runs'[c] = 1
      /\ \A d \in Calls \ {c} : runs'[d] = runs[d]
  BY <1>1, <1>2, <1>5
<1>7. CallInv(c)'
  <2>1. /\ call[c].result = "none"
        /\ ~(Tool!InGraph(c) /\ Tool!Settings(c).role = "supervised")
        /\ Tool!UnderWay(c)
    BY <1>1, <1>2 DEF CallInv, Tool!Finals, Tool!UnderWay
  <2>2. /\ call[c].by \in {"client", "provider"} /\ call[c].session \in Ids
        /\ settings[call[c].session].role # "none"
        /\ Tool!Permitted(Tool!Settings(c).role, call[c].name)
        /\ IF call[c].by = "client"
           THEN call[c].session \in table \/ c \in tool_late
           ELSE call[c].session \in loops
    BY <1>1, <1>2, <1>5, <2>1 DEF CallInv
  <2> QED
    BY <1>1, <1>3, <1>4, <1>5, <1>6, <2>1, <2>2 DEF CallInv, Untried
<1>8. CountsInv'
  <2>1. c \notin Counted
    BY <1>1 DEF Counted
  <2> QED
    BY <1>1, <1>3, <2>1, CountsKept DEF ToolInv
<1> QED
  BY <1>1, <1>3, <1>4, <1>6, <1>7, <1>8, CallMoves DEF ToolInv

(* The tool returns a result or an error. *)
LEMMA ToolReturns ==
  ASSUME ToolInv, NEW c \in Calls, NEW result \in {"ok", "error"},
         Tool!Return(c, result)
  PROVE  ToolInv'
<1>1. /\ call[c].pc = "ran"
      /\ call' = [call EXCEPT ![c].pc = "finished", ![c].result = result]
      /\ UNCHANGED <<settings, table, loops, tool_late, audit, total, failed, runs>>
  BY DEF Tool!Return, Tool!At
<1>2. CallInv(c) /\ call[c].pc # "idle"
  BY <1>1 DEF ToolInv
<1>3. /\ DOMAIN call' = Calls /\ call'[c] \in CallRecords
      /\ call'[c].pc = "finished" /\ call'[c].result = result
      /\ call'[c].by = call[c].by /\ call'[c].session = call[c].session
      /\ call'[c].name = call[c].name
      /\ \A d \in Calls \ {c} : call'[d] = call[d]
      /\ Tool!Settings(c)' = Tool!Settings(c)
      /\ Tool!InGraph(c)' <=> Tool!InGraph(c)
  BY <1>1, <1>2, ToolResults
<1>4. \A d \in Calls : \A o : Audited(d, o)' <=> Audited(d, o)
  BY <1>1 DEF Audited
<1>5. CallInv(c)'
  <2>1. /\ runs[c] = 1 /\ ~Audited(c, "denied")
        /\ ~(Tool!InGraph(c) /\ Tool!Settings(c).role = "supervised")
        /\ Tool!UnderWay(c) /\ Audited(c, "allowed")
    BY <1>1, <1>2 DEF CallInv, Tool!Finals, Tool!UnderWay
  <2>2. /\ call[c].by \in {"client", "provider"} /\ call[c].session \in Ids
        /\ settings[call[c].session].role # "none"
        /\ Tool!Permitted(Tool!Settings(c).role, call[c].name)
        /\ IF call[c].by = "client"
           THEN call[c].session \in table \/ c \in tool_late
           ELSE call[c].session \in loops
    BY <1>1, <1>2, <2>1 DEF CallInv
  <2> QED
    BY <1>1, <1>3, <1>4, <2>1, <2>2 DEF CallInv, Untried
<1>6. CountsInv'
  <2>1. c \notin Counted
    BY <1>1 DEF Counted
  <2> QED
    BY <1>1, <1>3, <2>1, CountsKept DEF ToolInv
<1> QED
  BY <1>1, <1>3, <1>4, <1>5, <1>6, CallMoves DEF ToolInv

(* The middleware checks the role and audits what it decides. *)
LEMMA ToolChecks ==
  ASSUME ToolInv, NEW c \in Calls, Tool!Check(c)
  PROVE  ToolInv'
<1>1. PICK ok \in BOOLEAN :
        /\ ok <=> Tool!Permitted(Tool!Settings(c).role, call[c].name)
        /\ audit' = audit \cup
             {[call |-> c, outcome |-> IF ok THEN "allowed" ELSE "denied"]}
        /\ call' = [call EXCEPT ![c].pc = IF ok THEN "run" ELSE "finished",
                                ![c].result = IF ok THEN "none" ELSE "error"]
  BY DEF Tool!Check, Tool!Permitted
<1>2. /\ call[c].pc = "execute"
      /\ UNCHANGED <<settings, table, loops, tool_late, total, failed, runs>>
  BY DEF Tool!Check, Tool!At
<1>3. CallInv(c) /\ call[c].pc # "idle"
  BY <1>2 DEF ToolInv
<1>4. /\ DOMAIN call' = Calls /\ call'[c] \in CallRecords
      /\ call'[c].pc = IF ok THEN "run" ELSE "finished"
      /\ call'[c].result = IF ok THEN "none" ELSE "error"
      /\ call'[c].by = call[c].by /\ call'[c].session = call[c].session
      /\ call'[c].name = call[c].name
      /\ \A d \in Calls \ {c} : call'[d] = call[d]
      /\ Tool!Settings(c)' = Tool!Settings(c)
      /\ Tool!InGraph(c)' <=> Tool!InGraph(c)
  <2> DEFINE p == IF ok THEN "run" ELSE "finished"
             r == IF ok THEN "none" ELSE "error"
  <2>1. /\ p \in {"run", "finished"} /\ r \in {"none", "ok", "error"}
        /\ call' = [call EXCEPT ![c].pc = p, ![c].result = r]
    BY <1>1
  <2> HIDE DEF p, r
  <2>2. /\ DOMAIN call' = Calls /\ call'[c] \in CallRecords
        /\ call'[c].pc = p /\ call'[c].result = r
        /\ call'[c].by = call[c].by /\ call'[c].session = call[c].session
        /\ call'[c].name = call[c].name
        /\ \A d \in Calls \ {c} : call'[d] = call[d]
        /\ Tool!Settings(c)' = Tool!Settings(c)
        /\ Tool!InGraph(c)' <=> Tool!InGraph(c)
    BY <1>2, <1>3, <2>1, ToolResults
  <2> QED
    BY <2>2 DEF p, r
<1>5. /\ \A d \in Calls \ {c} : \A o : Audited(d, o)' <=> Audited(d, o)
      /\ audit' \subseteq [call : Calls, outcome : {"allowed", "denied"}]
      /\ Audited(c, "allowed")' <=> ok
      /\ Audited(c, "denied")' <=> ~ok
  <2>1. ~Audited(c, "allowed") /\ ~Audited(c, "denied")
    BY <1>2, <1>3 DEF CallInv, Untried
  <2>2. audit \subseteq [call : Calls, outcome : {"allowed", "denied"}]
    BY DEF ToolInv
  <2> QED
    BY <1>1, <2>1, <2>2 DEF Audited
<1>6. CallInv(c)'
  <2>1. /\ runs[c] = 0
        /\ ~(Tool!InGraph(c) /\ Tool!Settings(c).role = "supervised")
        /\ Tool!UnderWay(c)
    BY <1>2, <1>3 DEF CallInv, Untried, Tool!Finals, Tool!UnderWay
  <2>2. /\ call[c].by \in {"client", "provider"} /\ call[c].session \in Ids
        /\ settings[call[c].session].role # "none"
        /\ IF call[c].by = "client"
           THEN call[c].session \in table \/ c \in tool_late
           ELSE call[c].session \in loops
    BY <1>2, <1>3, <2>1 DEF CallInv
  <2>3. ok => Tool!Permitted(Tool!Settings(c)'.role, call'[c].name)
    BY <1>1, <1>4
  <2>4. CASE ok
    BY <1>2, <1>4, <1>5, <2>1, <2>2, <2>3, <2>4 DEF CallInv, Untried
  <2>5. CASE ~ok
    BY <1>2, <1>4, <1>5, <2>1, <2>2, <2>5 DEF CallInv, Untried
  <2> QED
    BY <2>4, <2>5
<1>7. CountsInv'
  <2>1. c \notin Counted
    BY <1>2 DEF Counted
  <2>2. call'[c].pc \notin {"answered", "count_failure"}
    BY <1>4
  <2> QED
    BY <1>2, <1>4, <2>1, <2>2, CountsKept DEF ToolInv
<1>8. DOMAIN runs' = Calls
  BY <1>2 DEF ToolInv
<1> QED
  BY <1>2, <1>4, <1>5, <1>6, <1>7, <1>8, CallMoves

(* A client or the provider begins a call. *)
LEMMA ToolBegins ==
  ASSUME ToolInv, NEW c \in Calls, NEW i \in Ids,
         NEW name \in Tools \cup {OtherName},
         Tool!Lookup(c, i, name) \/ Tool!Dispatch(c, i, name)
  PROVE  ToolInv'
<1>1. PICK who \in {"client", "provider"},
           p \in {"not_found", "resolve", "find", "execute"} :
        /\ call' = [call EXCEPT ![c] = [by |-> who, session |-> i, name |-> name,
                                        result |-> "none", pc |-> p]]
        /\ settings[i].role # "none"
        /\ who = "client" => /\ p # "execute"
                             /\ p # "not_found" => i \in table
                             /\ p = "find" => ~settings[i].graph
        /\ who = "provider" => p = "execute" /\ i \in loops
  <2>1. CASE Tool!Lookup(c, i, name)
    <3>1. settings[i].role # "none"
      BY <2>1 DEF Tool!Lookup
    <3>2. CASE i \notin table
      BY <2>1, <3>1, <3>2 DEF Tool!Lookup
    <3>3. CASE i \in table /\ settings[i].graph
      BY <2>1, <3>1, <3>3 DEF Tool!Lookup
    <3>4. CASE i \in table /\ ~settings[i].graph
      BY <2>1, <3>1, <3>4 DEF Tool!Lookup
    <3> QED
      BY <3>2, <3>3, <3>4
  <2>2. CASE Tool!Dispatch(c, i, name)
    BY <2>2 DEF Tool!Dispatch, ToolInv
  <2> QED
    BY <2>1, <2>2
<1>2. /\ call[c].pc = "idle"
      /\ UNCHANGED <<settings, table, loops, tool_late, audit, total, failed, runs>>
  BY DEF Tool!Lookup, Tool!Dispatch, Tool!At
<1>3. CallInv(c)
  BY DEF ToolInv
<1>4. /\ DOMAIN call' = Calls
      /\ call'[c] = [by |-> who, session |-> i, name |-> name,
                     result |-> "none", pc |-> p]
      /\ \A d \in Calls \ {c} : call'[d] = call[d]
  BY <1>1 DEF ToolInv
<1>5. \A d \in Calls : \A o : Audited(d, o)' <=> Audited(d, o)
  BY <1>2 DEF Audited
<1>6. CallInv(c)'
  <2>1. runs[c] = 0 /\ ~Audited(c, "allowed") /\ ~Audited(c, "denied")
    BY <1>2, <1>3 DEF CallInv, Untried
  <2>2. call'[c] \in CallRecords
    BY <1>4 DEF CallRecords, Tool!Finals
  <2>3. /\ call'[c].by = who /\ call'[c].session = i /\ call'[c].pc = p
        /\ call'[c].result = "none"
    BY <1>4
  <2>4. /\ Tool!InGraph(c)' => who = "client" /\ settings[i].graph
        /\ Tool!UnderWay(c)' => p # "not_found"
    BY <1>2, <2>3 DEF Tool!InGraph, Tool!By, Tool!Settings, Tool!UnderWay,
       Tool!Finals
  <2> QED
    BY <1>1, <1>2, <1>5, <2>1, <2>2, <2>3, <2>4 DEF CallInv, Untried
<1>7. CountsInv'
  <2>1. c \notin Counted /\ call'[c].pc \notin {"answered", "count_failure"}
    BY <1>1, <1>2, <1>4 DEF Counted
  <2> QED
    BY <1>2, <1>4, <2>1, CountsKept DEF ToolInv
<1> QED
  BY <1>2, <1>4, <1>5, <1>6, <1>7, CallMoves DEF ToolInv

(* The loop counts a call, and then its failure. *)
LEMMA ToolCounts ==
  ASSUME ToolInv, NEW c \in Calls, Tool!Count(c) \/ Tool!CountFailure(c)
  PROVE  ToolInv'
<1>1. PICK p \in {"answered", "count_failure"} :
        /\ Tool!Goes(c, p)
        /\ \/ /\ call[c].pc = "finished" /\ call[c].by = "provider"
              /\ p = "answered" <=> call[c].result = "ok"
              /\ total' = total + 1 /\ failed' = failed
           \/ /\ call[c].pc = "count_failure" /\ p = "answered"
              /\ failed' = failed + 1 /\ total' = total
  BY DEF Tool!Count, Tool!CountFailure, Tool!At, Tool!By
<1>2. UNCHANGED <<settings, table, loops, tool_late, audit, runs>>
  BY DEF Tool!Count, Tool!CountFailure
<1>3. CallInv(c) /\ call[c].pc # "idle" /\ CountsInv
  BY <1>1 DEF ToolInv
<1>4. /\ DOMAIN call' = Calls /\ call'[c] \in CallRecords /\ call'[c].pc = p
      /\ call'[c].by = call[c].by /\ call'[c].session = call[c].session
      /\ call'[c].name = call[c].name /\ call'[c].result = call[c].result
      /\ \A d \in Calls \ {c} : call'[d] = call[d]
      /\ Tool!Settings(c)' = Tool!Settings(c)
      /\ Tool!InGraph(c)' <=> Tool!InGraph(c)
  BY <1>1, <1>2, <1>3, ToolGoes DEF Tool!Finals
<1>5. \A d \in Calls : \A o : Audited(d, o)' <=> Audited(d, o)
  BY <1>2 DEF Audited
<1>6. /\ call[c].by = "provider" /\ call[c].result \in {"ok", "error"}
      /\ call[c].pc = "count_failure" => call[c].result = "error"
      /\ runs[c] = IF Audited(c, "denied") THEN 0 ELSE 1
  BY <1>1, <1>3 DEF CallInv, CallRecords
<1>7. CallInv(c)'
  <2>1. /\ ~Tool!InGraph(c) /\ Tool!UnderWay(c)
    BY <1>1, <1>6 DEF Tool!InGraph, Tool!By, Tool!UnderWay, Tool!Finals
  <2>2. /\ call[c].session \in Ids /\ settings[call[c].session].role # "none"
        /\ call[c].session \in loops /\ runs[c] \in {0, 1}
        /\ runs[c] > 0 => Audited(c, "allowed")
        /\ Audited(c, "allowed") =>
             Tool!Permitted(Tool!Settings(c).role, call[c].name)
    BY <1>3, <1>6, <2>1 DEF CallInv
  <2>3. p = "count_failure" => call[c].result = "error"
    BY <1>1, <1>6
  <2> QED
    BY <1>2, <1>4, <1>5, <1>6, <2>1, <2>2, <2>3 DEF CallInv, Untried, Tool!Finals
<1>8. CountsInv'
  <2>1. CASE call[c].pc = "finished"
    <3>1. c \notin Counted
      BY <2>1 DEF Counted
    <3>2. Counted' = Counted \cup {c}
      BY <1>4, <1>6 DEF Counted
    <3>3. CountedFailures' = CountedFailures
      <4>1. \A d \in Counted : d # c /\ call'[d] = call[d]
        BY <1>4, <3>1 DEF Counted
      <4>2. ~(call'[c].pc = "answered" /\ call'[c].result = "error")
        BY <1>1, <1>4, <2>1
      <4> QED
        BY <3>2, <4>1, <4>2 DEF CountedFailures
    <3>4. /\ IsFiniteSet(Counted')
          /\ Cardinality(Counted') = Cardinality(Counted) + 1
      BY <1>3, <3>1, <3>2, FS_AddElement DEF CountsInv
    <3> QED
      BY <1>1, <1>3, <2>1, <3>3, <3>4 DEF CountsInv
  <2>2. CASE call[c].pc = "count_failure"
    <3>1. c \in Counted /\ c \notin CountedFailures
      BY <1>6, <2>2 DEF Counted, CountedFailures
    <3>2. Counted' = Counted
      BY <1>1, <1>4, <1>6, <3>1 DEF Counted
    <3>3. CountedFailures' = CountedFailures \cup {c}
      <4>1. \A d \in Counted \ {c} : call'[d] = call[d]
        BY <1>4 DEF Counted
      <4>2. call'[c].pc = "answered" /\ call'[c].result = "error"
        BY <1>1, <1>4, <1>6, <2>2
      <4> QED
        BY <3>1, <3>2, <4>1, <4>2 DEF CountedFailures
    <3>4. /\ IsFiniteSet(CountedFailures')
          /\ Cardinality(CountedFailures') = Cardinality(CountedFailures) + 1
      BY <1>3, <3>1, <3>3, FS_AddElement DEF CountsInv
    <3> QED
      BY <1>1, <1>3, <2>2, <3>2, <3>4 DEF CountsInv
  <2> QED
    BY <1>1, <2>1, <2>2
<1>9. /\ DOMAIN runs' = Calls
      /\ audit' \subseteq [call : Calls, outcome : {"allowed", "denied"}]
      /\ \A d \in Calls : runs'[d] = runs[d]
  BY <1>2 DEF ToolInv
<1> QED
  BY <1>2, <1>4, <1>5, <1>7, <1>8, <1>9, CallMoves

(* A session begins, leaves the table, and loses its loop. *)
LEMMA ToolSessions ==
  ASSUME ToolInv, NEW i \in Ids, Tool!Create(i) \/ Tool!End(i) \/ Tool!Abort(i)
  PROVE  ToolInv'
<1>1. UNCHANGED <<audit, total, failed, runs>>
  BY DEF Tool!Create, Tool!End, Tool!Abort
<1>2. \A c \in Calls : \A o : Audited(c, o)' <=> Audited(c, o)
  BY <1>1 DEF Audited
<1>3. CASE Tool!Create(i)
  <2>1. PICK role \in Tool!Roles, graph \in BOOLEAN :
          /\ settings[i].role = "none"
          /\ settings' = [settings EXCEPT ![i] = [role |-> role, graph |-> graph]]
    BY <1>3 DEF Tool!Create
  <2>2. /\ table' = table \cup {i} /\ loops' = loops \cup {i}
        /\ UNCHANGED <<call, tool_late>>
    BY <1>3 DEF Tool!Create
  <2>3. /\ settings' \in [Ids -> [role : Tool!Roles \cup {"none"}, graph : BOOLEAN]]
        /\ settings'[i].role # "none"
        /\ \A j \in Ids \ {i} : settings'[j] = settings[j]
    BY <2>1 DEF ToolInv, Tool!Roles
  <2>4. ASSUME NEW c \in Calls
        PROVE  CallInv(c)'
    <3>1. CallInv(c)
      BY DEF ToolInv
    <3>2. call[c].pc # "idle" =>
            settings'[call[c].session] = settings[call[c].session]
      BY <2>1, <2>3, <3>1 DEF CallInv
    <3>3. Tool!UnderWay(c) =>
            IF call[c].by = "client"
            THEN call[c].session \in table' \/ c \in tool_late'
            ELSE call[c].session \in loops'
      BY <2>2, <3>1 DEF CallInv
    <3> QED
      BY <1>1, <1>2, <2>2, <3>1, <3>2, <3>3, CallKept
  <2>5. CountsInv'
    BY <1>1, <2>2, CountsKept DEF ToolInv
  <2>6. /\ table' \subseteq loops' /\ loops' \subseteq Ids
        /\ \A j \in loops' : settings'[j].role # "none"
    BY <2>2, <2>3 DEF ToolInv
  <2> QED
    BY <1>1, <2>2, <2>3, <2>4, <2>5, <2>6 DEF ToolInv
<1>4. CASE Tool!End(i)
  <2>1. /\ table' = table \ {i}
        /\ tool_late' = tool_late \cup
                          {c \in Calls : Tool!UnderWay(c) /\ call[c].session = i}
        /\ UNCHANGED <<settings, loops, call>>
    BY <1>4 DEF Tool!End
  <2>2. ASSUME NEW c \in Calls
        PROVE  CallInv(c)'
    <3>1. CallInv(c)
      BY DEF ToolInv
    <3>2. Tool!UnderWay(c) =>
            IF call[c].by = "client"
            THEN call[c].session \in table' \/ c \in tool_late'
            ELSE call[c].session \in loops'
      BY <2>1, <3>1 DEF CallInv
    <3> QED
      BY <1>1, <1>2, <2>1, <3>1, <3>2, CallKept
  <2>3. CountsInv'
    BY <1>1, <2>1, CountsKept DEF ToolInv
  <2> QED
    BY <1>1, <2>1, <2>2, <2>3 DEF ToolInv
<1>5. CASE Tool!Abort(i)
  <2>1. /\ loops' = loops \ {i} /\ i \notin table
        /\ UNCHANGED <<settings, table, tool_late>>
    BY <1>5 DEF Tool!Abort
  <2> DEFINE drops(c) == /\ c \in Tool!ProviderCalls
                         /\ call[c].session = i /\ Tool!UnderWay(c)
  <2>2. /\ DOMAIN call' = Calls
        /\ \A c \in Calls :
             IF drops(c) THEN call'[c] = [call[c] EXCEPT !.pc = "aborted"]
                         ELSE call'[c] = call[c]
    BY <1>5 DEF Tool!Abort
  <2>3. \A c \in Calls : drops(c) =>
          /\ call[c].by = "provider"
          /\ call[c].pc \notin Tool!Finals \cup {"idle", "finished", "count_failure"}
    BY <1>5 DEF Tool!Abort, Tool!ProviderCalls, Tool!By, Tool!UnderWay
  <2>4. ASSUME NEW c \in Calls
        PROVE  CallInv(c)'
    <3>1. CallInv(c)
      BY DEF ToolInv
    <3>2. CASE drops(c)
      <4>1. /\ call[c] \in CallRecords
            /\ call[c].by = "provider" /\ call[c].pc # "idle"
        BY <2>3, <3>1, <3>2 DEF CallInv
      <4>2. /\ call'[c] \in CallRecords /\ call'[c].pc = "aborted"
            /\ call'[c].by = "provider" /\ call'[c].session = call[c].session
            /\ call'[c].name = call[c].name /\ call'[c].result = call[c].result
        BY <2>2, <3>2, <4>1 DEF CallRecords, Tool!Finals
      <4>3. /\ ~Tool!InGraph(c)' /\ ~Tool!UnderWay(c)'
            /\ Tool!Settings(c)' = Tool!Settings(c)
        BY <2>1, <4>2 DEF Tool!InGraph, Tool!By, Tool!UnderWay, Tool!Finals,
           Tool!Settings
      <4> QED
        BY <1>1, <1>2, <2>1, <3>1, <4>1, <4>2, <4>3 DEF CallInv, Untried,
           Tool!Finals
    <3>3. CASE ~drops(c)
      <4>1. Tool!UnderWay(c) =>
              IF call[c].by = "client"
              THEN call[c].session \in table' \/ c \in tool_late'
              ELSE call[c].session \in loops'
        <5>1. call[c].pc # "idle" => call[c].by \in {"client", "provider"}
          BY <3>1 DEF CallInv
        <5>2. Tool!UnderWay(c) => call[c].pc # "idle"
          BY DEF Tool!UnderWay
        <5> QED
          BY <2>1, <3>1, <3>3, <5>1, <5>2 DEF CallInv, Tool!ProviderCalls, Tool!By
      <4> QED
        BY <1>1, <1>2, <2>1, <2>2, <3>1, <3>3, <4>1, CallKept
    <3> QED
      BY <3>2, <3>3
  <2>5. CountsInv'
    <3>1. ASSUME NEW c \in Calls
          PROVE  \/ call'[c] = call[c]
                 \/ /\ c \notin Counted
                    /\ call'[c].pc \notin {"answered", "count_failure"}
      <4>1. CASE drops(c)
        <5>1. call[c] \in CallRecords
          BY DEF ToolInv, CallInv
        <5>2. call'[c].pc = "aborted"
          BY <2>2, <4>1, <5>1 DEF CallRecords
        <5> QED
          BY <2>3, <4>1, <5>2 DEF Counted, Tool!Finals
      <4> QED
        BY <2>2, <4>1
    <3> QED
      BY <1>1, <3>1, CountsKept DEF ToolInv
  <2>6. /\ table' \subseteq loops' /\ loops' \subseteq Ids
        /\ \A j \in loops' : settings'[j].role # "none"
    BY <2>1 DEF ToolInv
  <2> QED
    BY <1>1, <2>1, <2>2, <2>4, <2>5, <2>6 DEF ToolInv
<1> QED
  BY <1>3, <1>4, <1>5

(* Every step of the tools keeps what is known of their calls. *)
LEMMA ToolNext ==
  ToolInv /\ [Tool!Next]_(Tool!vars) => ToolInv'
<1> SUFFICES ASSUME ToolInv, [Tool!Next]_(Tool!vars)
             PROVE  ToolInv'
  OBVIOUS
<1>1. CASE \E i \in Ids : Tool!Create(i) \/ Tool!End(i) \/ Tool!Abort(i)
  BY <1>1, ToolSessions
<1>2. CASE \E c \in Calls : Tool!Step(c) \/ Tool!GraphFails(c)
  BY <1>2, ToolPlainSteps, ToolRuns, ToolReturns, ToolChecks, ToolCounts
     DEF Tool!Step
<1>3. CASE \E c \in Calls : \E i \in Ids, name \in Tools \cup {OtherName} :
             Tool!Lookup(c, i, name) \/ Tool!Dispatch(c, i, name)
  BY <1>3, ToolBegins
<1>4. CASE UNCHANGED Tool!vars
  <2>1. UNCHANGED <<settings, table, loops, call, audit, total, failed, runs,
                    tool_late>>
    BY <1>4 DEF Tool!vars
  <2>2. \A c \in Calls : \A o : Audited(c, o)' <=> Audited(c, o)
    BY <2>1 DEF Audited
  <2>3. ASSUME NEW c \in Calls
        PROVE  CallInv(c)'
    <3>1. CallInv(c)
      BY DEF ToolInv
    <3>2. Tool!UnderWay(c) =>
            IF call[c].by = "client"
            THEN call[c].session \in table' \/ c \in tool_late'
            ELSE call[c].session \in loops'
      BY <2>1, <3>1 DEF CallInv
    <3> QED
      BY <2>1, <2>2, <3>1, <3>2, CallKept
  <2>4. CountsInv'
    BY <2>1, CountsKept DEF ToolInv
  <2> QED
    BY <2>1, <2>3, <2>4 DEF ToolInv
<1> QED
  BY <1>1, <1>2, <1>3, <1>4 DEF Tool!Next

(* Nobody has called a tool at first. *)
LEMMA ToolStart ==
  Tool!Init => ToolInv
<1> SUFFICES ASSUME Tool!Init
             PROVE  ToolInv
  OBVIOUS
<1>1. /\ settings = [i \in Ids |-> [role |-> "none", graph |-> FALSE]]
      /\ table = {} /\ loops = {} /\ audit = {} /\ total = 0 /\ failed = 0
      /\ call = [c \in Calls |-> Tool!NoCall] /\ runs = [c \in Calls |-> 0]
  BY DEF Tool!Init
<1>2. ASSUME NEW c \in Calls
      PROVE  CallInv(c)
  <2>1. /\ call[c] = Tool!NoCall /\ runs[c] = 0
        /\ ~Audited(c, "allowed") /\ ~Audited(c, "denied")
    BY <1>1 DEF Audited
  <2>2. /\ call[c].by = "nobody" /\ call[c].pc = "idle" /\ call[c].result = "none"
        /\ call[c].session = NoId /\ call[c].name = OtherName
        /\ call[c] \in CallRecords
    BY <2>1 DEF Tool!NoCall, CallRecords
  <2>3. ~Tool!InGraph(c) /\ ~Tool!UnderWay(c)
    BY <2>2 DEF Tool!InGraph, Tool!By, Tool!UnderWay
  <2> QED
    BY <2>1, <2>2, <2>3 DEF CallInv, Untried
<1>3. CountsInv
  <2>1. \A c \in Calls : call[c].by = "nobody"
    BY <1>1 DEF Tool!NoCall
  <2>2. Counted = {} /\ CountedFailures = {}
    BY <2>1 DEF Counted, CountedFailures
  <2> QED
    BY <1>1, <2>2, FS_EmptySet DEF CountsInv
<1> QED
  BY <1>1, <1>2, <1>3 DEF ToolInv

(* The operator of an instance is that of the module it comes from. *)
LEMMA ToolCardinality == \A S : Tool!Cardinality(S) = Cardinality(S)
BY DEF Tool!Cardinality, Cardinality

(* What the invariant says to a reader of the calls. *)
LEMMA ToolMeans ==
  ToolInv => /\ Tool!TypeOK /\ Tool!AnswersTrue /\ Tool!RunsArePermitted
             /\ Tool!GraphPauses /\ Tool!MetricsCount
<1> SUFFICES ASSUME ToolInv
             PROVE  /\ Tool!TypeOK /\ Tool!AnswersTrue /\ Tool!RunsArePermitted
                    /\ Tool!GraphPauses /\ Tool!MetricsCount
  OBVIOUS
<1>1. \A c \in Calls : CallInv(c)
  BY DEF ToolInv
<1>2. Tool!TypeOK
  BY <1>1 DEF ToolInv, CallInv, CallRecords, Tool!TypeOK
<1>3. Tool!AnswersTrue
  <2>1. ASSUME NEW c \in Calls
        PROVE  /\ runs[c] <= 1
               /\ call[c].pc = "answered" =>
                    runs[c] = IF Audited(c, "denied") THEN 0 ELSE 1
               /\ call[c].pc \in {"unregistered", "interrupted", "not_found"} =>
                    runs[c] = 0
    <3>1. runs[c] \in {0, 1}
      BY <1>1 DEF CallInv
    <3>2. call[c].pc = "answered" => runs[c] = IF Audited(c, "denied") THEN 0 ELSE 1
      BY <1>1 DEF CallInv
    <3>3. call[c].pc \in {"unregistered", "interrupted", "not_found"} => runs[c] = 0
      BY <1>1 DEF CallInv, Untried
    <3> QED
      BY <3>1, <3>2, <3>3
  <2> QED
    BY <2>1 DEF Audited, Tool!AnswersTrue, Tool!At
<1>4. Tool!RunsArePermitted
  BY <1>1 DEF CallInv, Audited, Tool!RunsArePermitted
<1>5. Tool!GraphPauses
  BY <1>1 DEF CallInv, Tool!GraphPauses
<1>6. Tool!MetricsCount
  <2> DEFINE settled == {c \in Tool!ProviderCalls : Tool!At(c, "answered")}
             counting == {c \in Tool!ProviderCalls : Tool!At(c, "count_failure")}
  <2>1. Counted = settled \cup counting
    BY DEF Counted, Tool!ProviderCalls, Tool!By, Tool!At
  <2>2. CountedFailures = {c \in settled : call[c].result = "error"}
    BY DEF CountedFailures, Counted, Tool!ProviderCalls, Tool!By, Tool!At
  <2> HIDE DEF settled, counting
  <2>3. /\ total = Tool!Cardinality(settled \cup counting)
        /\ failed = Tool!Cardinality({c \in settled : call[c].result = "error"})
    BY <2>1, <2>2, ToolCardinality DEF ToolInv, CountsInv
  <2> QED
    BY <2>3 DEF Tool!MetricsCount, settled, counting
<1> QED
  BY <1>2, <1>3, <1>4, <1>5, <1>6

(* A step that runs a tool is that of a call which is under way. *)
LEMMA RunsUnderWay ==
  ASSUME ToolInv, [Tool!Next]_(Tool!vars), NEW c \in Calls, runs'[c] > runs[c]
  PROVE  IF Tool!By(c, "client") THEN call[c].session \in table \/ c \in tool_late
         ELSE call[c].session \in loops
<1>1. CallInv(c) /\ runs[c] \in {0, 1} /\ DOMAIN runs = Calls
  BY DEF ToolInv, CallInv
<1>2. runs' # runs
  BY <1>1
<1>3. PICK d \in Calls : Tool!Run(d)
  BY <1>2 DEF Tool!Next, Tool!vars, Tool!Create, Tool!End, Tool!Abort, Tool!Step,
     Tool!Lookup, Tool!Dispatch, Tool!Resolve, Tool!Find, Tool!Check, Tool!Return,
     Tool!Answer, Tool!Count, Tool!CountFailure, Tool!GraphFails
<1>4. runs' = [runs EXCEPT ![d] = @ + 1] /\ call[d].pc = "run"
  BY <1>3 DEF Tool!Run, Tool!At
<1>5. c = d
  BY <1>1, <1>4
<1>6. Tool!UnderWay(c)
  BY <1>4, <1>5 DEF Tool!UnderWay, Tool!Finals
<1> QED
  BY <1>1, <1>6 DEF CallInv, Tool!By

(* A result means that the tool ran once and a refusal that it did not; a  *)
(* tool runs only if the role of its session permits it and never in the   *)
(* graph of a supervised session; the metrics count the provider's calls;  *)
(* and no call that begins after its session has ended runs its tool.      *)
THEOREM ToolsAnswer == RequestsSpec => ToolsAnswerable
<1>1. Tool!Spec => []ToolInv
  BY ToolStart, ToolNext, PTL DEF Tool!Spec
<1>2. ToolInv => (part = "tools" =>
         /\ Tool!TypeOK /\ Tool!AnswersTrue /\ Tool!RunsArePermitted
         /\ Tool!GraphPauses /\ Tool!MetricsCount)
  BY ToolMeans
<1>3. ToolInv /\ [Tool!Next]_(Tool!vars) =>
        [\A c \in Calls : runs'[c] > runs[c] =>
           IF Tool!By(c, "client") THEN call[c].session \in table \/ c \in tool_late
           ELSE call[c].session \in loops]_(Tool!vars)
  BY RunsUnderWay
<1>4. RequestsSpec => Tool!Spec
  BY RequestsRun
<1> QED
  BY <1>1, <1>2, <1>3, <1>4, PTL DEF ToolsAnswerable, Tool!EndedRunsNothingNew,
     Tool!Spec

----------------------------------------------------------------------------
(* SessionTurns *)

(* t is s with x put in at the place k. *)
PutIn(s, t, k, x) ==
  /\ k \in 1 .. Len(s) + 1
  /\ DOMAIN t = 1 .. Len(s) + 1
  /\ \A i \in 1 .. Len(s) + 1 :
       t[i] = IF i < k THEN s[i] ELSE IF i = k THEN x ELSE s[i - 1]

(* Sequences over a set, whatever the set. *)
LEMMA SeqGrows ==
  ASSUME NEW X, NEW s \in Seq(X)
  PROVE  /\ \A x \in X : Append(s, x) \in Seq(X)
         /\ \A t \in Seq(X) : s \o t \in Seq(X)
         /\ Len(s) \in Nat /\ DOMAIN s = 1 .. Len(s)
         /\ \A i \in DOMAIN s : s[i] \in X
  OBVIOUS

(* A sequence over a set is one over a larger set. *)
LEMMA SeqWidens ==
  ASSUME NEW X, NEW Y, \A x \in X : x \in Y, NEW s \in Seq(X)
  PROVE  s \in Seq(Y)
<1>1. s \in [1 .. Len(s) -> X] /\ Len(s) \in Nat
  OBVIOUS
<1>2. s \in [1 .. Len(s) -> Y]
  BY <1>1
<1> QED
  BY <1>1, <1>2

(* Two sequences, one after the other. *)
LEMMA SaidOf ==
  ASSUME NEW X, NEW Y, NEW s \in Seq(X), NEW t \in Seq(Y)
  PROVE  /\ Len(s) \in Nat /\ Len(t) \in Nat
         /\ DOMAIN s = 1 .. Len(s) /\ DOMAIN t = 1 .. Len(t)
         /\ Len(s \o t) = Len(s) + Len(t)
         /\ DOMAIN (s \o t) = 1 .. Len(s) + Len(t)
         /\ \A i \in 1 .. Len(s) + Len(t) :
              (s \o t)[i] = IF i <= Len(s) THEN s[i] ELSE t[i - Len(s)]
<1>1. s \in Seq(X \cup Y) /\ t \in Seq(X \cup Y)
  BY SeqWidens
<1> QED
  BY <1>1

(* Adding nothing changes nothing. *)
LEMMA SeqEmpty ==
  ASSUME NEW X, NEW s \in Seq(X)
  PROVE  s \o <<>> = s
  OBVIOUS

(* One element after another. *)
LEMMA AppendTwo ==
  ASSUME NEW x, NEW y
  PROVE  Append(<<x>>, y) = <<x, y>>
<1> DEFINE s == Append(<<x>>, y)
           t == <<x, y>>
<1>1. <<x>> \in Seq({x, y})
  OBVIOUS
<1>2. s \in Seq({x, y}) /\ Len(s) = 2 /\ s[1] = x /\ s[2] = y
  BY <1>1
<1>3. t \in Seq({x, y}) /\ Len(t) = 2 /\ t[1] = x /\ t[2] = y
  OBVIOUS
<1> HIDE DEF s, t
<1>4. \A i \in 1 .. 2 : s[i] = t[i]
  BY <1>2, <1>3
<1>5. s = t
  BY <1>2, <1>3, <1>4
<1> QED
  BY <1>5 DEF s, t

(* What is said is the conversation, then the buffer. *)
LEMMA SaidAt ==
  ASSUME Turns!TypesInv
  PROVE  /\ Turns!Said \in Seq(Turns!Items)
         /\ Len(Turns!Said) = Len(conversation) + Len(buffer)
         /\ DOMAIN Turns!Said = 1 .. Len(conversation) + Len(buffer)
         /\ DOMAIN conversation = 1 .. Len(conversation)
         /\ DOMAIN buffer = 1 .. Len(buffer)
         /\ Len(conversation) \in Nat /\ Len(buffer) \in Nat
         /\ buffer \in Seq(Turns!Items)
         /\ \A i \in 1 .. Len(conversation) : Turns!Said[i] = conversation[i]
         /\ \A i \in 1 .. Len(buffer) :
              Turns!Said[Len(conversation) + i] = buffer[i]
         /\ \A i \in 1 .. Len(conversation) + Len(buffer) :
              Turns!Said[i] = IF i <= Len(conversation) THEN conversation[i]
                              ELSE buffer[i - Len(conversation)]
<1>1. buffer \in Seq(Turns!Items)
  <2> DEFINE Audio == [type : {"audio"}, conn : Conns, n : Nat]
  <2>1. \A x \in Audio : x \in Turns!Items
    BY DEF Turns!Items
  <2>2. buffer \in Seq(Audio)
    BY DEF Turns!TypesInv
  <2> HIDE DEF Audio
  <2> QED
    BY <2>1, <2>2, SeqWidens
<1>2. conversation \in Seq(Turns!Items)
  BY DEF Turns!TypesInv
<1> DEFINE X == Turns!Items
<1>3. conversation \in Seq(X) /\ buffer \in Seq(X)
  BY <1>1, <1>2
<1> HIDE DEF X
<1>4. /\ conversation \o buffer \in Seq(X)
      /\ Len(conversation \o buffer) = Len(conversation) + Len(buffer)
      /\ DOMAIN (conversation \o buffer) = 1 .. Len(conversation) + Len(buffer)
      /\ DOMAIN conversation = 1 .. Len(conversation)
      /\ DOMAIN buffer = 1 .. Len(buffer)
      /\ Len(conversation) \in Nat /\ Len(buffer) \in Nat
      /\ \A i \in 1 .. Len(conversation) + Len(buffer) :
           (conversation \o buffer)[i] = IF i <= Len(conversation)
                                         THEN conversation[i]
                              ELSE buffer[i - Len(conversation)]
  BY <1>3
<1>5. /\ \A i \in 1 .. Len(conversation) : (conversation \o buffer)[i] = conversation[i]
      /\ \A i \in 1 .. Len(buffer) :
           (conversation \o buffer)[Len(conversation) + i] = buffer[i]
  BY <1>4
<1> QED
  BY <1>1, <1>4, <1>5 DEF Turns!Said, X

(* The same after a step. *)
LEMMA SaidAtNext ==
  ASSUME Turns!TypesInv'
  PROVE  /\ Len(conversation') \in Nat /\ Len(buffer') \in Nat
         /\ DOMAIN Turns!Said' = 1 .. Len(conversation') + Len(buffer')
         /\ DOMAIN conversation' = 1 .. Len(conversation')
         /\ DOMAIN buffer' = 1 .. Len(buffer')
         /\ \A i \in 1 .. Len(conversation') + Len(buffer') :
              Turns!Said'[i] = IF i <= Len(conversation') THEN conversation'[i]
                               ELSE buffer'[i - Len(conversation')]
<1>1. /\ conversation' \in Seq(Turns!Items)
      /\ buffer' \in Seq([type : {"audio"}, conn : Conns, n : Nat])
  BY DEF Turns!TypesInv
<1> DEFINE X == Turns!Items
           Y == [type : {"audio"}, conn : Conns, n : Nat]
<1>2. conversation' \in Seq(X) /\ buffer' \in Seq(Y)
  BY <1>1
<1> HIDE DEF X, Y
<1> QED
  BY <1>2, SaidOf DEF Turns!Said

(* What a connection says is an item. *)
LEMMA ItemTypes ==
  ASSUME Turns!TypesInv, NEW c \in Conns
  PROVE  /\ Turns!Type(c) \in {"audio", "commit", "response", "interrupt",
                              "terminate", "prompt"}
         /\ Turns!Type(c) = "audio" =>
              Turns!Item(c) \in [type : {"audio"}, conn : Conns, n : Nat]
         /\ Turns!Type(c) \notin {"commit", "terminate"} =>
              Turns!Item(c) \in Turns!Items
         /\ [Turns!Item(c) EXCEPT !.type = "response"]
              = [type |-> "response", conn |-> c, n |-> Turns!Nth(c)]
         /\ [Turns!Item(c) EXCEPT !.type = "response"] \in Turns!Items
         /\ Turns!Item(c).conn = c /\ Turns!Item(c).n = Turns!Nth(c)
         /\ Turns!Item(c).type = Turns!Type(c)
         /\ Turns!Nth(c) \in Nat
<1>1. client[c].cmd \in Turns!Commands /\ client[c].n \in Nat
  BY DEF Turns!TypesInv
<1>2. Turns!Type(c) \in {"audio", "commit", "response", "interrupt", "terminate",
                         "prompt"}
  BY <1>1 DEF Turns!Commands, Turns!Type
<1>3. Turns!Item(c) = [type |-> Turns!Type(c), conn |-> c, n |-> Turns!Nth(c)]
  BY DEF Turns!Item
<1>4. [Turns!Item(c) EXCEPT !.type = "response"]
        = [type |-> "response", conn |-> c, n |-> Turns!Nth(c)]
  BY <1>3
<1> QED
  BY <1>1, <1>2, <1>3, <1>4 DEF Turns!Items, Turns!Nth

(* What is said and answered keeps its type, whatever is added to it. *)
LEMMA TurnsGrow ==
  ASSUME Turns!TypesInv, NEW c \in Conns
  PROVE  /\ \A x \in Turns!Items : Append(conversation, x) \in Seq(Turns!Items)
         /\ conversation \o buffer \in Seq(Turns!Items)
         /\ \A x \in [type : {"audio"}, conn : Conns, n : Nat] :
              Append(buffer, x) \in Seq([type : {"audio"}, conn : Conns, n : Nat])
         /\ \A x \in Turns!Codes \cup {"tool_result"} :
              [answers EXCEPT ![c] = Append(@, x)]
                \in [Conns -> Seq(Turns!Codes \cup {"tool_result"})]
<1> DEFINE X == Turns!Items
           Y == [type : {"audio"}, conn : Conns, n : Nat]
           Z == Turns!Codes \cup {"tool_result"}
<1>1. /\ conversation \in Seq(X) /\ buffer \in Seq(Y)
      /\ answers \in [Conns -> Seq(Z)]
  BY DEF Turns!TypesInv
<1>2. conversation \o buffer \in Seq(X)
  BY SaidAt DEF Turns!Said
<1> HIDE DEF X, Y, Z
<1>3. \A x \in X : Append(conversation, x) \in Seq(X)
  BY <1>1, SeqGrows
<1>4. \A x \in Y : Append(buffer, x) \in Seq(Y)
  BY <1>1, SeqGrows
<1>5. \A x \in Z : [answers EXCEPT ![c] = Append(@, x)] \in [Conns -> Seq(Z)]
  BY <1>1, SeqGrows
<1> QED
  BY <1>2, <1>3, <1>4, <1>5 DEF X, Y, Z

(* The types, after a step. *)
LEMMA TurnTypesNext ==
  ASSUME Turns!TypesInv, \A c \in Conns : Turns!StepInv(c),
         [Turns!Next]_(Turns!vars)
  PROVE  Turns!TypesInv'
<1> DEFINE Clients == [Conns -> [pc : Turns!Places, n : Nat, late : BOOLEAN,
                                 cmd : Turns!Commands]]
           X == Seq(Turns!Items)
           Y == Seq([type : {"audio"}, conn : Conns, n : Nat])
           Z == [Conns -> Seq(Turns!Codes \cup {"tool_result"})]
<1>1. CASE UNCHANGED Turns!vars
  BY <1>1 DEF Turns!vars, Turns!TypesInv
<1>2. /\ owned \in BOOLEAN /\ runtime \in {"listed", "removed", "closed"}
      /\ cached \subseteq Conns
      /\ client \in Clients /\ answers \in Z /\ conversation \in X /\ buffer \in Y
  BY DEF Turns!TypesInv
<1>3. \A c \in Conns : \A place \in Turns!Places :
        [client EXCEPT ![c].pc = place] \in Clients
  BY <1>2
<1>4. \A c \in Conns : \A code \in Turns!Codes \cup {"tool_result"} :
        [answers EXCEPT ![c] = Append(@, code)] \in Z
  BY TurnsGrow
<1>5. \A c \in Conns : \A cmd \in Turns!Commands :
        [client EXCEPT ![c] = [pc |-> "check", n |-> @.n + 1, cmd |-> cmd,
                               late |-> runtime # "listed"]] \in Clients
  BY <1>2 DEF Turns!Places
<1>6. \A c \in Conns : [answers EXCEPT ![c] = <<>>] \in Z
  BY <1>2
<1>7. conversation \o buffer \in X /\ <<>> \in Y
  BY SaidAt DEF Turns!Said
<1>8. \A c \in Conns :
        /\ Turns!Type(c) = "audio" => Append(buffer, Turns!Item(c)) \in Y
        /\ Turns!Type(c) \notin {"commit", "terminate"} =>
             Append(conversation, Turns!Item(c)) \in X
        /\ Append(conversation, [Turns!Item(c) EXCEPT !.type = "response"]) \in X
  BY TurnsGrow, ItemTypes
<1>9. Turns!TypesInv' <=>
         /\ owned' \in BOOLEAN /\ runtime' \in {"listed", "removed", "closed"}
         /\ cached' \subseteq Conns
         /\ client' \in Clients /\ answers' \in Z /\ conversation' \in X
         /\ buffer' \in Y
  BY DEF Turns!TypesInv
<1> HIDE DEF Clients, X, Y, Z
<1> USE DEF Turns!Goes, Turns!Answer, Turns!At, Turns!Codes, Turns!Places
<1>10. ASSUME NEW c \in Conns, NEW cmd \in Turns!Commands, Turns!Begin(c, cmd)
       PROVE  Turns!TypesInv'
  BY <1>2, <1>5, <1>6, <1>9, <1>10 DEF Turns!Begin
<1>11. ASSUME NEW c \in Conns, Turns!Check(c) PROVE Turns!TypesInv'
  BY <1>2, <1>3, <1>4, <1>9, <1>11 DEF Turns!Check
<1>12. ASSUME NEW c \in Conns, Turns!Tool(c) PROVE Turns!TypesInv'
  BY <1>2, <1>3, <1>4, <1>9, <1>12 DEF Turns!Tool
<1>13. ASSUME NEW c \in Conns, Turns!LookUp(c) PROVE Turns!TypesInv'
  BY <1>2, <1>3, <1>4, <1>9, <1>13 DEF Turns!LookUp
<1>14. ASSUME NEW c \in Conns, Turns!Send(c) PROVE Turns!TypesInv'
  <2>1. conversation' \in X /\ buffer' \in Y
    <3>1. Turns!Type(c) # "terminate"
      BY <1>14 DEF Turns!Send, Turns!StepInv
    <3> QED
      BY <1>2, <1>7, <1>8, <1>14, <3>1, ItemTypes DEF Turns!Send, Turns!Take
  <2>2. client' \in Clients /\ answers' \in Z
    BY <1>2, <1>3, <1>4, <1>14 DEF Turns!Send
  <2> QED
    BY <1>2, <1>9, <1>14, <2>1, <2>2 DEF Turns!Send
<1>15. ASSUME NEW c \in Conns, Turns!LookUpAgain(c) PROVE Turns!TypesInv'
  BY <1>2, <1>3, <1>4, <1>9, <1>15 DEF Turns!LookUpAgain
<1>16. ASSUME NEW c \in Conns, Turns!Respond(c) PROVE Turns!TypesInv'
  BY <1>2, <1>3, <1>4, <1>8, <1>9, <1>16 DEF Turns!Respond
<1>17. ASSUME NEW c \in Conns, Turns!Disown(c) PROVE Turns!TypesInv'
  BY <1>2, <1>3, <1>9, <1>17 DEF Turns!Disown
<1>18. ASSUME NEW c \in Conns, Turns!TakeOut(c) PROVE Turns!TypesInv'
  BY <1>2, <1>3, <1>4, <1>9, <1>18 DEF Turns!TakeOut
<1>19. ASSUME NEW c \in Conns, Turns!CloseRuntime(c) PROVE Turns!TypesInv'
  BY <1>2, <1>3, <1>4, <1>9, <1>19 DEF Turns!CloseRuntime
<1> QED
  BY <1>1, <1>10, <1>11, <1>12, <1>13, <1>14, <1>15, <1>16, <1>17, <1>18, <1>19
  DEF Turns!Next, Turns!Step

(* An item that is new, and last if it is audio, disturbs nothing. *)
LEMMA SaidNext ==
  ASSUME Turns!TypesInv, Turns!TypesInv', Turns!SaidInv,
         \A c \in Conns : client[c].n <= client'[c].n,
         \/ Turns!Said' = Turns!Said
         \/ \E k \in Nat, x \in Turns!Items :
              /\ PutIn(Turns!Said, Turns!Said', k, x)
              /\ x.n = client[x.conn].n
              /\ \A i \in DOMAIN Turns!Said : Turns!Said[i] # x
              /\ x.type = "audio" =>
                   /\ k = Len(Turns!Said) + 1
                   /\ \A i \in DOMAIN Turns!Said :
                        ~(Turns!Said[i].conn = x.conn /\ Turns!Said[i].n = x.n)
  PROVE  Turns!SaidInv'
<1> DEFINE S == Turns!Said
           T == Turns!Said'
<1>1. /\ S \in Seq(Turns!Items) /\ DOMAIN S = 1 .. Len(S) /\ Len(S) \in Nat
      /\ \A i \in DOMAIN S : S[i] \in Turns!Items
      /\ \A i \in DOMAIN S : S[i].conn \in Conns /\ S[i].n \in Nat
  <2>1. S \in Seq(Turns!Items)
    BY SaidAt
  <2>2. \A i \in DOMAIN S : S[i] \in Turns!Items
    BY <2>1, SeqGrows
  <2>3. \A y \in Turns!Items : y.conn \in Conns /\ y.n \in Nat
    BY DEF Turns!Items
  <2> QED
    BY <2>1, <2>2, <2>3, SeqGrows
<1>2. \A c \in Conns : client[c].n \in Nat /\ client'[c].n \in Nat
  BY DEF Turns!TypesInv
<1>3. CASE T = S
  BY <1>1, <1>2, <1>3 DEF Turns!SaidInv, Turns!Nth
<1>4. CASE T # S
  <2>1. PICK k \in Nat, x \in Turns!Items :
              /\ PutIn(S, T, k, x)
              /\ x.n = client[x.conn].n
              /\ \A i \in DOMAIN S : S[i] # x
              /\ x.type = "audio" =>
                   /\ k = Len(S) + 1
                   /\ \A i \in DOMAIN S :
                        ~(S[i].conn = x.conn /\ S[i].n = x.n)
    BY <1>4
  <2>2. x.conn \in Conns /\ x.n \in Nat
    BY DEF Turns!Items
  <2> DEFINE Back(i) == IF i < k THEN i ELSE i - 1
  <2>3. /\ DOMAIN T = 1 .. Len(S) + 1 /\ k \in DOMAIN T /\ T[k] = x
        /\ \A i \in DOMAIN T : i # k => Back(i) \in DOMAIN S /\ T[i] = S[Back(i)]
    BY <1>1, <2>1 DEF PutIn
  <2>4. \A i, j \in DOMAIN T : i # k /\ j # k =>
          /\ Back(i) = Back(j) => i = j
          /\ i < j => Back(i) < Back(j)
    BY <1>1, <2>3
  <2> HIDE DEF Back, S, T
  <2>5. /\ \A i, j \in DOMAIN S : S[i] = S[j] => i = j
        /\ \A i \in DOMAIN S : S[i].n <= client[S[i].conn].n
        /\ \A i, j \in DOMAIN S :
             /\ i < j /\ S[i].conn = S[j].conn
             /\ S[i].type = "audio" /\ S[j].type = "audio"
             => S[i].n < S[j].n
    BY DEF Turns!SaidInv, Turns!Nth, S
  <2>6. ASSUME NEW i \in DOMAIN T, NEW j \in DOMAIN T, T[i] = T[j] PROVE i = j
    BY <2>1, <2>3, <2>4, <2>5, <2>6
  <2>7. ASSUME NEW i \in DOMAIN T PROVE T[i].n <= client'[T[i].conn].n
    <3>1. CASE i = k
      BY <1>2, <2>1, <2>2, <2>3, <3>1
    <3>2. CASE i # k
      BY <1>1, <1>2, <2>3, <2>5, <3>2
    <3> QED
      BY <3>1, <3>2
  <2>8. ASSUME NEW i \in DOMAIN T, NEW j \in DOMAIN T,
               i < j, T[i].conn = T[j].conn,
               T[i].type = "audio", T[j].type = "audio"
        PROVE  T[i].n < T[j].n
    <3>1. CASE i # k /\ j # k
      BY <2>3, <2>4, <2>5, <2>8, <3>1
    <3>2. CASE j = k
      <4>1. i # k /\ T[i] = S[Back(i)] /\ Back(i) \in DOMAIN S
        BY <2>3, <2>8, <3>2
      <4>2. T[i].n <= client[x.conn].n /\ T[i].n # x.n
        BY <2>1, <2>3, <2>5, <2>8, <3>2, <4>1
      <4>3. T[i].n \in Nat /\ x.n = client[x.conn].n /\ T[j] = x
        BY <1>1, <2>1, <2>3, <3>2, <4>1
      <4> QED
        BY <2>2, <4>2, <4>3
    <3>3. CASE i = k
      BY <1>1, <2>1, <2>3, <2>8, <3>3 DEF S
    <3> QED
      BY <3>1, <3>2, <3>3
  <2> QED
    BY <2>6, <2>7, <2>8 DEF Turns!SaidInv, Turns!Nth, T
<1> QED
  BY <1>3, <1>4

(* An item at the end of the conversation is put in before the buffer. *)
LEMMA AppendPutsIn ==
  ASSUME Turns!TypesInv, Turns!TypesInv', NEW x \in Turns!Items,
         conversation' = Append(conversation, x), buffer' = buffer
  PROVE  \E k \in Nat : PutIn(Turns!Said, Turns!Said', k, x)
<1> DEFINE L == Len(conversation)
           M == Len(buffer)
           S == Turns!Said
           T == Turns!Said'
<1>1. /\ L \in Nat /\ M \in Nat /\ Len(S) = L + M
      /\ \A i \in 1 .. L + M :
           S[i] = IF i <= L THEN conversation[i] ELSE buffer[i - L]
  BY SaidAt
<1>2. /\ DOMAIN T = 1 .. Len(conversation') + Len(buffer')
      /\ \A i \in 1 .. Len(conversation') + Len(buffer') :
           T[i] = IF i <= Len(conversation') THEN conversation'[i]
                  ELSE buffer'[i - Len(conversation')]
  BY SaidAtNext
<1>3. conversation \in Seq(Turns!Items)
  BY DEF Turns!TypesInv
<1>4. /\ Len(conversation') = L + 1 /\ Len(buffer') = M
      /\ \A i \in 1 .. L + 1 :
           conversation'[i] = IF i <= L THEN conversation[i] ELSE x
  BY <1>3
<1> HIDE DEF L, M, S, T
<1>5. /\ DOMAIN T = 1 .. L + M + 1
      /\ \A i \in 1 .. L + M + 1 :
           T[i] = IF i <= L + 1 THEN conversation'[i] ELSE buffer[i - (L + 1)]
  BY <1>1, <1>2, <1>4
<1>6. PutIn(S, T, L + 1, x)
  <2>1. \A i \in 1 .. L + M + 1 :
          T[i] = IF i < L + 1 THEN S[i] ELSE IF i = L + 1 THEN x ELSE S[i - 1]
    <3> SUFFICES ASSUME NEW i \in 1 .. L + M + 1
                 PROVE  T[i] = IF i < L + 1 THEN S[i]
                               ELSE IF i = L + 1 THEN x ELSE S[i - 1]
      OBVIOUS
    <3>1. CASE i <= L
      BY <1>1, <1>4, <1>5, <3>1
    <3>2. CASE i = L + 1
      BY <1>1, <1>4, <1>5, <3>2
    <3>3. CASE i > L + 1
      <4>1. T[i] = buffer[i - (L + 1)]
        BY <1>1, <1>5, <3>3
      <4>2. /\ i - 1 \in 1 .. L + M /\ ~(i - 1 <= L)
            /\ (i - 1) - L = i - (L + 1)
        BY <1>1, <3>3
      <4>3. S[i - 1] = buffer[(i - 1) - L]
        BY <1>1, <4>2
      <4> QED
        BY <1>1, <3>3, <4>1, <4>2, <4>3
    <3> QED
      BY <1>1, <3>1, <3>2, <3>3
  <2> QED
    BY <1>1, <1>5, <2>1 DEF PutIn
<1> QED
  BY <1>1, <1>6 DEF S, T

(* What a step of a connection adds is one item of its last command, or    *)
(* nothing.                                                                *)
LEMMA TakeAdds ==
  ASSUME Turns!TypesInv, Turns!TypesInv', NEW c \in Conns, Turns!Take(c),
         Turns!Type(c) # "terminate"
  PROVE  /\ Turns!Type(c) = "commit" => Turns!Said' = Turns!Said
         /\ Turns!Type(c) # "commit" =>
              \E k \in Nat :
                /\ PutIn(Turns!Said, Turns!Said', k, Turns!Item(c))
                /\ Turns!Type(c) = "audio" => k = Len(Turns!Said) + 1
<1> DEFINE L == Len(conversation)
           M == Len(buffer)
           S == Turns!Said
           T == Turns!Said'
<1>1. /\ L \in Nat /\ M \in Nat /\ Len(S) = L + M
      /\ DOMAIN S = 1 .. L + M
      /\ DOMAIN conversation = 1 .. L /\ DOMAIN buffer = 1 .. M
      /\ \A i \in 1 .. L + M :
           S[i] = IF i <= L THEN conversation[i] ELSE buffer[i - L]
  BY SaidAt
<1>2. /\ Len(conversation') \in Nat /\ Len(buffer') \in Nat
      /\ DOMAIN T = 1 .. Len(conversation') + Len(buffer')
      /\ \A i \in 1 .. Len(conversation') + Len(buffer') :
           T[i] = IF i <= Len(conversation') THEN conversation'[i]
                  ELSE buffer'[i - Len(conversation')]
  BY SaidAtNext
<1>3. /\ conversation \in Seq(Turns!Items) /\ buffer \in Seq(Turns!Items)
  BY SaidAt DEF Turns!TypesInv
<1>4. CASE Turns!Type(c) = "audio"
  <2>1. conversation' = conversation /\ buffer' = Append(buffer, Turns!Item(c))
    BY <1>4 DEF Turns!Take
  <2>2. /\ Len(buffer') = M + 1
        /\ \A i \in 1 .. M + 1 :
             buffer'[i] = IF i <= M THEN buffer[i] ELSE Turns!Item(c)
    BY <1>1, <1>3, <2>1
  <2> HIDE DEF L, M, S, T
  <2>3. PutIn(S, T, L + M + 1, Turns!Item(c))
    <3>1. /\ DOMAIN T = 1 .. L + M + 1
          /\ \A i \in 1 .. L + M + 1 :
               T[i] = IF i <= L THEN conversation[i] ELSE buffer'[i - L]
      <4>1. Len(conversation') = L /\ Len(buffer') = M + 1
        BY <2>1, <2>2 DEF L
      <4>2. L + (M + 1) = L + M + 1
        BY <1>1
      <4>3. conversation' = conversation
        BY <2>1
      <4> QED
        BY <1>2, <4>1, <4>2, <4>3
    <3>2. \A i \in 1 .. L + M : T[i] = S[i]
      <4> SUFFICES ASSUME NEW i \in 1 .. L + M
                   PROVE  T[i] = S[i]
        OBVIOUS
      <4>1. CASE i <= L
        BY <1>1, <3>1, <4>1
      <4>2. CASE i > L
        <5>1. i - L \in 1 .. M /\ ~(i <= L)
          BY <1>1, <4>2
        <5> QED
          BY <1>1, <2>2, <3>1, <5>1
      <4> QED
        BY <1>1, <4>1, <4>2
    <3>3. T[L + M + 1] = Turns!Item(c)
      <4>1. (L + M + 1) - L = M + 1 /\ ~(L + M + 1 <= L)
        BY <1>1
      <4> QED
        BY <1>1, <2>2, <3>1, <4>1
    <3> QED
      BY <1>1, <3>1, <3>2, <3>3 DEF PutIn
  <2> QED
    BY <1>1, <1>4, <2>3 DEF S, T
<1>5. CASE Turns!Type(c) = "commit"
  <2>1. conversation' = conversation \o buffer /\ buffer' = <<>>
    BY <1>5 DEF Turns!Take
  <2>2. conversation' \in Seq(Turns!Items)
    BY DEF Turns!TypesInv
  <2>3. T = conversation'
    BY <2>1, <2>2, SeqEmpty DEF Turns!Said
  <2> QED
    BY <1>5, <2>1, <2>3 DEF Turns!Said
<1>6. CASE Turns!Type(c) \in {"response", "interrupt", "prompt"}
  <2>1. buffer' = buffer /\ conversation' = Append(conversation, Turns!Item(c))
    BY <1>6 DEF Turns!Take
  <2> QED
    BY <1>6, <2>1, AppendPutsIn, ItemTypes
<1> QED
  BY <1>4, <1>5, <1>6, ItemTypes

(* Whatever a step puts in comes from the last command of its connection.  *)
LEMMA OthersStay ==
  ASSUME Turns!TypesInv, NEW k \in Nat, NEW x, PutIn(Turns!Said, Turns!Said', k, x)
  PROVE  /\ k \in DOMAIN Turns!Said' /\ Turns!Said'[k] = x
         /\ \A i \in DOMAIN Turns!Said' :
              \/ Turns!Said'[i] = x
              \/ \E j \in DOMAIN Turns!Said : Turns!Said'[i] = Turns!Said[j]
         /\ \A j \in DOMAIN Turns!Said :
              \E i \in DOMAIN Turns!Said' : Turns!Said'[i] = Turns!Said[j]
<1> DEFINE S == Turns!Said
           T == Turns!Said'
<1>1. DOMAIN S = 1 .. Len(S) /\ Len(S) \in Nat
  BY SaidAt
<1>2. /\ k \in 1 .. Len(S) + 1 /\ DOMAIN T = 1 .. Len(S) + 1
      /\ \A i \in 1 .. Len(S) + 1 :
           T[i] = IF i < k THEN S[i] ELSE IF i = k THEN x ELSE S[i - 1]
  BY DEF PutIn
<1> HIDE DEF S, T
<1>3. k \in DOMAIN T /\ T[k] = x
  BY <1>1, <1>2
<1>4. ASSUME NEW i \in DOMAIN T
      PROVE  T[i] = x \/ \E j \in DOMAIN S : T[i] = S[j]
  <2>1. CASE i < k
    BY <1>1, <1>2, <2>1
  <2>2. CASE i = k
    BY <1>2, <2>2
  <2>3. CASE i > k
    <3>1. i - 1 \in DOMAIN S /\ T[i] = S[i - 1]
      BY <1>1, <1>2, <2>3
    <3> QED
      BY <3>1
  <2> QED
    BY <1>1, <1>2, <2>1, <2>2, <2>3
<1>5. ASSUME NEW j \in DOMAIN S
      PROVE  \E i \in DOMAIN T : T[i] = S[j]
  <2>1. CASE j < k
    BY <1>1, <1>2, <2>1
  <2>2. CASE j >= k
    <3>1. /\ j + 1 \in DOMAIN T /\ ~(j + 1 < k) /\ j + 1 # k /\ (j + 1) - 1 = j
      BY <1>1, <1>2, <2>2
    <3>2. T[j + 1] = S[j]
      BY <1>2, <3>1
    <3> QED
      BY <3>1, <3>2
  <2> QED
    BY <1>1, <1>2, <2>1, <2>2
<1> QED
  BY <1>3, <1>4, <1>5 DEF S, T

----------------------------------------------------------------------------

(* The answer of a command that was not answered before. *)
LEMMA TurnAnswered ==
  ASSUME Turns!TypesInv, NEW c \in Conns, Turns!AnswersInv(c), ~Turns!At(c, "idle"),
         NEW code \in Turns!Codes, Turns!Answer(c, code),
         code = "accepted" => client[c].pc \in {"send", "respond", "close"}
  PROVE  /\ Turns!AnswersInv(c)'
         /\ \A o \in Turns!Codes : Turns!Done(c, o)' => o = code
         /\ client'[c].pc = "idle"
<1>1. /\ client'[c].pc = "idle" /\ client'[c].n = client[c].n
      /\ client'[c].cmd = client[c].cmd
      /\ answers'[c] = Append(answers[c], code)
  BY DEF Turns!TypesInv, Turns!Answer
<1>2. \/ answers[c] = <<>> /\ code # "accepted"
      \/ answers[c] = <<>> /\ ~Turns!MentionsFile(c)
      \/ answers[c] = <<"tool_result">>
  <2>1. client[c].pc \in {"check", "tool", "look_up", "send", "look_up_again",
                         "respond", "disown", "remove", "close"}
    BY DEF Turns!TypesInv, Turns!At, Turns!Places
  <2>2. client[c].pc \in {"check", "tool", "disown", "remove"} => code # "accepted"
    OBVIOUS
  <2>3. client[c].pc = "close" => ~Turns!MentionsFile(c)
    BY DEF Turns!AnswersInv, Turns!MentionsFile
  <2> QED
    BY <2>1, <2>2, <2>3 DEF Turns!AnswersInv
<1>3. \/ answers'[c] = <<code>> /\ (code = "accepted" => ~Turns!MentionsFile(c))
      \/ answers'[c] = <<"tool_result", code>>
  <2>1. Append(<<>>, code) = <<code>>
    OBVIOUS
  <2>2. Append(<<"tool_result">>, code) = <<"tool_result", code>>
    BY AppendTwo
  <2> QED
    BY <1>1, <1>2, <2>1, <2>2
<1>4. /\ Turns!MentionsFile(c)' = Turns!MentionsFile(c)
      /\ Turns!At(c, "idle")' /\ Turns!Nth(c)' = Turns!Nth(c)
  BY <1>1 DEF Turns!MentionsFile, Turns!Type, Turns!At, Turns!Nth
<1>5. <<code>> # <<"tool_result", code>>
  OBVIOUS
<1>6. Turns!AnswersInv(c)'
  BY <1>1, <1>3, <1>4, <1>5 DEF Turns!AnswersInv
<1>7. Turns!Range(answers'[c]) \subseteq {code, "tool_result"}
  BY <1>3 DEF Turns!Range
<1>8. "tool_result" \notin Turns!Codes
  BY DEF Turns!Codes
<1> QED
  BY <1>1, <1>6, <1>7, <1>8 DEF Turns!Done

(* A connection that goes on has no answer yet. *)
LEMMA NotDone ==
  ASSUME NEW c \in Conns, client'[c].pc # "idle"
  PROVE  Turns!DoneInv(c)'
  BY DEF Turns!DoneInv, Turns!Done, Turns!At

(* A step of one connection leaves the others alone. *)
LEMMA OtherTurns ==
  ASSUME Turns!TypesInv, Turns!TypesInv', NEW c, NEW d \in Conns, d # c,
         client'[d] = client[d], answers'[d] = answers[d],
         Turns!StepInv(d), Turns!AnswersInv(d), Turns!DoneInv(d),
         \/ Turns!Said' = Turns!Said
         \/ \E k \in Nat, x \in Turns!Items :
              x.conn = c /\ PutIn(Turns!Said, Turns!Said', k, x),
         \A i \in DOMAIN conversation :
           i \in DOMAIN conversation' /\ conversation'[i] = conversation[i],
         \A i \in DOMAIN buffer' :
           buffer'[i].conn = c \/ \E j \in DOMAIN buffer : buffer'[i] = buffer[j]
  PROVE  Turns!StepInv(d)' /\ Turns!AnswersInv(d)' /\ Turns!DoneInv(d)'
<1> DEFINE S == Turns!Said
           T == Turns!Said'
<1>1. /\ \A i \in DOMAIN T :
           T[i].conn = c \/ \E j \in DOMAIN S : T[i] = S[j]
      /\ \A j \in DOMAIN S : \E i \in DOMAIN T : T[i] = S[j]
  <2>1. CASE T = S
    BY <2>1
  <2>2. CASE T # S
    BY <2>2, OthersStay
  <2> QED
    BY <2>1, <2>2
<1>2. DOMAIN conversation \subseteq Int /\ DOMAIN conversation' \subseteq Int
  BY SaidAt, SaidAtNext
<1>3. /\ Turns!Nth(d)' = Turns!Nth(d) /\ Turns!Type(d)' = Turns!Type(d)
      /\ Turns!Item(d)' = Turns!Item(d) /\ Turns!MentionsFile(d)' = Turns!MentionsFile(d)
      /\ \A place : Turns!At(d, place)' = Turns!At(d, place)
      /\ \A code : Turns!Done(d, code)' = Turns!Done(d, code)
  BY DEF Turns!Nth, Turns!Type, Turns!Item, Turns!MentionsFile, Turns!At, Turns!Done
<1>4. \A i \in DOMAIN T : T[i].conn = d /\ T[i].n = client[d].n =>
        \E j \in DOMAIN S : T[i] = S[j]
  BY <1>1
<1> HIDE DEF S, T
<1>5. Turns!StepInv(d)'
  BY <1>1, <1>3, <1>4 DEF Turns!StepInv, Turns!IsLastOf, Turns!Nth, S, T
<1>6. Turns!AnswersInv(d)'
  BY <1>3 DEF Turns!AnswersInv
<1>7. Turns!DoneInv(d)'
  <2>1. (\A i \in DOMAIN S : ~(S[i].conn = d /\ S[i].n = client[d].n)) =>
        (\A i \in DOMAIN T : ~(T[i].conn = d /\ T[i].n = client[d].n))
    BY <1>4
  <2>2. (\E i \in DOMAIN S : S[i] = Turns!Item(d)) =>
        (\E i \in DOMAIN T : T[i] = Turns!Item(d))
    BY <1>1
  <2>3. (\A i \in DOMAIN buffer : buffer[i].conn # d) =>
        (\A i \in DOMAIN buffer' : buffer'[i].conn # d)
    OBVIOUS
  <2> QED
    BY <1>3, <2>1, <2>2, <2>3 DEF Turns!DoneInv, Turns!IsLastOf, Turns!Nth, S, T
<1> QED
  BY <1>5, <1>6, <1>7

----------------------------------------------------------------------------

(* A step that adds nothing to what is said, and at most answers. *)
LEMMA QuietTurn ==
  ASSUME Turns!SayInv, Turns!TypesInv', NEW c \in Conns,
         conversation' = conversation, buffer' = buffer,
         \A d \in Conns : d # c =>
           client'[d] = client[d] /\ answers'[d] = answers[d],
         client[c].n <= client'[c].n,
         Turns!StepInv(c)', Turns!AnswersInv(c)', Turns!DoneInv(c)'
  PROVE  Turns!SayInv'
<1>1. Turns!Said' = Turns!Said
  BY DEF Turns!Said
<1>2. \A d \in Conns : client[d].n <= client'[d].n
  <2>1. \A d \in Conns : client[d].n \in Nat
    BY DEF Turns!SayInv, Turns!TypesInv
  <2> QED
    BY <2>1
<1>3. Turns!SaidInv'
  BY <1>1, <1>2, SaidNext DEF Turns!SayInv
<1>4. ASSUME NEW d \in Conns
      PROVE  Turns!StepInv(d)' /\ Turns!AnswersInv(d)' /\ Turns!DoneInv(d)'
  <2>1. CASE d = c
    BY <2>1
  <2>2. CASE d # c
    BY <1>1, <2>2, OtherTurns DEF Turns!SayInv
  <2> QED
    BY <2>1, <2>2
<1> QED
  BY <1>3, <1>4 DEF Turns!SayInv

(* A step that only answers, with what is not about the provider unless    *)
(* nothing was sent.                                                       *)
LEMMA AnswerTurn ==
  ASSUME Turns!SayInv, Turns!TypesInv', NEW c \in Conns, ~Turns!At(c, "idle"),
         conversation' = conversation, buffer' = buffer,
         NEW code \in Turns!Codes, Turns!Answer(c, code), code # "accepted",
         code \in {"invalid", "session_not_found", "tool_bridge_failed"} =>
           client[c].pc \in {"check", "tool", "look_up", "send"}
  PROVE  Turns!SayInv'
<1>1. /\ \A d \in Conns : d # c =>
           client'[d] = client[d] /\ answers'[d] = answers[d]
      /\ client'[c].n = client[c].n /\ client[c].n \in Nat
      /\ client'[c].pc = "idle"
  BY DEF Turns!SayInv, Turns!TypesInv, Turns!Answer
<1>2. /\ Turns!AnswersInv(c)'
      /\ \A o \in Turns!Codes : Turns!Done(c, o)' => o = code
  BY TurnAnswered DEF Turns!SayInv
<1>3. Turns!StepInv(c)'
  BY <1>1 DEF Turns!StepInv, Turns!At
<1>4. Turns!DoneInv(c)'
  <2>1. {"invalid", "session_not_found", "tool_bridge_failed", "accepted"}
          \subseteq Turns!Codes
    BY DEF Turns!Codes
  <2>2. ~Turns!Done(c, "accepted")'
    BY <1>2, <2>1
  <2>3. ASSUME \/ Turns!Done(c, "invalid")' \/ Turns!Done(c, "session_not_found")'
               \/ Turns!Done(c, "tool_bridge_failed")'
        PROVE  \A i \in DOMAIN Turns!Said' : ~Turns!IsLastOf(Turns!Said[i], c)'
    <3>1. client[c].pc \in {"check", "tool", "look_up", "send"}
      BY <1>2, <2>1, <2>3
    <3>2. \A i \in DOMAIN Turns!Said : ~Turns!IsLastOf(Turns!Said[i], c)
      BY <3>1 DEF Turns!SayInv, Turns!StepInv
    <3> QED
      BY <1>1, <3>2 DEF Turns!IsLastOf, Turns!Nth, Turns!Said
  <2> QED
    BY <2>2, <2>3 DEF Turns!DoneInv
<1>5. client[c].n <= client'[c].n
  BY <1>1
<1> QED
  BY <1>1, <1>2, <1>3, <1>4, <1>5, QuietTurn

(* A step that only goes on. *)
LEMMA GoingTurn ==
  ASSUME Turns!SayInv, Turns!TypesInv', NEW c \in Conns,
         conversation' = conversation, buffer' = buffer,
         \A d \in Conns : d # c =>
           client'[d] = client[d] /\ answers'[d] = answers[d],
         client'[c].n = client[c].n, client'[c].cmd = client[c].cmd,
         client'[c].pc # "idle",
         \/ /\ client[c].pc \in {"check", "tool", "look_up", "send"}
            /\ client'[c].pc \in {"check", "tool", "look_up", "send"}
            /\ client'[c].pc = "tool" => Turns!MentionsFile(c)
            /\ client'[c].pc \in {"look_up", "send"} => Turns!Type(c) # "terminate"
         \/ /\ client[c].pc \in {"look_up_again", "respond"}
            /\ client'[c].pc \in {"look_up_again", "respond"}
         \/ client'[c].pc \in {"disown", "remove", "close"},
         Turns!AnswersInv(c)'
  PROVE  Turns!SayInv'
<1>1. Turns!StepInv(c)'
  BY DEF Turns!SayInv, Turns!StepInv, Turns!IsLastOf, Turns!Nth, Turns!Said,
     Turns!At, Turns!MentionsFile, Turns!Type, Turns!Item
<1>2. Turns!DoneInv(c)'
  BY NotDone
<1>3. client[c].n <= client'[c].n
  BY DEF Turns!SayInv, Turns!TypesInv
<1> QED
  BY <1>1, <1>2, <1>3, QuietTurn

----------------------------------------------------------------------------

(* What is said, after an item of the last command of a connection.        *)
LEMMA SayingTurn ==
  ASSUME Turns!SayInv, Turns!TypesInv', NEW c \in Conns, NEW x \in Turns!Items,
         x.conn = c, x.n = client[c].n,
         \A d \in Conns : d # c =>
           client'[d] = client[d] /\ answers'[d] = answers[d],
         client'[c].n = client[c].n,
         \A i \in DOMAIN Turns!Said : Turns!Said[i] # x,
         NEW k \in Nat, PutIn(Turns!Said, Turns!Said', k, x),
         x.type = "audio" =>
           /\ k = Len(Turns!Said) + 1
           /\ \A i \in DOMAIN Turns!Said : ~Turns!IsLastOf(Turns!Said[i], c),
         \A i \in DOMAIN conversation :
           i \in DOMAIN conversation' /\ conversation'[i] = conversation[i],
         \A i \in DOMAIN buffer' :
           buffer'[i].conn = c \/ \E j \in DOMAIN buffer : buffer'[i] = buffer[j],
         Turns!StepInv(c)', Turns!AnswersInv(c)', Turns!DoneInv(c)'
  PROVE  Turns!SayInv'
<1>1. \A d \in Conns : client[d].n <= client'[d].n
  <2>1. \A d \in Conns : client[d].n \in Nat
    BY DEF Turns!SayInv, Turns!TypesInv
  <2> QED
    BY <2>1
<1>2. Turns!SaidInv'
  <2>1. x.type = "audio" =>
          \A i \in DOMAIN Turns!Said :
            ~(Turns!Said[i].conn = x.conn /\ Turns!Said[i].n = x.n)
    BY DEF Turns!IsLastOf, Turns!Nth
  <2> QED
    BY <1>1, <2>1, SaidNext DEF Turns!SayInv
<1>3. ASSUME NEW d \in Conns
      PROVE  Turns!StepInv(d)' /\ Turns!AnswersInv(d)' /\ Turns!DoneInv(d)'
  <2>1. CASE d = c
    BY <2>1
  <2>2. CASE d # c
    BY <2>2, OtherTurns DEF Turns!SayInv
  <2> QED
    BY <2>1, <2>2
<1> QED
  BY <1>2, <1>3 DEF Turns!SayInv

(* The conversation only grows, and the buffer holds what it held and what *)
(* the connection adds.                                                    *)
LEMMA TakeGrows ==
  ASSUME Turns!TypesInv, Turns!TypesInv', NEW c \in Conns, Turns!Take(c)
  PROVE  /\ \A i \in DOMAIN conversation :
              i \in DOMAIN conversation' /\ conversation'[i] = conversation[i]
         /\ \A i \in DOMAIN buffer' :
              buffer'[i].conn = c \/ \E j \in DOMAIN buffer : buffer'[i] = buffer[j]
         /\ Turns!Type(c) \notin {"audio", "commit"} =>
              /\ Len(conversation) + 1 \in DOMAIN conversation'
              /\ conversation'[Len(conversation) + 1] = Turns!Item(c)
         /\ Turns!Type(c) = "commit" => buffer' = <<>>
<1> DEFINE X == Turns!Items
<1>1. /\ conversation \in Seq(X) /\ buffer \in Seq(X)
  BY SaidAt DEF Turns!TypesInv
<1>2. Turns!Item(c).conn = c
  BY ItemTypes
<1> HIDE DEF X
<1>3. CASE Turns!Type(c) = "audio"
  BY <1>1, <1>2, <1>3 DEF Turns!Take
<1>4. CASE Turns!Type(c) = "commit"
  BY <1>1, <1>4 DEF Turns!Take
<1>5. CASE Turns!Type(c) \notin {"audio", "commit"}
  BY <1>1, <1>5 DEF Turns!Take
<1> QED
  BY <1>3, <1>4, <1>5

(* A command is sent, and answered or followed by its response.            *)
LEMMA SendTurn ==
  ASSUME Turns!SayInv, Turns!TypesInv', NEW c \in Conns, Turns!At(c, "send"),
         Turns!Take(c),
         \/ /\ Turns!Type(c) = "prompt" /\ client[c].cmd.respond
            /\ Turns!Goes(c, "look_up_again") /\ UNCHANGED answers
         \/ /\ ~(Turns!Type(c) = "prompt" /\ client[c].cmd.respond)
            /\ Turns!Answer(c, "accepted")
         \/ Turns!Answer(c, "failed")
  PROVE  Turns!SayInv'
<1>1. /\ Turns!TypesInv /\ Turns!SaidInv /\ Turns!StepInv(c) /\ Turns!AnswersInv(c)
  BY DEF Turns!SayInv
<1>2. /\ \A d \in Conns : d # c =>
           client'[d] = client[d] /\ answers'[d] = answers[d]
      /\ client'[c].n = client[c].n /\ client'[c].cmd = client[c].cmd
      /\ client[c].n \in Nat
  BY <1>1 DEF Turns!TypesInv, Turns!Answer, Turns!Goes
<1>3. /\ Turns!Nth(c)' = Turns!Nth(c) /\ Turns!Type(c)' = Turns!Type(c)
      /\ Turns!Item(c)' = Turns!Item(c) /\ Turns!MentionsFile(c)' = Turns!MentionsFile(c)
  BY <1>2 DEF Turns!Nth, Turns!Type, Turns!Item, Turns!MentionsFile
<1>4. /\ \A i \in DOMAIN Turns!Said : ~Turns!IsLastOf(Turns!Said[i], c)
      /\ Turns!Type(c) # "terminate"
  BY <1>1 DEF Turns!StepInv, Turns!At
<1>5. Turns!AnswersInv(c)'
  <2>1. CASE Turns!Goes(c, "look_up_again") /\ UNCHANGED answers
    <3>1. client'[c].pc = "look_up_again" /\ answers'[c] = answers[c]
      BY <1>1, <2>1 DEF Turns!Goes, Turns!TypesInv
    <3> QED
      BY <1>1, <1>3, <3>1 DEF Turns!AnswersInv, Turns!At
  <2>2. CASE \E code \in {"accepted", "failed"} : Turns!Answer(c, code)
    BY <1>1, <2>2, TurnAnswered DEF Turns!Codes, Turns!At
  <2> QED
    BY <2>1, <2>2
<1>6. /\ Turns!Item(c).conn = c /\ Turns!Item(c).n = Turns!Nth(c)
      /\ Turns!Item(c).type = Turns!Type(c)
  BY <1>1, ItemTypes
<1>7. \/ Turns!Said' = Turns!Said
      \/ \E k \in Nat : PutIn(Turns!Said, Turns!Said', k, Turns!Item(c))
  BY <1>1, <1>4, TakeAdds
<1>8. \A i \in DOMAIN Turns!Said' : Turns!IsLastOf(Turns!Said[i], c)' =>
        Turns!Said'[i] = Turns!Item(c)
  <2>1. CASE Turns!Said' = Turns!Said
    BY <1>2, <1>4, <2>1 DEF Turns!IsLastOf, Turns!Nth
  <2>2. CASE \E k \in Nat : PutIn(Turns!Said, Turns!Said', k, Turns!Item(c))
    <3>1. \A i \in DOMAIN Turns!Said' :
            \/ Turns!Said'[i] = Turns!Item(c)
            \/ \E j \in DOMAIN Turns!Said : Turns!Said'[i] = Turns!Said[j]
      BY <1>1, <2>2, OthersStay
    <3> QED
      BY <1>2, <1>4, <3>1 DEF Turns!IsLastOf, Turns!Nth
  <2> QED
    BY <1>7, <2>1, <2>2
<1>9. Turns!StepInv(c)'
  <2>1. CASE /\ Turns!Type(c) = "prompt" /\ client[c].cmd.respond
             /\ Turns!Goes(c, "look_up_again")
    <3>1. client'[c].pc = "look_up_again"
      BY <1>1, <2>1 DEF Turns!Goes, Turns!TypesInv
    <3>2. \E i \in DOMAIN conversation' : conversation'[i] = Turns!Item(c)
      BY <1>1, <2>1, TakeGrows
    <3>3. \A i \in DOMAIN Turns!Said' : Turns!IsLastOf(Turns!Said[i], c)' =>
            Turns!Said'[i].type = "prompt"
      BY <1>6, <1>8, <2>1
    <3> QED
      BY <1>2, <1>3, <2>1, <3>1, <3>2, <3>3 DEF Turns!StepInv, Turns!At
  <2>2. CASE \E code \in {"accepted", "failed"} : Turns!Answer(c, code)
    <3>1. client'[c].pc = "idle"
      BY <1>1, <2>2 DEF Turns!Answer, Turns!TypesInv
    <3> QED
      BY <3>1 DEF Turns!StepInv, Turns!At
  <2> QED
    BY <2>1, <2>2
<1>10. Turns!DoneInv(c)'
  <2>1. CASE Turns!Goes(c, "look_up_again")
    <3>1. client'[c].pc = "look_up_again"
      BY <1>1, <2>1 DEF Turns!Goes, Turns!TypesInv
    <3> QED
      BY <3>1, NotDone
  <2>2. CASE Turns!Answer(c, "failed")
    <3>1. \A o \in Turns!Codes : Turns!Done(c, o)' => o = "failed"
      BY <1>1, <2>2, TurnAnswered DEF Turns!Codes, Turns!At
    <3> QED
      BY <3>1 DEF Turns!DoneInv, Turns!Codes
  <2>3. CASE /\ ~(Turns!Type(c) = "prompt" /\ client[c].cmd.respond)
             /\ Turns!Answer(c, "accepted")
    <3>1. \A o \in Turns!Codes : Turns!Done(c, o)' => o = "accepted"
      BY <1>1, <2>3, TurnAnswered DEF Turns!Codes, Turns!At
    <3>2. /\ ~Turns!Done(c, "invalid")' /\ ~Turns!Done(c, "session_not_found")'
          /\ ~Turns!Done(c, "tool_bridge_failed")'
      BY <3>1 DEF Turns!Codes
    <3>3. Turns!Type(c) # "commit" =>
            \E i \in DOMAIN Turns!Said' : Turns!Said'[i] = Turns!Item(c)
      BY <1>1, <1>4, TakeAdds, OthersStay
    <3>4. Turns!Type(c) = "commit" => DOMAIN buffer' = {}
      BY <1>1, TakeGrows
    <3> QED
      BY <1>2, <1>3, <2>3, <3>2, <3>3, <3>4 DEF Turns!DoneInv
  <2> QED
    BY <2>1, <2>2, <2>3
<1>11. /\ \A i \in DOMAIN conversation :
            i \in DOMAIN conversation' /\ conversation'[i] = conversation[i]
       /\ \A i \in DOMAIN buffer' :
            buffer'[i].conn = c \/ \E j \in DOMAIN buffer : buffer'[i] = buffer[j]
  BY <1>1, TakeGrows
<1>12. CASE Turns!Type(c) = "commit"
  <2>1. Turns!Said' = Turns!Said
    BY <1>1, <1>4, <1>12, TakeAdds
  <2>2. \A d \in Conns : client[d].n <= client'[d].n
    <3>1. \A d \in Conns : client[d].n \in Nat
      BY <1>1 DEF Turns!TypesInv
    <3> QED
      BY <1>2, <3>1
  <2>3. Turns!SaidInv'
    BY <1>1, <2>1, <2>2, SaidNext
  <2>4. ASSUME NEW d \in Conns
        PROVE  Turns!StepInv(d)' /\ Turns!AnswersInv(d)' /\ Turns!DoneInv(d)'
    <3>1. CASE d = c
      BY <1>5, <1>9, <1>10, <3>1
    <3>2. CASE d # c
      BY <1>2, <1>11, <2>1, <3>2, OtherTurns DEF Turns!SayInv
    <3> QED
      BY <3>1, <3>2
  <2> QED
    BY <2>3, <2>4 DEF Turns!SayInv
<1>13. CASE Turns!Type(c) # "commit"
  <2>1. PICK k \in Nat :
          /\ PutIn(Turns!Said, Turns!Said', k, Turns!Item(c))
          /\ Turns!Type(c) = "audio" => k = Len(Turns!Said) + 1
    BY <1>1, <1>4, <1>13, TakeAdds
  <2>2. Turns!Item(c) \in Turns!Items /\ Turns!Item(c).n = client[c].n
    BY <1>1, <1>4, <1>13, ItemTypes DEF Turns!Nth
  <2>3. \A i \in DOMAIN Turns!Said : Turns!Said[i] # Turns!Item(c)
    BY <1>4, <1>6 DEF Turns!IsLastOf
  <2> QED
    BY <1>2, <1>4, <1>5, <1>6, <1>9, <1>10, <1>11, <2>1, <2>2, <2>3, SayingTurn
<1> QED
  BY <1>12, <1>13

(* The response that was asked for with a prompt.                          *)
LEMMA RespondTurn ==
  ASSUME Turns!SayInv, Turns!TypesInv', NEW c \in Conns, Turns!At(c, "respond"),
         conversation' = Append(conversation, [Turns!Item(c) EXCEPT !.type = "response"]),
         buffer' = buffer,
         NEW code \in {"accepted", "response_failed"}, Turns!Answer(c, code)
  PROVE  Turns!SayInv'
<1> DEFINE x == [Turns!Item(c) EXCEPT !.type = "response"]
<1>1. /\ Turns!TypesInv /\ Turns!SaidInv /\ Turns!StepInv(c) /\ Turns!AnswersInv(c)
  BY DEF Turns!SayInv
<1>2. /\ \A d \in Conns : d # c =>
           client'[d] = client[d] /\ answers'[d] = answers[d]
      /\ client'[c].n = client[c].n /\ client'[c].cmd = client[c].cmd
      /\ client'[c].pc = "idle"
  BY <1>1 DEF Turns!TypesInv, Turns!Answer
<1>3. /\ Turns!Nth(c)' = Turns!Nth(c) /\ Turns!Type(c)' = Turns!Type(c)
      /\ Turns!Item(c)' = Turns!Item(c)
  BY <1>2 DEF Turns!Nth, Turns!Type, Turns!Item
<1>4. /\ x \in Turns!Items /\ x.conn = c /\ x.n = client[c].n /\ x.type = "response"
      /\ x = [type |-> "response", conn |-> c, n |-> Turns!Nth(c)]
  BY <1>1, ItemTypes DEF Turns!Nth
<1>5. /\ Turns!Type(c) = "prompt" /\ client[c].cmd.respond
      /\ \E i \in DOMAIN conversation : conversation[i] = Turns!Item(c)
      /\ \A i \in DOMAIN Turns!Said : Turns!IsLastOf(Turns!Said[i], c) =>
           Turns!Said[i].type = "prompt"
  BY <1>1 DEF Turns!StepInv, Turns!At
<1>6. \A i \in DOMAIN Turns!Said : Turns!Said[i] # x
  BY <1>4, <1>5 DEF Turns!IsLastOf, Turns!Nth
<1>7. /\ Turns!AnswersInv(c)'
      /\ \A o \in Turns!Codes : Turns!Done(c, o)' => o = code
  BY <1>1, TurnAnswered DEF Turns!Codes, Turns!At
<1> HIDE DEF x
<1>8. conversation' = Append(conversation, x)
  BY DEF x
<1>9. /\ DOMAIN conversation = 1 .. Len(conversation) /\ Len(conversation) \in Nat
      /\ DOMAIN conversation' = 1 .. Len(conversation) + 1
      /\ \A i \in DOMAIN conversation : conversation'[i] = conversation[i]
      /\ conversation'[Len(conversation) + 1] = x
  <2> DEFINE X == Turns!Items
  <2>1. conversation \in Seq(X)
    BY <1>1 DEF Turns!TypesInv
  <2> HIDE DEF X
  <2> QED
    BY <1>8, <2>1
<1>10. Turns!StepInv(c)'
  BY <1>2 DEF Turns!StepInv, Turns!At
<1>11. PICK k \in Nat : PutIn(Turns!Said, Turns!Said', k, x)
  BY <1>1, <1>4, <1>8, AppendPutsIn
<1>12. Turns!DoneInv(c)'
  <2>1. /\ ~Turns!Done(c, "invalid")' /\ ~Turns!Done(c, "session_not_found")'
        /\ ~Turns!Done(c, "tool_bridge_failed")'
    BY <1>7 DEF Turns!Codes
  <2>2. PICK i \in DOMAIN conversation : conversation[i] = Turns!Item(c)
    BY <1>5
  <2>3. /\ i \in DOMAIN conversation' /\ Len(conversation) + 1 \in DOMAIN conversation'
        /\ i < Len(conversation) + 1
        /\ conversation'[i] = Turns!Item(c)
        /\ conversation'[Len(conversation) + 1] = x
    BY <1>9, <2>2
  <2>4. \E j \in DOMAIN Turns!Said' : Turns!Said'[j] = Turns!Item(c)
    <3>1. i \in DOMAIN Turns!Said' /\ Turns!Said'[i] = conversation'[i]
      BY <2>3, SaidAtNext
    <3> QED
      BY <2>3, <3>1
  <2>5. \E m, j \in DOMAIN conversation' :
          m < j /\ conversation'[m] = Turns!Item(c) /\ conversation'[j] = x
    BY <2>3
  <2> QED
    BY <1>3, <1>5, <2>1, <2>4, <2>5 DEF Turns!DoneInv, x
<1>13. /\ \A i \in DOMAIN conversation :
             i \in DOMAIN conversation' /\ conversation'[i] = conversation[i]
       /\ \A i \in DOMAIN buffer' :
            buffer'[i].conn = c \/ \E j \in DOMAIN buffer : buffer'[i] = buffer[j]
  BY <1>9
<1> QED
  BY <1>2, <1>4, <1>6, <1>7, <1>10, <1>11, <1>12, <1>13, SayingTurn

(* A new command: nothing of it has been said.                             *)
LEMMA BeginTurn ==
  ASSUME Turns!SayInv, Turns!TypesInv', NEW c \in Conns, NEW cmd \in Turns!Commands,
         Turns!Begin(c, cmd)
  PROVE  Turns!SayInv'
<1>1. /\ conversation' = conversation /\ buffer' = buffer
      /\ \A d \in Conns : d # c =>
           client'[d] = client[d] /\ answers'[d] = answers[d]
      /\ client'[c].n = client[c].n + 1 /\ client[c].n \in Nat
      /\ client'[c].pc = "check" /\ answers'[c] = <<>>
  BY DEF Turns!Begin, Turns!SayInv, Turns!TypesInv
<1>2. Turns!AnswersInv(c)'
  BY <1>1 DEF Turns!AnswersInv, Turns!At
<1>3. Turns!DoneInv(c)'
  BY <1>1, NotDone
<1>4. \A i \in DOMAIN Turns!Said : ~(Turns!Said[i].conn = c /\ Turns!Said[i].n = client'[c].n)
  <2>1. \A i \in DOMAIN Turns!Said : Turns!Said[i].n <= client[Turns!Said[i].conn].n
    BY DEF Turns!SayInv, Turns!SaidInv, Turns!Nth
  <2> QED
    BY <1>1, <2>1
<1>5. Turns!StepInv(c)'
  BY <1>1, <1>4 DEF Turns!StepInv, Turns!At, Turns!IsLastOf, Turns!Nth, Turns!Said
<1>6. client[c].n <= client'[c].n
  BY <1>1
<1> QED
  BY <1>1, <1>2, <1>3, <1>5, <1>6, QuietTurn

(* Every step keeps what is said and answered. *)
LEMMA TurnNext ==
  ASSUME Turns!SayInv, [Turns!Next]_(Turns!vars)
  PROVE  Turns!SayInv'
<1>1. Turns!TypesInv /\ Turns!TypesInv'
  <2>1. Turns!TypesInv /\ \A c \in Conns : Turns!StepInv(c)
    BY DEF Turns!SayInv
  <2> QED
    BY <2>1, TurnTypesNext
<1>2. ASSUME client' = client, answers' = answers, conversation' = conversation,
             buffer' = buffer
      PROVE  Turns!SayInv'
  BY <1>1, <1>2 DEF Turns!SayInv, Turns!SaidInv, Turns!StepInv, Turns!AnswersInv,
     Turns!DoneInv, Turns!Done, Turns!Said, Turns!IsLastOf, Turns!At, Turns!Type,
     Turns!Nth, Turns!Item, Turns!MentionsFile
<1>3. CASE UNCHANGED Turns!vars
  BY <1>2, <1>3 DEF Turns!vars
<1>4. ASSUME NEW c \in Conns, NEW cmd \in Turns!Commands, Turns!Begin(c, cmd)
      PROVE  Turns!SayInv'
  BY <1>1, <1>4, BeginTurn
<1>5. ASSUME NEW c \in Conns
      PROVE  /\ Turns!AnswersInv(c) /\ Turns!StepInv(c)
             /\ \A place : Turns!Goes(c, place) =>
                  /\ \A d \in Conns : d # c => client'[d] = client[d]
                  /\ client'[c].n = client[c].n /\ client'[c].cmd = client[c].cmd
                  /\ client'[c].pc = place
                  /\ Turns!MentionsFile(c)' = Turns!MentionsFile(c)
  <2>1. Turns!AnswersInv(c) /\ Turns!StepInv(c)
    BY DEF Turns!SayInv
  <2>2. ASSUME NEW place, Turns!Goes(c, place)
        PROVE  /\ \A d \in Conns : d # c => client'[d] = client[d]
               /\ client'[c].n = client[c].n /\ client'[c].cmd = client[c].cmd
               /\ client'[c].pc = place
    BY <1>1, <2>2 DEF Turns!TypesInv, Turns!Goes
  <2>3. ASSUME client'[c].cmd = client[c].cmd
        PROVE  Turns!MentionsFile(c)' = Turns!MentionsFile(c)
    BY <2>3 DEF Turns!MentionsFile, Turns!Type
  <2> QED
    BY <2>1, <2>2, <2>3
<1>6. ASSUME NEW c \in Conns, Turns!Check(c) PROVE Turns!SayInv'
  <2>1. Turns!At(c, "check") /\ conversation' = conversation /\ buffer' = buffer
    BY <1>6 DEF Turns!Check
  <2>2. ASSUME NEW code \in {"session_not_found", "invalid"}, Turns!Answer(c, code)
        PROVE  Turns!SayInv'
    BY <1>1, <2>1, <2>2, AnswerTurn DEF Turns!At, Turns!Codes
  <2>3. ASSUME Turns!Goes(c, CASE Turns!MentionsFile(c) -> "tool"
                               [] Turns!Type(c) = "terminate" -> "disown"
                               [] OTHER -> "look_up"),
               UNCHANGED answers
        PROVE  Turns!SayInv'
    <3>1. client[c].pc = "check" /\ answers'[c] = <<>>
      BY <1>5, <2>1, <2>3 DEF Turns!AnswersInv, Turns!At
    <3>2. /\ client'[c].pc \in {"tool", "disown", "look_up"}
          /\ client'[c].pc = "tool" => Turns!MentionsFile(c)
          /\ client'[c].pc # "tool" => ~Turns!MentionsFile(c)
          /\ client'[c].pc = "disown" <=> Turns!Type(c) = "terminate"
      BY <1>5, <2>3 DEF Turns!MentionsFile
    <3>3. Turns!Type(c)' = Turns!Type(c)
      BY <1>5, <2>3 DEF Turns!Type
    <3>4. Turns!AnswersInv(c)'
      BY <1>5, <2>3, <3>1, <3>2, <3>3 DEF Turns!AnswersInv, Turns!At
    <3> QED
      BY <1>1, <1>5, <2>1, <2>3, <3>1, <3>2, <3>4, GoingTurn
  <2> QED
    BY <1>6, <2>2, <2>3 DEF Turns!Check
<1>7. ASSUME NEW c \in Conns, Turns!Tool(c) PROVE Turns!SayInv'
  <2>1. Turns!At(c, "tool") /\ conversation' = conversation /\ buffer' = buffer
    BY <1>7 DEF Turns!Tool
  <2>2. ASSUME Turns!Answer(c, "tool_bridge_failed") PROVE Turns!SayInv'
    BY <1>1, <2>1, <2>2, AnswerTurn DEF Turns!At, Turns!Codes
  <2>3. ASSUME Turns!Goes(c, "look_up"),
               answers' = [answers EXCEPT ![c] = Append(@, "tool_result")]
        PROVE  Turns!SayInv'
    <3>1. client[c].pc = "tool" /\ answers[c] = <<>> /\ Turns!MentionsFile(c)
      BY <1>5, <2>1 DEF Turns!AnswersInv, Turns!StepInv, Turns!At
    <3>2. Append(<<>>, "tool_result") = <<"tool_result">>
      OBVIOUS
    <3>3. /\ answers'[c] = <<"tool_result">>
          /\ \A d \in Conns : d # c => answers'[d] = answers[d]
      BY <1>1, <2>3, <3>1, <3>2 DEF Turns!TypesInv
    <3>4. Turns!AnswersInv(c)'
      BY <1>5, <2>3, <3>1, <3>3 DEF Turns!AnswersInv, Turns!At
    <3>5. Turns!Type(c) # "terminate"
      BY <3>1 DEF Turns!MentionsFile
    <3> QED
      BY <1>1, <1>5, <2>1, <2>3, <3>1, <3>3, <3>4, <3>5, GoingTurn
  <2> QED
    BY <1>7, <2>2, <2>3 DEF Turns!Tool
<1>8. ASSUME NEW c \in Conns, Turns!LookUp(c) PROVE Turns!SayInv'
  <2>1. Turns!At(c, "look_up") /\ conversation' = conversation /\ buffer' = buffer
    BY <1>8 DEF Turns!LookUp
  <2>2. ASSUME Turns!Answer(c, "failed") PROVE Turns!SayInv'
    BY <1>1, <2>1, <2>2, AnswerTurn DEF Turns!At, Turns!Codes
  <2>3. ASSUME Turns!Goes(c, "send"), UNCHANGED answers PROVE Turns!SayInv'
    <3>1. /\ client[c].pc = "look_up" /\ client'[c].pc = "send"
          /\ Turns!Type(c) # "terminate"
      BY <1>5, <2>1, <2>3 DEF Turns!At, Turns!StepInv
    <3>2. Turns!AnswersInv(c)'
      BY <1>5, <2>3, <3>1 DEF Turns!AnswersInv, Turns!At
    <3> QED
      BY <1>1, <1>5, <2>1, <2>3, <3>1, <3>2, GoingTurn
  <2> QED
    BY <1>8, <2>2, <2>3 DEF Turns!LookUp
<1>9. ASSUME NEW c \in Conns, Turns!Send(c) PROVE Turns!SayInv'
  <2>1. Turns!At(c, "send")
    BY <1>9 DEF Turns!Send
  <2>2. ASSUME Turns!Answer(c, "failed"), UNCHANGED <<buffer, conversation>>
        PROVE  Turns!SayInv'
    BY <1>1, <2>1, <2>2, AnswerTurn DEF Turns!At, Turns!Codes
  <2>3. CASE Turns!Take(c)
    BY <1>1, <1>9, <2>1, <2>2, <2>3, SendTurn DEF Turns!Send
  <2> QED
    BY <1>9, <2>2, <2>3 DEF Turns!Send
<1>10. ASSUME NEW c \in Conns, Turns!LookUpAgain(c) PROVE Turns!SayInv'
  <2>1. Turns!At(c, "look_up_again") /\ conversation' = conversation /\ buffer' = buffer
    BY <1>10 DEF Turns!LookUpAgain
  <2>2. ASSUME Turns!Answer(c, "response_failed") PROVE Turns!SayInv'
    BY <1>1, <2>1, <2>2, AnswerTurn DEF Turns!At, Turns!Codes
  <2>3. ASSUME Turns!Goes(c, "respond"), UNCHANGED answers PROVE Turns!SayInv'
    <3>1. client[c].pc = "look_up_again" /\ client'[c].pc = "respond"
      BY <1>5, <2>1, <2>3 DEF Turns!At
    <3>2. Turns!AnswersInv(c)'
      BY <1>5, <2>3, <3>1 DEF Turns!AnswersInv, Turns!At
    <3> QED
      BY <1>1, <1>5, <2>1, <2>3, <3>1, <3>2, GoingTurn
  <2> QED
    BY <1>10, <2>2, <2>3 DEF Turns!LookUpAgain
<1>11. ASSUME NEW c \in Conns, Turns!Respond(c) PROVE Turns!SayInv'
  <2>1. Turns!At(c, "respond") /\ buffer' = buffer
    BY <1>11 DEF Turns!Respond
  <2>2. ASSUME Turns!Answer(c, "response_failed"), UNCHANGED conversation
        PROVE  Turns!SayInv'
    BY <1>1, <2>1, <2>2, AnswerTurn DEF Turns!At, Turns!Codes
  <2>3. ASSUME conversation' = Append(conversation, [Turns!Item(c) EXCEPT !.type = "response"]),
               NEW code \in {"accepted", "response_failed"}, Turns!Answer(c, code)
        PROVE  Turns!SayInv'
    BY <1>1, <2>1, <2>3, RespondTurn
  <2> QED
    BY <1>11, <2>2, <2>3 DEF Turns!Respond
<1>12. ASSUME NEW c \in Conns, Turns!Disown(c) PROVE Turns!SayInv'
  <2>1. /\ Turns!At(c, "disown") /\ conversation' = conversation /\ buffer' = buffer
        /\ Turns!Goes(c, "remove") /\ answers' = answers
    BY <1>12 DEF Turns!Disown
  <2>2. /\ answers'[c] = <<>> /\ client'[c].pc = "remove"
        /\ Turns!Type(c) = "terminate" /\ Turns!Type(c)' = "terminate"
    BY <1>5, <2>1 DEF Turns!AnswersInv, Turns!At, Turns!Type
  <2>3. Turns!AnswersInv(c)'
    BY <2>2 DEF Turns!AnswersInv, Turns!At
  <2> QED
    BY <1>1, <1>5, <2>1, <2>2, <2>3, GoingTurn
<1>13. ASSUME NEW c \in Conns, Turns!TakeOut(c) PROVE Turns!SayInv'
  <2>1. Turns!At(c, "remove") /\ conversation' = conversation /\ buffer' = buffer
    BY <1>13 DEF Turns!TakeOut
  <2>2. ASSUME Turns!Answer(c, "failed") PROVE Turns!SayInv'
    BY <1>1, <2>1, <2>2, AnswerTurn DEF Turns!At, Turns!Codes
  <2>3. ASSUME Turns!Goes(c, "close"), UNCHANGED answers PROVE Turns!SayInv'
    <3>1. /\ answers'[c] = <<>> /\ client'[c].pc = "close"
          /\ Turns!Type(c) = "terminate" /\ Turns!Type(c)' = "terminate"
      BY <1>5, <2>1, <2>3 DEF Turns!AnswersInv, Turns!At, Turns!Type
    <3>2. Turns!AnswersInv(c)'
      BY <3>1 DEF Turns!AnswersInv, Turns!At
    <3> QED
      BY <1>1, <1>5, <2>1, <2>3, <3>1, <3>2, GoingTurn
  <2> QED
    BY <1>13, <2>2, <2>3 DEF Turns!TakeOut
<1>14. ASSUME NEW c \in Conns, Turns!CloseRuntime(c) PROVE Turns!SayInv'
  <2>1. /\ Turns!At(c, "close") /\ conversation' = conversation /\ buffer' = buffer
        /\ Turns!Answer(c, "accepted")
    BY <1>14 DEF Turns!CloseRuntime
  <2>2. /\ \A d \in Conns : d # c =>
             client'[d] = client[d] /\ answers'[d] = answers[d]
        /\ client'[c].n = client[c].n /\ client[c].n \in Nat
        /\ client'[c].pc = "idle" /\ client'[c].cmd = client[c].cmd
    BY <1>1, <2>1 DEF Turns!TypesInv, Turns!Answer
  <2>3. Turns!Type(c) = "terminate" /\ Turns!Type(c)' = "terminate"
    BY <1>5, <2>1, <2>2 DEF Turns!AnswersInv, Turns!At, Turns!Type
  <2>4. /\ Turns!AnswersInv(c)'
        /\ \A o \in Turns!Codes : Turns!Done(c, o)' => o = "accepted"
    BY <1>1, <1>5, <2>1, TurnAnswered DEF Turns!Codes, Turns!At
  <2>5. /\ ~Turns!Done(c, "invalid")' /\ ~Turns!Done(c, "session_not_found")'
        /\ ~Turns!Done(c, "tool_bridge_failed")'
    BY <2>4 DEF Turns!Codes
  <2>6. Turns!DoneInv(c)'
    BY <2>3, <2>5 DEF Turns!DoneInv
  <2>7. Turns!StepInv(c)'
    BY <2>2 DEF Turns!StepInv, Turns!At
  <2>8. client[c].n <= client'[c].n
    BY <2>2
  <2> QED
    BY <1>1, <2>1, <2>2, <2>4, <2>6, <2>7, <2>8, QuietTurn
<1> QED
  BY <1>3, <1>4, <1>6, <1>7, <1>8, <1>9, <1>10, <1>11, <1>12, <1>13, <1>14
  DEF Turns!Next, Turns!Step

----------------------------------------------------------------------------

(* What a step of a connection leaves true of how far the session has      *)
(* ended: nobody else ends it at once, and the provider gets nothing of a  *)
(* command that came too late.                                             *)
LEMMA EndKept ==
  ASSUME Turns!IInv, NEW c \in Conns,
         \A d \in Conns : d # c =>
           client'[d] = client[d] /\ answers'[d] = answers[d],
         \/ Turns!Said' = Turns!Said
         \/ \E k \in Nat, x \in Turns!Items :
              x.conn = c /\ PutIn(Turns!Said, Turns!Said', k, x),
         owned' => owned /\ runtime' = "listed",
         runtime # "listed" => runtime' # "listed",
         runtime' = runtime \/ runtime = "listed" \/ Turns!Ends(c),
         client'[c].pc \in {"remove", "close"} => ~owned',
         Turns!At(c, "close")' => runtime' = "removed",
         Turns!Ends(c)' => /\ runtime' # "listed"
                           /\ runtime = "listed" \/ Turns!Ends(c),
         client'[c].late =>
           /\ runtime' # "listed"
           /\ client'[c].pc \notin {"send", "look_up_again", "respond", "close"}
           /\ ~Turns!Done(c, "accepted")'
           /\ \A i \in DOMAIN Turns!Said' : ~Turns!IsLastOf(Turns!Said[i], c)'
  PROVE  Turns!EndInv'
<1>1. Turns!TypesInv /\ Turns!EndInv
  BY DEF Turns!IInv, Turns!SayInv
<1>2. \A i \in DOMAIN Turns!Said' :
        \/ Turns!Said'[i].conn = c
        \/ \E j \in DOMAIN Turns!Said : Turns!Said'[i] = Turns!Said[j]
  <2>1. CASE Turns!Said' = Turns!Said
    BY <2>1
  <2>2. CASE Turns!Said' # Turns!Said
    BY <1>1, <2>2, OthersStay
  <2> QED
    BY <2>1, <2>2
<1>3. ASSUME NEW d \in Conns, d # c
      PROVE  /\ Turns!Ends(d)' <=> Turns!Ends(d)
             /\ \A place : Turns!At(d, place)' <=> Turns!At(d, place)
             /\ \A code : Turns!Done(d, code)' <=> Turns!Done(d, code)
             /\ \A item : Turns!IsLastOf(item, d)' <=> Turns!IsLastOf(item, d)
  BY <1>3 DEF Turns!Ends, Turns!At, Turns!Done, Turns!Type, Turns!IsLastOf, Turns!Nth
<1>4. ASSUME NEW d \in Conns
      PROVE  /\ client'[d].pc \in {"remove", "close"} => ~owned'
             /\ Turns!At(d, "close")' => runtime' = "removed"
             /\ Turns!Ends(d)' => runtime' # "listed"
             /\ client'[d].late =>
                  /\ runtime' # "listed"
                  /\ client'[d].pc \notin {"send", "look_up_again", "respond", "close"}
                  /\ ~Turns!Done(d, "accepted")'
                  /\ \A i \in DOMAIN Turns!Said' : ~Turns!IsLastOf(Turns!Said[i], d)'
  <2>1. CASE d = c
    BY <2>1
  <2>2. CASE d # c
    <3>1. Turns!At(d, "close") => Turns!Ends(d)
      BY DEF Turns!Ends
    <3>2. Turns!At(d, "close")' => runtime' = "removed"
      BY <1>1, <1>3, <2>2, <3>1 DEF Turns!EndInv
    <3>3. client'[d].late =>
            \A i \in DOMAIN Turns!Said' : ~Turns!IsLastOf(Turns!Said[i], d)'
      <4> SUFFICES ASSUME client[d].late, NEW i \in DOMAIN Turns!Said'
                   PROVE  ~(Turns!Said'[i].conn = d /\ Turns!Said'[i].n = client[d].n)
        BY <2>2 DEF Turns!IsLastOf, Turns!Nth
      <4>1. \A j \in DOMAIN Turns!Said :
              ~(Turns!Said[j].conn = d /\ Turns!Said[j].n = client[d].n)
        BY <1>1 DEF Turns!EndInv, Turns!IsLastOf, Turns!Nth
      <4> QED
        BY <1>2, <2>2, <4>1
    <3>4. client'[d] = client[d]
      BY <2>2
    <3> QED
      BY <1>1, <1>3, <2>2, <3>2, <3>3, <3>4 DEF Turns!EndInv
  <2> QED
    BY <2>1, <2>2
<1>5. ASSUME NEW d \in Conns, NEW e \in Conns, Turns!Ends(d)', Turns!Ends(e)'
      PROVE  d = e
  <2>1. \A f \in Conns : f # c /\ Turns!Ends(f)' => Turns!Ends(f) /\ runtime # "listed"
    BY <1>1, <1>3 DEF Turns!EndInv
  <2>2. Turns!Ends(c)' /\ runtime # "listed" => Turns!Ends(c)
    OBVIOUS
  <2> QED
    BY <1>1, <1>5, <2>1, <2>2 DEF Turns!EndInv
<1> QED
  BY <1>1, <1>4, <1>5 DEF Turns!EndInv

(* A step that leaves the session and what is said alone, and does not     *)
(* accept.                                                                 *)
LEMMA EndQuiet ==
  ASSUME Turns!IInv, NEW c \in Conns, UNCHANGED <<owned, runtime, buffer, conversation>>,
         \A d \in Conns : d # c =>
           client'[d] = client[d] /\ answers'[d] = answers[d],
         client'[c].n = client[c].n, client'[c].late = client[c].late,
         client'[c].pc \notin {"remove", "close"},
         client'[c].pc \in {"send", "look_up_again", "respond"} =>
           runtime = "listed" \/ client[c].pc \in {"send", "look_up_again", "respond"},
         ~Turns!Done(c, "accepted")'
  PROVE  Turns!EndInv'
<1>1. Turns!EndInv
  BY DEF Turns!IInv
<1>2. Turns!Said' = Turns!Said
  BY DEF Turns!Said
<1>3. ~Turns!At(c, "close")' /\ ~Turns!Ends(c)'
  BY DEF Turns!At, Turns!Ends
<1>4. client'[c].late =>
        /\ runtime' # "listed"
        /\ client'[c].pc \notin {"send", "look_up_again", "respond", "close"}
        /\ \A i \in DOMAIN Turns!Said' : ~Turns!IsLastOf(Turns!Said[i], c)'
  BY <1>1, <1>2 DEF Turns!EndInv, Turns!IsLastOf, Turns!Nth
<1>5. owned' => owned /\ runtime' = "listed"
  BY <1>1 DEF Turns!EndInv
<1> QED
  BY <1>2, <1>3, <1>4, <1>5, EndKept

(* Every step keeps how far the session has ended. *)
LEMMA EndNext ==
  ASSUME Turns!IInv, Turns!SayInv', [Turns!Next]_(Turns!vars)
  PROVE  Turns!EndInv'
<1>1. /\ Turns!TypesInv /\ Turns!EndInv /\ Turns!SaidInv /\ Turns!TypesInv'
      /\ \A c \in Conns : Turns!StepInv(c) /\ Turns!AnswersInv(c) /\ Turns!AnswersInv(c)'
  BY DEF Turns!IInv, Turns!SayInv
<1>2. CASE UNCHANGED Turns!vars
  BY <1>1, <1>2 DEF Turns!vars, Turns!EndInv, Turns!Ends, Turns!At, Turns!Done,
     Turns!Type, Turns!IsLastOf, Turns!Nth, Turns!Said
(* What a step of a connection leaves of the others and of its command. *)
<1>3. ASSUME NEW c \in Conns, NEW place, Turns!Goes(c, place), UNCHANGED answers
      PROVE  /\ \A d \in Conns : d # c =>
                  client'[d] = client[d] /\ answers'[d] = answers[d]
             /\ client'[c].n = client[c].n /\ client'[c].late = client[c].late
             /\ client'[c].cmd = client[c].cmd /\ client'[c].pc = place
             /\ place # "idle" => ~Turns!Done(c, "accepted")'
  BY <1>1, <1>3 DEF Turns!TypesInv, Turns!Goes, Turns!Done, Turns!At
<1>4. ASSUME NEW c \in Conns, NEW code \in Turns!Codes, Turns!Answer(c, code),
             ~Turns!At(c, "idle"),
             code = "accepted" => client[c].pc \in {"send", "respond", "close"}
      PROVE  /\ \A d \in Conns : d # c =>
                  client'[d] = client[d] /\ answers'[d] = answers[d]
             /\ client'[c].n = client[c].n /\ client'[c].late = client[c].late
             /\ client'[c].cmd = client[c].cmd /\ client'[c].pc = "idle"
             /\ code # "accepted" => ~Turns!Done(c, "accepted")'
  <2>1. \A o \in Turns!Codes : Turns!Done(c, o)' => o = code
    BY <1>1, <1>4, TurnAnswered
  <2>2. "accepted" \in Turns!Codes
    BY DEF Turns!Codes
  <2> QED
    BY <1>1, <1>4, <2>1, <2>2 DEF Turns!TypesInv, Turns!Answer
<1>5. ASSUME NEW c \in Conns, NEW code \in Turns!Codes, code # "accepted",
             Turns!Answer(c, code), ~Turns!At(c, "idle"),
             UNCHANGED <<owned, runtime, buffer, conversation>>
      PROVE  Turns!EndInv'
  BY <1>4, <1>5, EndQuiet
<1>6. ASSUME NEW c \in Conns,
             NEW place \in {"tool", "disown", "look_up", "send", "respond"},
             Turns!Goes(c, place), UNCHANGED <<answers, owned, runtime, buffer, conversation>>,
             place \in {"send", "respond"} => runtime = "listed"
      PROVE  Turns!EndInv'
  BY <1>3, <1>6, EndQuiet
<1>7. ASSUME NEW c \in Conns, NEW cmd \in Turns!Commands, Turns!Begin(c, cmd)
      PROVE  Turns!EndInv'
  <2>1. /\ UNCHANGED <<owned, runtime, buffer, conversation>>
        /\ \A d \in Conns : d # c =>
             client'[d] = client[d] /\ answers'[d] = answers[d]
        /\ client'[c].n = client[c].n + 1 /\ client[c].n \in Nat
        /\ client'[c].pc = "check" /\ client'[c].late = (runtime # "listed")
    BY <1>1, <1>7 DEF Turns!Begin, Turns!TypesInv
  <2>2. Turns!Said' = Turns!Said
    BY <2>1 DEF Turns!Said
  <2>3. \A i \in DOMAIN Turns!Said :
          ~(Turns!Said[i].conn = c /\ Turns!Said[i].n = client'[c].n)
    <3>1. \A i \in DOMAIN Turns!Said : Turns!Said[i].n <= client[Turns!Said[i].conn].n
      BY <1>1 DEF Turns!SaidInv, Turns!Nth
    <3> QED
      BY <2>1, <3>1
  <2>4. \A i \in DOMAIN Turns!Said' : ~Turns!IsLastOf(Turns!Said[i], c)'
    BY <2>2, <2>3 DEF Turns!IsLastOf, Turns!Nth
  <2>5. ~Turns!At(c, "close")' /\ ~Turns!Ends(c)' /\ ~Turns!Done(c, "accepted")'
    BY <2>1 DEF Turns!At, Turns!Ends, Turns!Done
  <2>6. owned' => owned /\ runtime' = "listed"
    BY <1>1, <2>1 DEF Turns!EndInv
  <2> QED
    BY <2>1, <2>2, <2>4, <2>5, <2>6, EndKept
<1>8. ASSUME NEW c \in Conns, Turns!Check(c) PROVE Turns!EndInv'
  <2>1. /\ UNCHANGED <<owned, runtime, buffer, conversation>> /\ ~Turns!At(c, "idle")
        /\ \/ \E code \in {"session_not_found", "invalid"} : Turns!Answer(c, code)
           \/ \E place \in {"tool", "disown", "look_up"} :
                Turns!Goes(c, place) /\ UNCHANGED answers
    BY <1>8 DEF Turns!Check, Turns!At
  <2>2. {"session_not_found", "invalid"} \subseteq Turns!Codes \ {"accepted"}
    BY DEF Turns!Codes
  <2> QED
    BY <1>5, <1>6, <2>1, <2>2
<1>9. ASSUME NEW c \in Conns, Turns!Tool(c) PROVE Turns!EndInv'
  <2>1. UNCHANGED <<owned, runtime, buffer, conversation>> /\ ~Turns!At(c, "idle")
    BY <1>9 DEF Turns!Tool, Turns!At
  <2>2. CASE Turns!Answer(c, "tool_bridge_failed")
    BY <1>5, <2>1, <2>2 DEF Turns!Codes
  <2>3. CASE /\ Turns!Goes(c, "look_up")
             /\ answers' = [answers EXCEPT ![c] = Append(@, "tool_result")]
    <3>1. /\ \A d \in Conns : d # c =>
               client'[d] = client[d] /\ answers'[d] = answers[d]
          /\ client'[c].n = client[c].n /\ client'[c].late = client[c].late
          /\ client'[c].pc = "look_up"
      BY <1>1, <2>3 DEF Turns!TypesInv, Turns!Goes
    <3>2. ~Turns!Done(c, "accepted")'
      BY <3>1 DEF Turns!Done, Turns!At
    <3> QED
      BY <2>1, <3>1, <3>2, EndQuiet
  <2> QED
    BY <1>9, <2>2, <2>3 DEF Turns!Tool
<1>10. ASSUME NEW c \in Conns, Turns!LookUp(c) PROVE Turns!EndInv'
  <2>1. UNCHANGED <<owned, runtime, buffer, conversation>> /\ ~Turns!At(c, "idle")
    BY <1>10 DEF Turns!LookUp, Turns!At
  <2>2. CASE Turns!Answer(c, "failed")
    BY <1>5, <2>1, <2>2 DEF Turns!Codes
  <2>3. CASE runtime = "listed" /\ Turns!Goes(c, "send") /\ UNCHANGED answers
    BY <1>6, <2>1, <2>3
  <2> QED
    BY <1>10, <2>2, <2>3 DEF Turns!LookUp
<1>11. ASSUME NEW c \in Conns, Turns!LookUpAgain(c) PROVE Turns!EndInv'
  <2>1. UNCHANGED <<owned, runtime, buffer, conversation>> /\ ~Turns!At(c, "idle")
    BY <1>11 DEF Turns!LookUpAgain, Turns!At
  <2>2. CASE Turns!Answer(c, "response_failed")
    BY <1>5, <2>1, <2>2 DEF Turns!Codes
  <2>3. CASE runtime = "listed" /\ Turns!Goes(c, "respond") /\ UNCHANGED answers
    BY <1>6, <2>1, <2>3
  <2> QED
    BY <1>11, <2>2, <2>3 DEF Turns!LookUpAgain
(* A command that is sent did not come too late, and does not end. *)
<1>12. ASSUME NEW c \in Conns, client[c].pc \in {"send", "respond"},
              UNCHANGED <<owned, runtime>>,
              \A d \in Conns : d # c =>
                client'[d] = client[d] /\ answers'[d] = answers[d],
              client'[c].late = client[c].late, client'[c].cmd = client[c].cmd,
              client'[c].pc \in {"idle", "look_up_again"},
              \/ Turns!Said' = Turns!Said
              \/ \E k \in Nat, x \in Turns!Items :
                   x.conn = c /\ PutIn(Turns!Said, Turns!Said', k, x)
       PROVE  Turns!EndInv'
  <2>1. ~client[c].late /\ Turns!Type(c) # "terminate"
    BY <1>1, <1>12 DEF Turns!EndInv, Turns!StepInv
  <2>2. ~Turns!At(c, "close")' /\ ~Turns!Ends(c)'
    BY <1>12, <2>1 DEF Turns!At, Turns!Ends, Turns!Type
  <2>3. owned' => owned /\ runtime' = "listed"
    BY <1>1, <1>12 DEF Turns!EndInv
  <2> QED
    BY <1>12, <2>1, <2>2, <2>3, EndKept
<1>13. ASSUME NEW c \in Conns, Turns!Send(c) PROVE Turns!EndInv'
  <2>1. /\ UNCHANGED <<owned, runtime>> /\ client[c].pc = "send"
        /\ \/ Turns!Goes(c, "look_up_again") /\ UNCHANGED answers
           \/ \E code \in {"accepted", "failed"} : Turns!Answer(c, code)
        /\ Turns!Take(c) \/ UNCHANGED <<buffer, conversation>>
    BY <1>13 DEF Turns!Send, Turns!At
  <2>2. {"accepted", "failed"} \subseteq Turns!Codes
    BY DEF Turns!Codes
  <2>3. /\ \A d \in Conns : d # c =>
             client'[d] = client[d] /\ answers'[d] = answers[d]
        /\ client'[c].late = client[c].late /\ client'[c].cmd = client[c].cmd
        /\ client'[c].pc \in {"idle", "look_up_again"}
    <3>1. ~Turns!At(c, "idle")
      BY <2>1 DEF Turns!At
    <3> QED
      BY <1>3, <1>4, <2>1, <2>2, <3>1
  <2>4. \/ Turns!Said' = Turns!Said
        \/ \E k \in Nat, x \in Turns!Items :
             x.conn = c /\ PutIn(Turns!Said, Turns!Said', k, x)
    <3>1. CASE Turns!Take(c)
      <4>1. Turns!Type(c) # "terminate"
        BY <1>1, <2>1 DEF Turns!StepInv
      <4>2. /\ Turns!Type(c) # "commit" => Turns!Item(c) \in Turns!Items
            /\ Turns!Item(c).conn = c
        BY <1>1, <4>1, ItemTypes
      <4> QED
        BY <1>1, <3>1, <4>1, <4>2, TakeAdds
    <3>2. CASE UNCHANGED <<buffer, conversation>>
      BY <3>2 DEF Turns!Said
    <3> QED
      BY <2>1, <3>1, <3>2
  <2> QED
    BY <1>12, <2>1, <2>3, <2>4
<1>14. ASSUME NEW c \in Conns, Turns!Respond(c) PROVE Turns!EndInv'
  <2> DEFINE x == [Turns!Item(c) EXCEPT !.type = "response"]
  <2>1. /\ UNCHANGED <<owned, runtime>> /\ client[c].pc = "respond"
        /\ \E code \in {"accepted", "response_failed"} : Turns!Answer(c, code)
        /\ buffer' = buffer
        /\ conversation' = Append(conversation, x) \/ UNCHANGED conversation
    BY <1>14 DEF Turns!Respond, Turns!At
  <2>2. {"accepted", "response_failed"} \subseteq Turns!Codes /\ ~Turns!At(c, "idle")
    BY <2>1 DEF Turns!Codes, Turns!At
  <2>3. /\ \A d \in Conns : d # c =>
             client'[d] = client[d] /\ answers'[d] = answers[d]
        /\ client'[c].late = client[c].late /\ client'[c].cmd = client[c].cmd
        /\ client'[c].pc = "idle"
    BY <1>4, <2>1, <2>2
  <2>4. x \in Turns!Items /\ x.conn = c
    BY <1>1, ItemTypes
  <2> HIDE DEF x
  <2>5. \/ Turns!Said' = Turns!Said
        \/ \E k \in Nat, y \in Turns!Items :
             y.conn = c /\ PutIn(Turns!Said, Turns!Said', k, y)
    <3>1. CASE conversation' = Append(conversation, x)
      BY <1>1, <2>1, <2>4, <3>1, AppendPutsIn
    <3>2. CASE UNCHANGED conversation
      BY <2>1, <3>2 DEF Turns!Said
    <3> QED
      BY <2>1, <3>1, <3>2
  <2> QED
    BY <1>12, <2>1, <2>3, <2>5
<1>15. ASSUME NEW c \in Conns, Turns!Disown(c) PROVE Turns!EndInv'
  <2>1. /\ owned' = FALSE /\ UNCHANGED <<runtime, answers, buffer, conversation>>
        /\ client[c].pc = "disown" /\ Turns!Goes(c, "remove")
    BY <1>15 DEF Turns!Disown, Turns!At
  <2>2. /\ \A d \in Conns : d # c =>
             client'[d] = client[d] /\ answers'[d] = answers[d]
        /\ client'[c].n = client[c].n /\ client'[c].late = client[c].late
        /\ client'[c].pc = "remove" /\ ~Turns!Done(c, "accepted")'
    BY <1>3, <2>1
  <2>3. Turns!Said' = Turns!Said
    BY <2>1 DEF Turns!Said
  <2>4. ~Turns!At(c, "close")' /\ ~Turns!Ends(c)'
    BY <2>2 DEF Turns!At, Turns!Ends
  <2>5. client[c].late =>
          /\ runtime # "listed"
          /\ \A i \in DOMAIN Turns!Said' : ~Turns!IsLastOf(Turns!Said[i], c)'
    BY <1>1, <2>2, <2>3 DEF Turns!EndInv, Turns!IsLastOf, Turns!Nth
  <2> QED
    BY <2>1, <2>2, <2>3, <2>4, <2>5, EndKept
<1>16. ASSUME NEW c \in Conns, Turns!TakeOut(c) PROVE Turns!EndInv'
  <2>1. UNCHANGED <<owned, buffer, conversation>> /\ client[c].pc = "remove" /\ ~owned
    BY <1>1, <1>16 DEF Turns!TakeOut, Turns!At, Turns!EndInv
  <2>2. CASE Turns!Answer(c, "failed") /\ UNCHANGED runtime
    BY <1>5, <2>1, <2>2 DEF Turns!Codes, Turns!At
  <2>3. CASE /\ runtime = "listed" /\ runtime' = "removed"
             /\ Turns!Goes(c, "close") /\ UNCHANGED answers
    <3>1. /\ \A d \in Conns : d # c =>
               client'[d] = client[d] /\ answers'[d] = answers[d]
          /\ client'[c].late = client[c].late /\ client'[c].pc = "close"
      BY <1>3, <2>3
    <3>2. Turns!Said' = Turns!Said
      BY <2>1 DEF Turns!Said
    <3>3. ~client[c].late
      BY <1>1, <2>3 DEF Turns!EndInv
    <3> QED
      BY <2>1, <2>3, <3>1, <3>2, <3>3, EndKept
  <2> QED
    BY <1>16, <2>2, <2>3 DEF Turns!TakeOut
<1>17. ASSUME NEW c \in Conns, Turns!CloseRuntime(c) PROVE Turns!EndInv'
  <2>1. /\ UNCHANGED <<owned, buffer, conversation>> /\ client[c].pc = "close"
        /\ runtime' = "closed" /\ Turns!Answer(c, "accepted")
    BY <1>17 DEF Turns!CloseRuntime, Turns!At
  <2>2. /\ Turns!Ends(c) /\ ~owned /\ ~client[c].late
    BY <1>1, <2>1 DEF Turns!Ends, Turns!At, Turns!EndInv
  <2>3. /\ \A d \in Conns : d # c =>
             client'[d] = client[d] /\ answers'[d] = answers[d]
        /\ client'[c].late = client[c].late /\ client'[c].pc = "idle"
    BY <1>4, <2>1 DEF Turns!Codes, Turns!At
  <2>4. Turns!Said' = Turns!Said /\ ~Turns!At(c, "close")'
    BY <2>1, <2>3 DEF Turns!Said, Turns!At
  <2> QED
    BY <2>1, <2>2, <2>3, <2>4, EndKept
<1> QED
  BY <1>2, <1>7, <1>8, <1>9, <1>10, <1>11, <1>13, <1>14, <1>15, <1>16, <1>17
  DEF Turns!Next, Turns!Step

(* Every command is answered once, and what it is answered is true of the  *)
(* provider: an accepted one is there, once, its prompt before its         *)
(* response, a refused one is not, the audio of a connection is in its     *)
(* order, and an accepted commit leaves none of it in the buffer; and once *)
(* the runner has let the session go nothing more reaches the provider,    *)
(* although a connection may still have its access cached, and one         *)
(* connection at most is told it ended it.                                 *)
THEOREM TurnsAreAnswered == RequestsSpec => []TurnsAnswered
<1>1. Turns!Init => Turns!IInv
  <2> SUFFICES ASSUME Turns!Init PROVE Turns!IInv
    OBVIOUS
  <2>1. /\ conversation = <<>> /\ buffer = <<>>
        /\ Turns!Said = <<>> /\ DOMAIN Turns!Said = {}
    BY DEF Turns!Init, Turns!Said
  <2>2. \A c \in Conns : /\ client[c].pc = "idle" /\ client[c].n = 0
                        /\ client[c].late = FALSE
                        /\ client[c].cmd = [type |-> "commit"] /\ answers[c] = <<>>
    BY DEF Turns!Init
  <2>3. [type |-> "commit"] \in Turns!Commands
    BY DEF Turns!Commands
  <2>4. Turns!TypesInv
    BY <2>3 DEF Turns!Init, Turns!TypesInv, Turns!Places
  <2>5. Turns!SaidInv
    BY <2>1 DEF Turns!SaidInv
  <2>6. ASSUME NEW c \in Conns
        PROVE  Turns!StepInv(c) /\ Turns!AnswersInv(c) /\ Turns!DoneInv(c)
    BY <2>1, <2>2 DEF Turns!StepInv, Turns!AnswersInv, Turns!DoneInv, Turns!At,
       Turns!Nth, Turns!Done, Turns!Range
  <2>7. \A c \in Conns : ~Turns!Ends(c) /\ ~client[c].late /\ client[c].pc = "idle"
    BY <2>2 DEF Turns!Ends, Turns!At, Turns!Type
  <2>8. Turns!EndInv
    BY <2>7 DEF Turns!Init, Turns!EndInv, Turns!At
  <2> QED
    BY <2>4, <2>5, <2>6, <2>8 DEF Turns!IInv, Turns!SayInv
<1>2. Turns!IInv /\ [Turns!Next]_(Turns!vars) => Turns!IInv'
  <2> SUFFICES ASSUME Turns!IInv, [Turns!Next]_(Turns!vars)
               PROVE  Turns!IInv'
    OBVIOUS
  <2>1. Turns!SayInv'
    BY TurnNext DEF Turns!IInv
  <2> QED
    BY <2>1, EndNext DEF Turns!IInv
<1>3. Turns!IInv => TurnsAnswered
  <2> SUFFICES ASSUME Turns!IInv
               PROVE  /\ Turns!TypeOK /\ Turns!AcceptedOnce /\ Turns!CommitsCover
                      /\ Turns!AnsweredOnce /\ Turns!EndedRefuses
    BY DEF TurnsAnswered
  <2>1. /\ Turns!TypesInv /\ Turns!SaidInv /\ Turns!EndInv
        /\ \A c \in Conns : Turns!AnswersInv(c) /\ Turns!DoneInv(c)
    BY DEF Turns!IInv, Turns!SayInv
  <2>2. /\ DOMAIN buffer = 1 .. Len(buffer)
        /\ \A i \in DOMAIN buffer : buffer[i].type = "audio"
    <3> DEFINE Y == [type : {"audio"}, conn : Conns, n : Nat]
    <3>1. buffer \in Seq(Y) /\ \A y \in Y : y.type = "audio"
      BY <2>1 DEF Turns!TypesInv
    <3> HIDE DEF Y
    <3> QED
      BY <3>1
  <2>3. Turns!TypeOK
    BY <2>1, <2>2 DEF Turns!TypeOK, Turns!TypesInv, Turns!Nth
  <2>4. ASSUME NEW c \in Conns,
               \A i \in DOMAIN Turns!Said : ~Turns!IsLastOf(Turns!Said[i], c)
        PROVE  Turns!Item(c) \notin Turns!Range(Turns!Said)
    <3>1. Turns!Item(c).conn = c /\ Turns!Item(c).n = Turns!Nth(c)
      BY <2>1, ItemTypes
    <3> QED
      BY <2>4, <3>1 DEF Turns!IsLastOf, Turns!Range
  <2>5. Turns!AcceptedOnce
    <3>1. Turns!IsInjective(Turns!Said)
      BY <2>1 DEF Turns!IsInjective, Turns!SaidInv
    <3>2. ASSUME NEW c \in Conns
          PROVE  /\ \A code \in {"invalid", "session_not_found", "tool_bridge_failed"} :
                      Turns!Done(c, code) =>
                        Turns!Item(c) \notin Turns!Range(Turns!Said)
                 /\ Turns!Done(c, "accepted")
                      /\ Turns!Type(c) \notin {"commit", "terminate"} =>
                      Turns!Item(c) \in Turns!Range(Turns!Said)
      <4>1. ASSUME \E i \in DOMAIN Turns!Said : Turns!Said[i] = Turns!Item(c)
            PROVE  Turns!Item(c) \in Turns!Range(Turns!Said)
        BY <4>1 DEF Turns!Range
      <4> QED
        BY <2>1, <2>4, <4>1 DEF Turns!DoneInv
    <3> QED
      BY <2>1, <3>1, <3>2 DEF Turns!AcceptedOnce, Turns!DoneInv
  <2>6. Turns!CommitsCover
    BY <2>1 DEF Turns!CommitsCover, Turns!SaidInv, Turns!DoneInv, Turns!IsAudioOf
  <2>7. Turns!AnsweredOnce
    <3> SUFFICES ASSUME NEW c \in Conns, Turns!At(c, "idle"), Turns!Nth(c) > 0
                 PROVE  \E code \in Turns!Codes :
                          /\ answers[c] \in {<<code>>, <<"tool_result", code>>}
                          /\ code = "accepted" /\ Turns!MentionsFile(c) =>
                               Len(answers[c]) = 2
      BY DEF Turns!AnsweredOnce
    <3>1. PICK code \in Turns!Codes :
            /\ answers[c] \in {<<code>>, <<"tool_result", code>>}
            /\ code = "accepted" /\ Turns!MentionsFile(c) => answers[c] # <<code>>
      BY <2>1 DEF Turns!AnswersInv
    <3>2. Len(<<"tool_result", code>>) = 2
      OBVIOUS
    <3> QED
      BY <3>1, <3>2
  <2>8. Turns!EndedRefuses
    BY <2>1, <2>4 DEF Turns!EndedRefuses, Turns!EndInv
  <2> QED
    BY <2>3, <2>5, <2>6, <2>7, <2>8
<1> QED
  BY <1>1, <1>2, <1>3, RequestsRun, PTL DEF Turns!Spec
=============================================================================
