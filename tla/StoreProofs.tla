----------------------------- MODULE StoreProofs -----------------------------
(***************************************************************************)
(* What the rate limiter promises for any number of calls and sessions,    *)
(* any limit, any width of the counter and any number of resets, and what  *)
(* the stores of memories and artifacts keep, whatever is called, fails or *)
(* is killed.                                                              *)
(***************************************************************************)
EXTENDS MCStores, FiniteSetTheorems, WellFoundedInduction, TLAPS

----------------------------------------------------------------------------
(* RateLimiter *)

(* A call that has an increment to take back found a counter, and counters *)
(* are never removed.                                                      *)
Counted == \A c \in Callers : pc[c] = "undo" => counts[of[c]] # Absent

(* The calls of a session that have an increment to take back are finitely *)
(* many.                                                                   *)
LEMMA UndoingSize ==
  ASSUME NEW s \in SessionIds
  PROVE  /\ IsFiniteSet(Undoing(s))
         /\ Cardinality(Undoing(s)) \in Nat
         /\ Cardinality(Undoing(s)) <= Cardinality(Callers)
         /\ Cardinality(Callers) \in Nat
BY RateLimiterAssumption, FS_Subset, FS_CardinalityType DEF Undoing

(* Types are preserved by every step. *)
LEMMA TypeNext ==
  ASSUME TypeOK, Counted, [Next]_vars
  PROVE  TypeOK' /\ Counted'
<1>0. Cardinality(Callers) \in Nat
  BY RateLimiterAssumption, FS_CardinalityType
<1> USE RateLimiterAssumption DEF TypeOK, Counted, Go, Allow, Up, Down
<1>1. CASE UNCHANGED vars
  BY <1>1 DEF vars
<1>2. ASSUME NEW c \in Callers, NEW s \in SessionIds, Call(c, s)
      PROVE  TypeOK' /\ Counted'
  BY <1>2 DEF Call
<1>3. ASSUME NEW c \in Callers, Absentee(c) PROVE TypeOK' /\ Counted'
  BY <1>3 DEF Absentee
<1>4. ASSUME NEW c \in Callers, FetchAdd(c) PROVE TypeOK' /\ Counted'
  BY <1>4 DEF FetchAdd
<1>5. ASSUME NEW c \in Callers, FetchSub(c) PROVE TypeOK' /\ Counted'
  <2>1. counts[of[c]] \in 0 .. Size - 1
    BY <1>5 DEF FetchSub
  <2> QED BY <1>5, <2>1 DEF FetchSub
<1>6. ASSUME NEW c \in Callers, WriteLocked(c) PROVE TypeOK' /\ Counted'
  <2>1. Size - 1 > 0
    BY <1>0
  <2> QED BY <1>6, <2>1 DEF WriteLocked
<1>7. ASSUME NEW c \in Callers, Screen(c) PROVE TypeOK' /\ Counted'
  BY <1>7 DEF Screen
<1>8. ASSUME NEW s \in SessionIds, Reset(s) PROVE TypeOK' /\ Counted'
  <2>1. Cardinality(Undoing(s)) \in Nat
    BY UndoingSize
  <2> QED BY <1>8, <2>1 DEF Reset
<1> QED
  BY <1>1, <1>2, <1>3, <1>4, <1>5, <1>6, <1>7, <1>8 DEF Next

(* The counters, histories and locals keep their types; in particular a    *)
(* counter stays a u32, whatever calls and resets overlap.                 *)
THEOREM LimiterTypeCorrect == Spec => []TypeOK
<1>1. Init => TypeOK /\ Counted
  BY RateLimiterAssumption DEF Init, TypeOK, Counted
<1>2. TypeOK /\ Counted /\ [Next]_vars => TypeOK' /\ Counted'
  BY TypeNext
<1> QED
  BY <1>1, <1>2, PTL DEF Spec

----------------------------------------------------------------------------

(* The inductive invariant, of one session: one without a counter has no   *)
(* history, and the two bounds hold together.                              *)
Fresh(s) == allowed[s] = 0 /\ strays[s] = 0 /\ Undoing(s) = {}
Sound(s) ==
  /\ counts[s] = Absent => Fresh(s)
  /\ strays[s] <= Cardinality(Callers)
  /\ allowed[s] <= Limit + strays[s]
  /\ counts[s] # Absent =>
       counts[s] = Behind(allowed[s] + Cardinality(Undoing(s)), strays[s])
IInv == TypeOK /\ Counted /\ \A s \in SessionIds : Sound(s)

(* A step that moves one call changes the calls that undo in one session   *)
(* at most, and by that call.                                              *)
LEMMA UndoingMoves ==
  ASSUME TypeOK, NEW c \in Callers, NEW point, Go(c, point), of' = of,
         NEW s \in SessionIds
  PROVE  /\ (s # of[c] \/ (pc[c] = "undo" <=> point = "undo"))
              => Undoing(s)' = Undoing(s)
         /\ s = of[c] /\ pc[c] # "undo" /\ point = "undo" =>
              Cardinality(Undoing(s)') = Cardinality(Undoing(s)) + 1
         /\ s = of[c] /\ pc[c] = "undo" /\ point # "undo" =>
              /\ Cardinality(Undoing(s)') = Cardinality(Undoing(s)) - 1
              /\ Cardinality(Undoing(s)) > 0
<1>1. CASE s # of[c] \/ (pc[c] = "undo" <=> point = "undo")
  BY <1>1 DEF TypeOK, Go, Undoing
<1>2. CASE s = of[c] /\ pc[c] # "undo" /\ point = "undo"
  <2>1. Undoing(s)' = Undoing(s) \cup {c} /\ c \notin Undoing(s)
    BY <1>2 DEF TypeOK, Go, Undoing
  <2> QED BY <1>2, <2>1, UndoingSize, FS_AddElement
<1>3. CASE s = of[c] /\ pc[c] = "undo" /\ point # "undo"
  <2>1. Undoing(s)' = Undoing(s) \ {c} /\ c \in Undoing(s)
    BY <1>3 DEF TypeOK, Go, Undoing
  <2>2. Cardinality(Undoing(s)') = Cardinality(Undoing(s)) - 1
    BY <2>1, UndoingSize, FS_RemoveElement
  <2>3. Cardinality(Undoing(s)) # 0
    BY <2>1, UndoingSize, FS_EmptySet
  <2> QED BY <1>3, <2>2, <2>3, UndoingSize
<1> QED BY <1>1, <1>2, <1>3

(* Every step keeps the counter of every session sound. *)
LEMMA SoundNext ==
  ASSUME IInv, [Next]_vars, NEW s \in SessionIds
  PROVE  Sound(s)'
<1> DEFINE n == Cardinality(Undoing(s))
           m == Cardinality(Callers)
<1>0. /\ n \in Nat /\ n <= m /\ m \in Nat
      /\ Limit \in Nat \ {0} /\ Size \in Nat /\ Absent \notin Nat
      /\ Limit + m < Size
      /\ allowed[s] \in Nat /\ strays[s] \in Nat
      /\ counts[s] \in (0 .. Size - 1) \cup {Absent}
  BY UndoingSize, RateLimiterAssumption DEF IInv, TypeOK
<1>h. Sound(s) /\ TypeOK /\ Counted
  BY DEF IInv
<1>e. Undoing(s) = {} => n = 0
  BY FS_EmptySet
<1>1. ASSUME Undoing(s)' = Undoing(s), counts'[s] = counts[s],
             allowed'[s] = allowed[s], strays'[s] = strays[s]
      PROVE  Sound(s)'
  BY <1>1, <1>h DEF Sound, Fresh, Behind
<1>2. CASE UNCHANGED vars
  BY <1>2, <1>1 DEF vars, Undoing
<1>3. ASSUME NEW c \in Callers, NEW r \in SessionIds, Call(c, r)
      PROVE  Sound(s)'
  BY <1>1, <1>3, <1>h DEF Call, TypeOK, Go, Undoing
<1>4. ASSUME NEW c \in Callers, Absentee(c) \/ Screen(c)
      PROVE  Sound(s)'
  BY <1>1, <1>4, <1>h DEF Absentee, Screen, TypeOK, Go, Undoing
<1>5. ASSUME NEW c \in Callers, FetchAdd(c), s = of[c]
      PROVE  Sound(s)'
  <2>1. CASE counts[s] >= Limit
    <3>1. /\ counts'[s] = Up(counts[s]) /\ counts[s] # Absent
          /\ allowed' = allowed /\ strays' = strays
          /\ Cardinality(Undoing(s)') = n + 1 /\ counts'[s] # Absent
      BY <1>5, <2>1, <1>0, <1>h, UndoingMoves DEF FetchAdd, TypeOK, Up
    <3>2. n + 1 <= m
      <4>1. Undoing(s)' \subseteq Callers
        BY DEF Undoing
      <4> QED BY <3>1, <4>1, FS_Subset, RateLimiterAssumption
    <3>3. /\ counts[s] = Behind(allowed[s] + n, strays[s])
          /\ allowed[s] <= Limit + strays[s] /\ strays[s] <= m
      BY <3>1, <1>h DEF Sound
    <3>4. Up(counts[s]) = Behind(allowed[s] + (n + 1), strays[s])
      BY <3>2, <3>3, <1>0 DEF Behind, Up
    <3> QED
      BY <3>1, <3>3, <3>4 DEF Sound
  <2>2. CASE ~(counts[s] >= Limit)
    <3>1. /\ counts'[s] = Up(counts[s]) /\ counts[s] # Absent
          /\ allowed'[s] = allowed[s] + 1 /\ strays' = strays
          /\ Undoing(s)' = Undoing(s)
      BY <1>5, <2>2, <1>0, <1>h, UndoingMoves DEF FetchAdd, TypeOK, Allow
    <3>2. /\ counts[s] = Behind(allowed[s] + n, strays[s])
          /\ allowed[s] <= Limit + strays[s] /\ strays[s] <= m
      BY <3>1, <1>h DEF Sound
    <3>3. counts[s] \in 0 .. Limit - 1
      BY <2>2, <3>1, <1>0
    <3>4. Up(counts[s]) = Behind((allowed[s] + 1) + n, strays[s])
      BY <3>2, <3>3, <1>0 DEF Behind, Up
    <3>5. Up(counts[s]) # Absent /\ allowed[s] + 1 <= Limit + strays[s]
      BY <3>2, <3>3, <1>0 DEF Behind, Up
    <3> QED
      BY <3>1, <3>2, <3>4, <3>5 DEF Sound
  <2> QED BY <2>1, <2>2
<1>6. ASSUME NEW c \in Callers, FetchSub(c), s = of[c]
      PROVE  Sound(s)'
  <2>1. /\ counts[s] # Absent /\ counts'[s] = Down(counts[s])
        /\ allowed' = allowed /\ strays' = strays
        /\ Cardinality(Undoing(s)') = n - 1 /\ n > 0
    BY <1>6, <1>0, <1>h, UndoingMoves DEF FetchSub, TypeOK, Counted
  <2>2. counts'[s] # Absent
    BY <2>1, <1>0 DEF Down
  <2> QED
    BY <2>1, <2>2, <1>0, <1>h DEF Sound, Behind, Down
<1>7. ASSUME NEW c \in Callers, WriteLocked(c), s = of[c]
      PROVE  Sound(s)'
  <2>1. Undoing(s)' = Undoing(s) /\ Undoing(s) = {} /\ strays' = strays
    BY <1>7, <1>h, UndoingMoves DEF WriteLocked, Unlocked, Undoing, TypeOK, Go
  <2>2. CASE counts[s] # Absent /\ counts[s] >= Limit
    BY <1>7, <2>1, <2>2, <1>1 DEF WriteLocked
  <2>3. CASE counts[s] # Absent /\ ~(counts[s] >= Limit)
    <3>1. counts'[s] = Up(counts[s]) /\ allowed'[s] = allowed[s] + 1
      BY <1>7, <2>3, <1>h DEF WriteLocked, Allow, TypeOK
    <3> QED
      BY <2>1, <2>3, <3>1, <1>0, <1>e, <1>h DEF Sound, Behind, Up
  <2>4. CASE counts[s] = Absent
    <3>1. counts'[s] = Up(0) /\ allowed'[s] = 1
      BY <1>7, <2>4, <1>h DEF WriteLocked, Allow, TypeOK, Sound, Fresh
    <3>2. counts'[s] = 1 /\ strays[s] = 0
      BY <3>1, <2>4, <1>0, <1>h DEF Up, Sound, Fresh
    <3> QED
      BY <2>1, <3>1, <3>2, <1>0, <1>e DEF Sound, Behind
  <2> QED BY <2>2, <2>3, <2>4
<1>8. ASSUME NEW c \in Callers, FetchAdd(c) \/ FetchSub(c) \/ WriteLocked(c),
             s # of[c]
      PROVE  Sound(s)'
  <2>1. /\ of' = of
        /\ Go(c, "undo") \/ Go(c, "screen") \/ Go(c, "idle")
    BY <1>8 DEF FetchAdd, FetchSub, WriteLocked
  <2>2. Undoing(s)' = Undoing(s)
    BY <1>8, <2>1, <1>h, UndoingMoves
  <2>3. /\ counts'[s] = counts[s] /\ allowed'[s] = allowed[s]
        /\ strays'[s] = strays[s]
    BY <1>8, <1>h DEF FetchAdd, FetchSub, WriteLocked, Allow, TypeOK
  <2> QED BY <2>2, <2>3, <1>1
<1>9. ASSUME NEW r \in SessionIds, Reset(r)
      PROVE  Sound(s)'
  <2>1. Undoing(s)' = Undoing(s) /\ n = Cardinality(Undoing(s)')
    BY <1>9 DEF Reset, Undoing
  <2>2. CASE r = s
    <3>1. counts'[s] = 0 /\ allowed'[s] = 0 /\ strays'[s] = n
      BY <1>9, <2>2, <1>h DEF Reset, TypeOK
    <3> QED
      BY <2>1, <3>1, <1>0 DEF Sound, Behind
  <2>3. CASE r # s
    BY <1>9, <2>1, <2>3, <1>1, <1>h DEF Reset, TypeOK
  <2> QED BY <2>2, <2>3
<1> QED
  BY <1>2, <1>3, <1>4, <1>5, <1>6, <1>7, <1>8, <1>9 DEF Next

(* It holds in every reachable state. *)
LEMMA IInvariant == Spec => []IInv
<1>1. Init => IInv
  <2> SUFFICES ASSUME Init PROVE IInv
    OBVIOUS
  <2>1. TypeOK /\ Counted
    BY RateLimiterAssumption DEF Init, TypeOK, Counted
  <2>2. ASSUME NEW s \in SessionIds PROVE Sound(s)
    BY UndoingSize, RateLimiterAssumption DEF Init, Sound, Fresh, Undoing
  <2> QED BY <2>1, <2>2 DEF IInv
<1>2. IInv /\ [Next]_vars => IInv'
  BY TypeNext, SoundNext DEF IInv
<1> QED
  BY <1>1, <1>2, PTL DEF Spec

(* Racing calls get at most Limit executions out of a counter, and one     *)
(* more for every call the last reset caught between its two accesses.     *)
THEOREM LimitHolds == Spec => []WithinLimit
<1>1. IInv => WithinLimit
  BY DEF IInv, Sound, WithinLimit
<1> QED
  BY <1>1, IInvariant, PTL

(* The counter is the calls allowed plus the increments to be taken back,  *)
(* less those a reset forgot, whatever overlaps.                           *)
THEOREM CounterDriftsByStrays == Spec => []CounterDrift
<1>1. IInv => CounterDrift
  BY DEF IInv, Sound, CounterDrift
<1> QED
  BY <1>1, IInvariant, PTL

----------------------------------------------------------------------------

(* Without resets nothing strays and only sessions at the limit block. *)
Settled ==
  /\ \A s \in SessionIds : strays[s] = 0
  /\ BlockedAtLimit

(* Every step that is no reset keeps it so. *)
LEMMA SettledNext ==
  ASSUME MaxResets = 0, IInv, Settled, [Next]_vars
  PROVE  Settled'
<1>h. TypeOK /\ Counted
  BY DEF IInv
<1>0. Limit \in Nat
  BY RateLimiterAssumption
<1>1. ASSUME NEW s \in SessionIds
      PROVE  /\ allowed[s] \in Nat
             /\ counts[s] # Absent =>
                  counts[s] = allowed[s] + Cardinality(Undoing(s))
             /\ Cardinality(Undoing(s)) \in Nat
  BY UndoingSize DEF IInv, Sound, Settled, TypeOK, Behind
<1>2. CASE UNCHANGED vars
  BY <1>2 DEF vars, Settled, BlockedAtLimit, Undoing
<1>3. ASSUME NEW c \in Callers, NEW s \in SessionIds, Call(c, s)
      PROVE  Settled'
  BY <1>3, <1>h DEF Call, Go, Settled, BlockedAtLimit, Undoing, TypeOK
<1>4. ASSUME NEW c \in Callers, Absentee(c) \/ Screen(c)
      PROVE  Settled'
  BY <1>4, <1>h DEF Absentee, Screen, Go, Settled, BlockedAtLimit, Undoing, TypeOK
<1>5. ASSUME NEW c \in Callers, FetchAdd(c)
      PROVE  Settled'
  <2>1. CASE counts[of[c]] >= Limit
    <3>1. of[c] \in SessionIds /\ counts[of[c]] # Absent
      BY <1>5, <1>h DEF FetchAdd, TypeOK
    <3>2. allowed[of[c]] >= Limit
      <4>1. CASE Undoing(of[c]) = {}
        BY <1>1, <2>1, <3>1, <4>1, FS_EmptySet
      <4>2. CASE Undoing(of[c]) # {}
        BY <3>1, <4>2 DEF Settled, BlockedAtLimit
      <4> QED BY <4>1, <4>2
    <3> QED
      BY <1>5, <1>h, <2>1, <3>2 DEF FetchAdd, Go, Settled, BlockedAtLimit,
                                    Undoing, TypeOK
  <2>2. CASE ~(counts[of[c]] >= Limit)
    <3>1. \A s \in SessionIds : Undoing(s)' = Undoing(s) /\ allowed'[s] >= allowed[s]
      BY <1>1, <1>5, <1>h, <2>2 DEF FetchAdd, Go, Allow, Undoing, TypeOK
    <3>2. \A s \in SessionIds : allowed'[s] \in Nat
      BY <1>5, <1>h, <2>2 DEF FetchAdd, Allow, TypeOK
    <3> QED
      BY <1>0, <1>1, <1>5, <2>2, <3>1, <3>2 DEF FetchAdd, Settled, BlockedAtLimit
  <2> QED BY <2>1, <2>2
<1>6. ASSUME NEW c \in Callers, FetchSub(c)
      PROVE  Settled'
  BY <1>6, <1>h DEF FetchSub, Go, Settled, BlockedAtLimit, Undoing, TypeOK
<1>7. ASSUME NEW c \in Callers, WriteLocked(c)
      PROVE  Settled'
  <2>1. /\ of[c] \in SessionIds
        /\ \A s \in SessionIds : Undoing(s) = {} /\ Undoing(s)' = {}
        /\ strays' = strays
    BY <1>7, <1>h DEF WriteLocked, Unlocked, Go, Undoing, TypeOK
  <2>2. CASE counts[of[c]] # Absent /\ counts[of[c]] >= Limit
    <3>1. allowed[of[c]] >= Limit
      <4>1. Cardinality(Undoing(of[c])) = 0
        BY <2>1, FS_EmptySet
      <4> QED BY <1>1, <2>1, <2>2, <4>1
    <3> QED
      BY <1>7, <2>1, <2>2, <3>1 DEF WriteLocked, Settled, BlockedAtLimit
  <2>3. CASE ~(counts[of[c]] # Absent /\ counts[of[c]] >= Limit)
    <3>1. \A s \in SessionIds : allowed'[s] \in Nat /\ allowed'[s] >= allowed[s]
      BY <1>1, <1>7, <1>h, <2>3 DEF WriteLocked, Allow, TypeOK
    <3> QED
      BY <1>0, <1>1, <1>7, <2>1, <2>3, <3>1 DEF WriteLocked, Settled, BlockedAtLimit
  <2> QED BY <2>2, <2>3
<1>8. ASSUME NEW s \in SessionIds, Reset(s)
      PROVE  Settled'
  BY <1>8, <1>h DEF Reset, TypeOK
<1> QED
  BY <1>2, <1>3, <1>4, <1>5, <1>6, <1>7, <1>8 DEF Next

(* As long as nothing calls reset, the increments that are taken back      *)
(* never block a call that the limit would let in.                         *)
THEOREM NoFalseBlocks ==
  ASSUME MaxResets = 0
  PROVE  Spec => []BlockedAtLimit
<1>1. Init => Settled
  BY DEF Init, Settled, BlockedAtLimit, Undoing
<1>2. IInv /\ Settled /\ [Next]_vars => Settled'
  BY SettledNext
<1>3. Settled => BlockedAtLimit
  BY DEF Settled
<1> QED
  BY <1>1, <1>2, <1>3, IInvariant, PTL DEF Spec

----------------------------------------------------------------------------
(* The parts side by side *)

(* A behaviour of the parts is one of the store of memories and one of the *)
(* artifacts.                                                              *)
LEMMA StoresRun ==
  StoresSpec => Spec /\ Memories!Spec /\ Artifacts!Spec
<1> DEFINE Limits == [Next]_vars
           Remembers == [Memories!Next]_(Memories!vars)
           Saves == [Artifacts!Next]_(Artifacts!vars)
<1>1. StoresInit => Init /\ Memories!Init /\ Artifacts!Init
  BY DEF StoresInit
<1>2. [StoresNext]_storesVars => Limits /\ Remembers /\ Saves
  <2>1. UNCHANGED memoryVars => Remembers
    BY DEF memoryVars, Memories!vars
  <2>2. UNCHANGED artifactVars => Saves
    BY DEF artifactVars, Artifacts!vars
  <2> HIDE DEF Limits, Remembers, Saves
  <2>3. OnlyLimiter => Remembers /\ Saves
    BY <2>1, <2>2 DEF OnlyLimiter
  <2>4. OnlyList => Limits /\ Remembers /\ Saves
    <3>1. OnlyList =>
            UNCHANGED vars /\ UNCHANGED memoryVars /\ UNCHANGED artifactVars
      BY DEF OnlyList
    <3> QED
      BY <2>1, <2>2, <3>1 DEF Limits
  <2>5. OnlyLifecycle => Limits /\ Remembers /\ Saves
    <3>1. OnlyLifecycle =>
            UNCHANGED vars /\ UNCHANGED memoryVars /\ UNCHANGED artifactVars
      BY DEF OnlyLifecycle
    <3> QED
      BY <2>1, <2>2, <3>1 DEF Limits
  <2>6. OnlyMemories => Limits /\ Saves
    <3>1. OnlyMemories => UNCHANGED vars /\ UNCHANGED artifactVars
      BY DEF OnlyMemories
    <3> QED
      BY <2>2, <3>1 DEF Limits
  <2>7. OnlyArtifacts => Limits /\ Remembers
    <3>1. OnlyArtifacts => UNCHANGED vars /\ UNCHANGED memoryVars
      BY DEF OnlyArtifacts
    <3> QED
      BY <2>1, <3>1 DEF Limits
  <2>8. UNCHANGED storesVars => Limits /\ Remembers /\ Saves
    <3>1. UNCHANGED storesVars =>
            UNCHANGED vars /\ UNCHANGED memoryVars /\ UNCHANGED artifactVars
      BY DEF storesVars
    <3> QED
      BY <2>1, <2>2, <3>1 DEF Limits
  <2>9. StoresNext =>
          \/ OnlyLimiter /\ Next
          \/ OnlyList \/ OnlyLifecycle
          \/ OnlyMemories /\ Memories!Next
          \/ OnlyArtifacts /\ Artifacts!Next
    <3> HAVE StoresNext
    <3>1. CASE \/ \E c \in Callers :
                    \/ \E s \in SessionIds : LimiterCall(c, s)
                    \/ LimiterAbsentee(c) \/ LimiterFetchAdd(c)
                    \/ LimiterFetchSub(c) \/ LimiterWriteLocked(c)
                    \/ LimiterScreen(c)
               \/ \E s \in SessionIds : LimiterReset(s)
      BY <3>1 DEF LimiterCall, LimiterAbsentee, LimiterFetchAdd, LimiterFetchSub,
         LimiterWriteLocked, LimiterScreen, LimiterReset, Next
    <3>2. CASE \/ ListCalled \/ ListLocal \/ ListAddSession \/ ListSaveArtifact
               \/ ListTerminateStep
      BY <3>2 DEF ListCalled, ListLocal, ListAddSession, ListSaveArtifact,
         ListTerminateStep
    <3>3. CASE \/ LifecycleCalled \/ LifecycleInitializeSession \/ LifecycleIngest
               \/ LifecycleCount \/ LifecycleLifecycleFails \/ LifecycleSnapshot
               \/ LifecycleKeep \/ LifecycleLocal \/ LifecycleAddSession
               \/ LifecycleSaveArtifact \/ LifecycleClearTracking
               \/ LifecycleTakeEntries \/ LifecycleStoreSummary \/ LifecycleAbort
      BY <3>3 DEF LifecycleCalled, LifecycleInitializeSession, LifecycleIngest,
         LifecycleCount, LifecycleLifecycleFails, LifecycleSnapshot, LifecycleKeep,
         LifecycleLocal, LifecycleAddSession, LifecycleSaveArtifact,
         LifecycleClearTracking, LifecycleTakeEntries, LifecycleStoreSummary,
         LifecycleAbort
    <3>4. CASE \/ MemoryLoadStore \/ MemoryCrash
               \/ \E w \in Writers :
                    \/ MemoryInsert(w) \/ MemoryOpenTmp(w) \/ MemoryWriteTmp(w)
                    \/ MemoryRename(w) \/ MemoryPersistFails(w)
      BY <3>4 DEF MemoryLoadStore, MemoryCrash, MemoryInsert, MemoryOpenTmp,
         MemoryWriteTmp, MemoryRename, MemoryPersistFails, Memories!Next
    <3>5. CASE \E f \in Files :
                 \/ ArtifactCreateDir(f) \/ ArtifactChooseVersion(f)
                 \/ ArtifactOpen(f) \/ ArtifactWrite(f) \/ ArtifactDeleteVersion(f)
                 \/ ArtifactDeleteAll(f) \/ ArtifactCrash(f)
      BY <3>5 DEF ArtifactCreateDir, ArtifactChooseVersion, ArtifactOpen,
         ArtifactWrite, ArtifactDeleteVersion, ArtifactDeleteAll, ArtifactCrash,
         Artifacts!Next
    <3> QED
      BY <3>1, <3>2, <3>3, <3>4, <3>5 DEF StoresNext
  <2>10. OnlyLimiter /\ Next => Limits
    BY DEF Limits
  <2>11. OnlyMemories /\ Memories!Next => Remembers
    BY DEF Remembers
  <2>12. OnlyArtifacts /\ Artifacts!Next => Saves
    BY DEF Saves
  <2> QED
    BY <2>3, <2>4, <2>5, <2>6, <2>7, <2>8, <2>9, <2>10, <2>11, <2>12
<1> QED
  BY <1>1, <1>2, PTL DEF StoresSpec, Spec, Memories!Spec, Artifacts!Spec

----------------------------------------------------------------------------
(* MemoryStore *)

(* What is known of the map, the files and the writers. *)
MapInv ==
  /\ store \in Memories!Contents
  /\ {file, tmp} \subseteq Memories!Contents \cup {None, Partial}
  /\ file # Partial
  /\ up \in BOOLEAN /\ behind \in BOOLEAN /\ adds \in 0 .. MaxAdds
  /\ acked \in [Memories!Keys -> 0 .. MaxAdds]

(* The writer that persists is the one that holds the lock, and its memory *)
(* is in the map; the finished temporary file is the map.                  *)
WriterInv ==
  /\ lock \in Writers \cup {None}
  /\ lock # None => up
  /\ DOMAIN writer = Writers
  /\ \A w \in Writers :
       /\ writer[w].pc # "idle" <=> lock = w
       /\ lock = w => /\ writer[w] \in [pc : {"open", "write", "rename"},
                                        key : Memories!Keys]
                      /\ store[writer[w].key] # None
       /\ writer[w].pc = "rename" => tmp = store

(* Later calls have greater numbers: the map is never older than the file, *)
(* and the file not older than what was acknowledged.                      *)
AgeInv ==
  \A k \in Memories!Keys :
    /\ acked[k] <= Memories!Number(file, k)
    /\ Memories!Number(file, k) <= adds
    /\ up => Memories!Number(file, k) <= Memories!Number(store, k)
    /\ Memories!Number(store, k) <= adds

MemoryInv == MapInv /\ WriterInv /\ AgeInv /\ Memories!FileFollowsStore

(* The number of a memory in a map. *)
LEMMA NumberOf ==
  ASSUME NEW m \in Memories!Contents, NEW k \in Memories!Keys
  PROVE  /\ m # None /\ m # Partial
         /\ Memories!Number(m, k) = IF m[k] = None THEN 0 ELSE m[k].n
         /\ Memories!Number(m, k) \in 0 .. MaxAdds
         /\ m[k] # None => m[k] \in Memories!Remembered
<1>1. /\ m # None /\ m # Partial /\ 0 \in 0 .. MaxAdds
  BY StoresAssumption DEF Memories!MemoryStoreAssumption
<1>2. m[k] # None => m[k] \in Memories!Remembered
  BY DEF Memories!Contents
<1>3. m[k] # None => m[k].n \in 0 .. MaxAdds
  BY <1>2, StoresAssumption DEF Memories!Remembered, Memories!MemoryStoreAssumption
<1> QED
  BY <1>1, <1>2, <1>3 DEF Memories!Number

(* The numbers of a file: there are none without a file. *)
LEMMA NumbersInFile ==
  ASSUME MapInv, NEW k \in Memories!Keys
  PROVE  /\ Memories!Number(file, k) \in Nat
         /\ file = None => Memories!Number(file, k) = 0
         /\ Memories!Number(store, k) \in Nat
         /\ adds \in Nat /\ acked[k] \in Nat /\ MaxAdds \in Nat
<1>1. /\ file \in Memories!Contents \/ file = None
      /\ store \in Memories!Contents
  BY DEF MapInv
<1>2. adds \in Nat /\ acked[k] \in Nat /\ MaxAdds \in Nat
  BY StoresAssumption DEF MapInv, Memories!MemoryStoreAssumption
<1>3. file = None => Memories!Number(file, k) = 0
  BY DEF Memories!Number
<1> QED
  BY <1>1, <1>2, <1>3, NumberOf

(* The map without memories. *)
LEMMA EmptyMap ==
  /\ Memories!Empty \in Memories!Contents
  /\ \A k \in Memories!Keys : Memories!Number(Memories!Empty, k) = 0
<1>1. Memories!Empty \in Memories!Contents
  BY DEF Memories!Empty, Memories!Contents
<1>2. \A k \in Memories!Keys : Memories!Empty[k] = None
  BY DEF Memories!Empty
<1> QED
  BY <1>1, <1>2, NumberOf

(* The process starts or is killed. *)
LEMMA MemoryProcess ==
  ASSUME MemoryInv, Memories!LoadStore \/ Memories!Crash
  PROVE  MemoryInv'
<1>1. CASE Memories!LoadStore
  <2>1. /\ ~up /\ up' = TRUE /\ behind' = FALSE
        /\ store' = IF file = None THEN Memories!Empty ELSE file
        /\ UNCHANGED <<lock, writer, file, tmp, adds, acked>>
    BY <1>1 DEF Memories!LoadStore
  <2>2. lock = None /\ \A w \in Writers : writer[w].pc = "idle"
    BY <2>1, StoresAssumption
       DEF MemoryInv, WriterInv, Memories!MemoryStoreAssumption
  <2>3. store' \in Memories!Contents
    BY <2>1, EmptyMap DEF MemoryInv, MapInv
  <2>4. MapInv'
    BY <2>1, <2>3 DEF MemoryInv, MapInv
  <2>5. WriterInv'
    BY <2>1, <2>2, StoresAssumption
       DEF MemoryInv, WriterInv, Memories!MemoryStoreAssumption
  <2>6. AgeInv'
    <3> SUFFICES ASSUME NEW k \in Memories!Keys
                 PROVE  /\ acked[k] <= Memories!Number(file, k)
                        /\ Memories!Number(file, k) <= adds
                        /\ Memories!Number(file, k) <= Memories!Number(store', k)
                        /\ Memories!Number(store', k) <= adds
      BY <2>1 DEF AgeInv, Memories!Keys, Memories!Number
    <3>1. Memories!Number(store', k) = Memories!Number(file, k)
      BY <2>1, EmptyMap, NumbersInFile DEF MemoryInv
    <3> QED
      BY <3>1, NumbersInFile DEF MemoryInv, AgeInv
  <2>7. Memories!FileFollowsStore'
    BY <2>1 DEF Memories!FileFollowsStore, Memories!Empty, Memories!Keys
  <2> QED
    BY <2>4, <2>5, <2>6, <2>7 DEF MemoryInv
<1>2. CASE Memories!Crash
  <2>1. /\ up' = FALSE /\ store' = Memories!Empty /\ lock' = None
        /\ writer' = [w \in Writers |-> Memories!Idle]
        /\ UNCHANGED <<file, tmp, adds, acked, behind>>
    BY <1>2 DEF Memories!Crash
  <2>2. MapInv'
    BY <2>1, EmptyMap DEF MemoryInv, MapInv
  <2>3. WriterInv'
    BY <2>1, StoresAssumption
       DEF WriterInv, Memories!Idle, Memories!MemoryStoreAssumption
  <2>4. AgeInv'
    <3> SUFFICES ASSUME NEW k \in Memories!Keys
                 PROVE  /\ acked[k] <= Memories!Number(file, k)
                        /\ Memories!Number(file, k) <= adds
                        /\ Memories!Number(store', k) <= adds
      BY <2>1 DEF AgeInv, Memories!Keys, Memories!Number
    <3> QED
      BY <2>1, EmptyMap, NumbersInFile DEF MemoryInv, AgeInv
  <2>5. Memories!FileFollowsStore'
    BY <2>1 DEF Memories!FileFollowsStore
  <2> QED
    BY <2>2, <2>3, <2>4, <2>5 DEF MemoryInv
<1> QED
  BY <1>1, <1>2

(* A call adds a memory under the lock. *)
LEMMA MemoryInserts ==
  ASSUME MemoryInv, NEW w \in Writers, Memories!Insert(w)
  PROVE  MemoryInv'
<1>1. PICK k \in Memories!Keys, word \in Words :
        /\ store' = [store EXCEPT ![k] = Memories!Memory(adds + 1, word)]
        /\ writer' = [writer EXCEPT ![w] = [pc |-> "open", key |-> k]]
  BY DEF Memories!Insert
<1>2. /\ up /\ lock = None /\ lock' = w /\ adds < MaxAdds /\ adds' = adds + 1
      /\ UNCHANGED <<up, file, tmp, acked, behind>>
  BY DEF Memories!Insert
<1>3. /\ MaxAdds \in Nat /\ adds \in Nat /\ None \notin Writers
      /\ None \notin Memories!Remembered
  BY StoresAssumption DEF MemoryInv, MapInv, Memories!MemoryStoreAssumption
<1>4. Memories!Memory(adds + 1, word) \in Memories!Remembered
  BY <1>2, <1>3 DEF Memories!Memory, Memories!Remembered
<1>5. /\ store' \in Memories!Contents
      /\ store'[k] = Memories!Memory(adds + 1, word)
      /\ \A j \in Memories!Keys \ {k} : store'[j] = store[j]
  BY <1>1, <1>4 DEF MemoryInv, MapInv, Memories!Contents
<1>6. MapInv'
  BY <1>2, <1>3, <1>5 DEF MemoryInv, MapInv
<1>7. WriterInv'
  <2>1. /\ DOMAIN writer' = Writers /\ writer'[w] = [pc |-> "open", key |-> k]
        /\ \A v \in Writers \ {w} : writer'[v] = writer[v] /\ writer[v].pc = "idle"
    BY <1>1, <1>2, <1>3 DEF MemoryInv, WriterInv
  <2>2. store'[k] # None
    BY <1>3, <1>4, <1>5
  <2> QED
    BY <1>2, <2>1, <2>2 DEF WriterInv
<1>8. AgeInv'
  <2> SUFFICES ASSUME NEW j \in Memories!Keys
               PROVE  /\ acked[j] <= Memories!Number(file, j)
                      /\ Memories!Number(file, j) <= adds + 1
                      /\ Memories!Number(file, j) <= Memories!Number(store', j)
                      /\ Memories!Number(store', j) <= adds + 1
    BY <1>2 DEF AgeInv, Memories!Keys, Memories!Number
  <2>1. /\ acked[j] <= Memories!Number(file, j)
        /\ Memories!Number(file, j) <= adds
        /\ Memories!Number(file, j) <= Memories!Number(store, j)
        /\ Memories!Number(store, j) <= adds
    BY <1>2 DEF MemoryInv, AgeInv
  <2>2. /\ Memories!Number(file, j) \in Nat /\ Memories!Number(store, j) \in Nat
        /\ store \in Memories!Contents
    BY NumbersInFile DEF MemoryInv, MapInv
  <2>3. CASE j = k
    <3>1. Memories!Number(store', j) = adds + 1
      BY <1>3, <1>4, <1>5, <2>3, NumberOf DEF Memories!Memory
    <3> QED
      BY <1>3, <2>1, <2>2, <3>1
  <2>4. CASE j # k
    <3>1. Memories!Number(store', j) = Memories!Number(store, j)
      BY <1>5, <2>2, <2>4, NumberOf
    <3> QED
      BY <1>3, <2>1, <2>2, <3>1
  <2> QED
    BY <2>3, <2>4
<1>9. Memories!FileFollowsStore'
  BY <1>2, <1>3 DEF Memories!FileFollowsStore
<1> QED
  BY <1>6, <1>7, <1>8, <1>9 DEF MemoryInv

(* The writer persists the map, or fails to. *)
LEMMA MemoryPersists ==
  ASSUME MemoryInv, NEW w \in Writers,
         \/ Memories!OpenTmp(w) \/ Memories!WriteTmp(w) \/ Memories!Rename(w)
         \/ Memories!PersistFails(w)
  PROVE  MemoryInv'
<1>1. /\ lock = w /\ up /\ store' = store /\ UNCHANGED <<up, adds>>
      /\ writer[w] \in [pc : {"open", "write", "rename"}, key : Memories!Keys]
      /\ store[writer[w].key] # None
      /\ \A v \in Writers \ {w} : writer[v].pc = "idle"
      /\ w # None /\ DOMAIN writer = Writers
  BY StoresAssumption DEF Memories!OpenTmp, Memories!WriteTmp, Memories!Rename,
     Memories!PersistFails, MemoryInv, WriterInv, Memories!MemoryStoreAssumption
<1>2. store \in Memories!Contents
  BY DEF MemoryInv, MapInv
<1>3. CASE Memories!OpenTmp(w) \/ Memories!WriteTmp(w)
  <2>1. PICK p \in {"write", "rename"} :
          /\ writer' = [writer EXCEPT ![w].pc = p]
          /\ tmp' \in {Partial, store}
          /\ p = "rename" => tmp' = store
    BY <1>3 DEF Memories!OpenTmp, Memories!WriteTmp, Memories!Goes
  <2>2. UNCHANGED <<lock, file, acked, behind>>
    BY <1>3 DEF Memories!OpenTmp, Memories!WriteTmp
  <2>3. MapInv'
    BY <1>1, <1>2, <2>1, <2>2 DEF MemoryInv, MapInv
  <2>4. WriterInv'
    <3>1. /\ DOMAIN writer' = Writers /\ writer'[w].pc = p
          /\ writer'[w].key = writer[w].key
          /\ writer'[w] \in [pc : {"open", "write", "rename"}, key : Memories!Keys]
          /\ \A v \in Writers \ {w} : writer'[v] = writer[v]
      BY <1>1, <2>1
    <3>2. p = "rename" => tmp' = store'
      BY <1>1, <2>1
    <3> QED
      BY <1>1, <2>2, <3>1, <3>2 DEF WriterInv
  <2>5. AgeInv'
    BY <1>1, <2>2 DEF MemoryInv, AgeInv, Memories!Keys, Memories!Number
  <2>6. Memories!FileFollowsStore'
    BY <1>1, <2>2 DEF Memories!FileFollowsStore
  <2> QED
    BY <2>3, <2>4, <2>5, <2>6 DEF MemoryInv
<1>4. CASE Memories!PersistFails(w)
  <2>1. /\ writer' = [writer EXCEPT ![w] = Memories!Idle]
        /\ lock' = None /\ behind' = TRUE /\ UNCHANGED <<file, tmp, acked>>
    BY <1>4 DEF Memories!PersistFails
  <2>2. MapInv'
    BY <1>1, <2>1 DEF MemoryInv, MapInv
  <2>3. WriterInv'
    <3>1. DOMAIN writer' = Writers /\ \A v \in Writers : writer'[v].pc = "idle"
      BY <1>1, <2>1 DEF Memories!Idle
    <3> QED
      BY <2>1, <3>1, StoresAssumption DEF WriterInv, Memories!MemoryStoreAssumption
  <2>4. AgeInv'
    BY <1>1, <2>1 DEF MemoryInv, AgeInv, Memories!Keys, Memories!Number
  <2>5. Memories!FileFollowsStore'
    BY <2>1 DEF Memories!FileFollowsStore
  <2> QED
    BY <2>2, <2>3, <2>4, <2>5 DEF MemoryInv
<1>5. CASE Memories!Rename(w)
  <2> DEFINE k == writer[w].key
  <2>1. /\ writer[w].pc = "rename" /\ file' = tmp /\ tmp' = None
        /\ acked' = [acked EXCEPT ![k] = store[k].n]
        /\ writer' = [writer EXCEPT ![w] = Memories!Idle]
        /\ lock' = None /\ behind' = FALSE
    BY <1>5 DEF Memories!Rename
  <2>2. file' = store /\ k \in Memories!Keys /\ store[k] # None
    BY <1>1, <2>1 DEF MemoryInv, WriterInv
  <2>3. /\ store # None /\ store # Partial
        /\ Memories!Number(store, k) = store[k].n
        /\ store[k].n \in 0 .. MaxAdds
    BY <1>2, <2>2, NumberOf
  <2> HIDE DEF k
  <2>4. MapInv'
    BY <1>1, <1>2, <2>1, <2>2, <2>3 DEF MemoryInv, MapInv
  <2>5. WriterInv'
    <3>1. DOMAIN writer' = Writers /\ \A v \in Writers : writer'[v].pc = "idle"
      BY <1>1, <2>1 DEF Memories!Idle
    <3> QED
      BY <2>1, <3>1, StoresAssumption DEF WriterInv, Memories!MemoryStoreAssumption
  <2>6. AgeInv'
    <3> SUFFICES ASSUME NEW j \in Memories!Keys
                 PROVE  /\ acked'[j] <= Memories!Number(store, j)
                        /\ Memories!Number(store, j) <= adds
                        /\ Memories!Number(store, j) <= Memories!Number(store, j)
      BY <1>1, <2>2 DEF AgeInv, Memories!Keys, Memories!Number
    <3>1. /\ acked[j] <= Memories!Number(file, j)
          /\ Memories!Number(file, j) <= Memories!Number(store, j)
          /\ Memories!Number(store, j) <= adds
      BY <1>1 DEF MemoryInv, AgeInv
    <3>2. /\ acked[j] \in Nat /\ Memories!Number(file, j) \in Nat
          /\ Memories!Number(store, j) \in Nat
      BY NumbersInFile DEF MemoryInv
    <3>3. acked'[j] = IF j = k THEN Memories!Number(store, k) ELSE acked[j]
      BY <2>1, <2>2, <2>3 DEF MemoryInv, MapInv
    <3> QED
      BY <3>1, <3>2, <3>3
  <2>7. Memories!FileFollowsStore'
    BY <1>1, <2>2, <2>3 DEF Memories!FileFollowsStore
  <2> QED
    BY <2>4, <2>5, <2>6, <2>7 DEF MemoryInv
<1> QED
  BY <1>3, <1>4, <1>5

(* A process that was killed can start again, what add_session has         *)
(* acknowledged survives kills and failures of any number and at any step, *)
(* and between calls the file is the map unless the last write failed.     *)
THEOREM MemoriesAreDurable == StoresSpec => []MemoriesDurable
<1>1. Memories!Init => MemoryInv
  <2> SUFFICES ASSUME Memories!Init
               PROVE  MemoryInv
    OBVIOUS
  <2>1. /\ up = FALSE /\ store = Memories!Empty /\ lock = None
        /\ writer = [w \in Writers |-> Memories!Idle]
        /\ file = None /\ tmp = None /\ adds = 0 /\ behind = FALSE
        /\ acked = [k \in Memories!Keys |-> 0]
    BY DEF Memories!Init
  <2>2. MaxAdds \in Nat /\ None # Partial /\ None \notin Writers
    BY StoresAssumption DEF Memories!MemoryStoreAssumption
  <2>3. MapInv
    <3>1. adds \in 0 .. MaxAdds /\ acked \in [Memories!Keys -> 0 .. MaxAdds]
      BY <2>1, <2>2
    <3>2. store \in Memories!Contents
      BY <2>1, EmptyMap
    <3> QED
      BY <2>1, <2>2, <3>1, <3>2 DEF MapInv
  <2>4. WriterInv
    BY <2>1, <2>2 DEF WriterInv, Memories!Idle
  <2>5. AgeInv
    BY <2>1, <2>3, EmptyMap, NumbersInFile DEF AgeInv
  <2>6. Memories!FileFollowsStore
    BY <2>1 DEF Memories!FileFollowsStore
  <2> QED
    BY <2>3, <2>4, <2>5, <2>6 DEF MemoryInv
<1>2. MemoryInv /\ [Memories!Next]_(Memories!vars) => MemoryInv'
  <2> SUFFICES ASSUME MemoryInv, [Memories!Next]_(Memories!vars)
               PROVE  MemoryInv'
    OBVIOUS
  <2>1. CASE UNCHANGED Memories!vars
    <3>1. UNCHANGED <<up, store, lock, writer, file, tmp, adds, acked, behind>>
      BY <2>1 DEF Memories!vars
    <3>2. MapInv' /\ WriterInv'
      BY <3>1 DEF MemoryInv, MapInv, WriterInv
    <3>3. AgeInv' /\ Memories!FileFollowsStore'
      BY <3>1 DEF MemoryInv, AgeInv, Memories!FileFollowsStore, Memories!Number,
         Memories!Keys, Memories!Empty
    <3> QED
      BY <3>2, <3>3 DEF MemoryInv
  <2> QED
    BY <2>1, MemoryProcess, MemoryInserts, MemoryPersists DEF Memories!Next
<1>3. MemoryInv => MemoriesDurable
  <2> SUFFICES ASSUME MemoryInv
               PROVE  MemoriesDurable
    OBVIOUS
  <2>1. Memories!TypeOK
    BY StoresAssumption DEF MemoryInv, MapInv, WriterInv, Memories!TypeOK,
       Memories!MemoryStoreAssumption
  <2>2. Memories!Readable /\ Memories!AcknowledgedIsDurable
    BY DEF MemoryInv, MapInv, AgeInv, Memories!Readable,
       Memories!AcknowledgedIsDurable
  <2> QED
    BY <2>1, <2>2 DEF MemoryInv, MemoriesDurable
<1> QED
  BY <1>1, <1>2, <1>3, StoresRun, PTL DEF Memories!Spec

----------------------------------------------------------------------------
(* ArtifactStore *)

(* A bounded set of numbers has a greatest. *)
LEMMA MaxOf ==
  ASSUME NEW S, S \subseteq Nat, S # {}, NEW b \in Nat, \A v \in S : v <= b
  PROVE  Artifacts!Max(S) \in S /\ \A v \in S : v <= Artifacts!Max(S)
<1> DEFINE Above == {u \in Nat : \A v \in S : v <= u}
<1>1. PICK x \in Above : \A y \in Above : ~(<<y, x>> \in OpToRel(<, Nat))
  <2>1. Above \subseteq Nat /\ b \in Above
    OBVIOUS
  <2> HIDE DEF Above
  <2> QED
    BY <2>1, WFMin, NatLessThanWellFounded
<1>2. \A y \in Above : ~(y < x)
  BY <1>1 DEF OpToRel
<1>3. x \in S
  <2> SUFFICES ASSUME x \notin S
               PROVE  FALSE
    OBVIOUS
  <2>1. \A v \in S : v < x
    OBVIOUS
  <2>2. x > 0 /\ x - 1 \in Nat
    <3>1. PICK v \in S : v \in Nat /\ v < x
      BY <2>1
    <3>2. x \in Nat
      OBVIOUS
    <3> HIDE DEF Above
    <3> QED
      BY <3>1, <3>2
  <2>3. x - 1 \in Above
    BY <2>1, <2>2
  <2> QED
    BY <1>2, <2>2, <2>3
<1>4. \E m \in S : \A y \in S : m >= y
  BY <1>3
<1> QED
  BY <1>4 DEF Artifacts!Max

(* What a file holds: numbers up to some greatest, in an existing          *)
(* directory; what was acknowledged is there.                              *)
VersionsInv(f) ==
  /\ dir[f] \in [DOMAIN dir[f] -> 1 .. MaxSaves \cup {Partial}]
  /\ DOMAIN dir[f] \subseteq Nat
  /\ \E b \in Nat : \A v \in DOMAIN dir[f] : v <= b
  /\ DOMAIN dir[f] # {} => f \in exists
  /\ \A v \in DOMAIN saved[f] : v \in DOMAIN dir[f] /\ dir[f][v] = saved[f][v]

(* A save without a version works on one above all others, and nothing is  *)
(* newest while a save is under way.                                       *)
SaverInv(f) ==
  /\ saver[f] \in [pc : {"idle", "list", "open", "write"},
                   requested : Explicit \cup {NoVersion},
                   version : Nat, content : 0 .. MaxSaves]
  /\ saver[f].pc # "idle" => saver[f].content # 0 /\ newest[f] = 0
  /\ saver[f].pc = "open" /\ saver[f].requested = NoVersion =>
       \A v \in DOMAIN dir[f] : v < saver[f].version
  /\ saver[f].pc = "write" /\ saver[f].requested = NoVersion =>
       \A v \in DOMAIN dir[f] : v <= saver[f].version

(* The newest content is that of the greatest version. *)
NewestInv(f) ==
  newest[f] # 0 =>
    \E v \in DOMAIN dir[f] :
      dir[f][v] = newest[f] /\ \A w \in DOMAIN dir[f] : w <= v

FileInv(f) == VersionsInv(f) /\ SaverInv(f) /\ NewestInv(f)

ArtifactInv ==
  /\ DOMAIN dir = Files /\ DOMAIN saver = Files
  /\ DOMAIN saved = Files /\ DOMAIN newest = Files
  /\ saves \in 0 .. MaxSaves
  /\ \A f \in Files : FileInv(f)

(* A step of one file leaves what is known of the others. *)
LEMMA OtherFiles ==
  ASSUME ArtifactInv, NEW f \in Files, FileInv(f)',
         DOMAIN dir' = Files, DOMAIN saver' = Files,
         DOMAIN saved' = Files, DOMAIN newest' = Files,
         saves' \in 0 .. MaxSaves,
         \A g \in Files \ {f} :
           /\ dir'[g] = dir[g] /\ saver'[g] = saver[g]
           /\ saved'[g] = saved[g] /\ newest'[g] = newest[g]
           /\ g \in exists' <=> g \in exists
  PROVE  ArtifactInv'
<1>1. ASSUME NEW g \in Files \ {f}
      PROVE  FileInv(g)'
  <2>1. VersionsInv(g) /\ SaverInv(g) /\ NewestInv(g)
    BY DEF ArtifactInv, FileInv
  <2>2. VersionsInv(g)'
    BY <2>1 DEF VersionsInv
  <2>3. SaverInv(g)'
    BY <2>1 DEF SaverInv
  <2>4. NewestInv(g)'
    BY <2>1 DEF NewestInv
  <2> QED
    BY <2>2, <2>3, <2>4 DEF FileInv
<1> QED
  BY <1>1 DEF ArtifactInv

(* The number a save without a version chooses is above all others. *)
LEMMA NextIsAbove ==
  ASSUME NEW f \in Files, VersionsInv(f)
  PROVE  /\ Artifacts!NextVersion(f) \in Nat
         /\ \A v \in DOMAIN dir[f] : v < Artifacts!NextVersion(f)
<1>1. CASE dir[f] = Artifacts!NoVersions
  <2>1. DOMAIN dir[f] = {}
    BY <1>1 DEF Artifacts!NoVersions
  <2> QED
    BY <1>1, <2>1 DEF Artifacts!NextVersion
<1>2. CASE dir[f] # Artifacts!NoVersions
  <2>1. dir[f] = [v \in DOMAIN dir[f] |-> dir[f][v]]
    BY DEF VersionsInv
  <2>2. DOMAIN dir[f] # {}
    BY <1>2, <2>1 DEF Artifacts!NoVersions
  <2>3. /\ Artifacts!Max(DOMAIN dir[f]) \in DOMAIN dir[f]
        /\ \A v \in DOMAIN dir[f] : v <= Artifacts!Max(DOMAIN dir[f])
    BY <2>2, MaxOf DEF VersionsInv
  <2>4. DOMAIN dir[f] \subseteq Nat
    BY DEF VersionsInv
  <2> QED
    BY <1>2, <2>3, <2>4 DEF Artifacts!NextVersion
<1> QED
  BY <1>1, <1>2

(* A save begins, chooses its version or is killed. *)
LEMMA SaverSteps ==
  ASSUME ArtifactInv, NEW f \in Files,
         \/ Artifacts!CreateDir(f) \/ Artifacts!ChooseVersion(f) \/ Artifacts!Crash(f)
  PROVE  ArtifactInv'
<1>1. /\ VersionsInv(f) /\ SaverInv(f) /\ NewestInv(f)
      /\ DOMAIN saver = Files /\ DOMAIN newest = Files
      /\ MaxSaves \in Nat /\ NoVersion \notin Nat /\ Explicit \subseteq Nat
  BY StoresAssumption DEF ArtifactInv, FileInv, Artifacts!ArtifactAssumption
<1>2. UNCHANGED <<dir, saved>>
  BY DEF Artifacts!CreateDir, Artifacts!ChooseVersion, Artifacts!Crash
<1>3. PICK r : saver' = [saver EXCEPT ![f] = r]
  BY DEF Artifacts!CreateDir, Artifacts!ChooseVersion, Artifacts!Crash,
     Artifacts!Becomes
<1>4. /\ DOMAIN saver' = Files /\ saver'[f] = r
      /\ \A g \in Files \ {f} : saver'[g] = saver[g]
  BY <1>1, <1>3
<1>5. CASE Artifacts!CreateDir(f)
  <2>1. /\ saves < MaxSaves /\ saves' = saves + 1 /\ exists' = exists \cup {f}
        /\ newest' = [newest EXCEPT ![f] = 0]
    BY <1>5 DEF Artifacts!CreateDir
  <2>2. PICK requested \in Explicit \cup {NoVersion} :
          saver' = [saver EXCEPT ![f] =
            [pc |-> "list", requested |-> requested, version |-> 0,
             content |-> saves + 1]]
    BY <1>5 DEF Artifacts!CreateDir, Artifacts!Becomes
  <2>3. saver'[f] = [pc |-> "list", requested |-> requested, version |-> 0,
                     content |-> saves + 1]
    BY <1>1, <2>2
  <2>4. saves' \in 0 .. MaxSaves /\ saves \in Nat
    BY <1>1, <2>1 DEF ArtifactInv
  <2>5. /\ DOMAIN newest' = Files /\ newest'[f] = 0
        /\ \A g \in Files \ {f} : newest'[g] = newest[g]
    BY <1>1, <2>1
  <2>6. VersionsInv(f)'
    BY <1>1, <1>2, <2>1 DEF VersionsInv
  <2>7. SaverInv(f)'
    BY <1>1, <2>1, <2>3, <2>4, <2>5 DEF SaverInv
  <2>8. NewestInv(f)'
    BY <2>5 DEF NewestInv
  <2> QED
    BY <1>2, <1>4, <2>1, <2>4, <2>5, <2>6, <2>7, <2>8, OtherFiles
       DEF FileInv, ArtifactInv
<1>6. CASE Artifacts!ChooseVersion(f)
  <2> DEFINE v == IF saver[f].requested = NoVersion THEN Artifacts!NextVersion(f)
                  ELSE saver[f].requested
  <2>1. /\ saver[f].pc = "list" /\ UNCHANGED <<exists, saves, newest>>
        /\ saver' = [saver EXCEPT ![f] =
             [saver[f] EXCEPT !.pc = "open", !.version = v]]
    BY <1>6 DEF Artifacts!ChooseVersion, Artifacts!Becomes
  <2>2. /\ v \in Nat
        /\ saver[f].requested = NoVersion => \A w \in DOMAIN dir[f] : w < v
    BY <1>1, NextIsAbove DEF SaverInv
  <2> HIDE DEF v
  <2>3. /\ saver'[f].pc = "open" /\ saver'[f].version = v
        /\ saver'[f].requested = saver[f].requested
        /\ saver'[f].content = saver[f].content
        /\ saver'[f] \in [pc : {"idle", "list", "open", "write"},
                          requested : Explicit \cup {NoVersion},
                          version : Nat, content : 0 .. MaxSaves]
    BY <1>1, <2>1, <2>2 DEF SaverInv
  <2>4. VersionsInv(f)' /\ NewestInv(f)'
    BY <1>1, <1>2, <2>1 DEF VersionsInv, NewestInv
  <2>5. SaverInv(f)'
    BY <1>1, <1>2, <2>1, <2>2, <2>3 DEF SaverInv
  <2> QED
    BY <1>2, <1>4, <2>1, <2>4, <2>5, OtherFiles DEF FileInv, ArtifactInv
<1>7. CASE Artifacts!Crash(f)
  <2>1. /\ saver' = [saver EXCEPT ![f] = Artifacts!Idle]
        /\ UNCHANGED <<exists, saves, newest>>
    BY <1>7 DEF Artifacts!Crash, Artifacts!Becomes
  <2>2. VersionsInv(f)' /\ NewestInv(f)'
    BY <1>1, <1>2, <2>1 DEF VersionsInv, NewestInv
  <2>3. SaverInv(f)'
    BY <1>1, <2>1 DEF SaverInv, Artifacts!Idle
  <2> QED
    BY <1>2, <1>4, <2>1, <2>2, <2>3, OtherFiles DEF FileInv, ArtifactInv
<1> QED
  BY <1>5, <1>6, <1>7

(* Putting a content at a number, and dropping numbers, keeps versions.    *)
LEMMA PutVersions ==
  ASSUME NEW f \in Files, VersionsInv(f), NEW v \in Nat,
         NEW c \in 1 .. MaxSaves \cup {Partial}
  PROVE  /\ Artifacts!Put(dir[f], v, c)
              \in [DOMAIN dir[f] \cup {v} -> 1 .. MaxSaves \cup {Partial}]
         /\ DOMAIN dir[f] \cup {v} \subseteq Nat
         /\ \E b \in Nat : \A w \in DOMAIN dir[f] \cup {v} : w <= b
<1>1. PICK b \in Nat : \A w \in DOMAIN dir[f] : w <= b
  BY DEF VersionsInv
<1>2. DOMAIN dir[f] \subseteq Nat
  BY DEF VersionsInv
<1>3. \A w \in DOMAIN dir[f] \cup {v} : w <= b + v
  BY <1>1, <1>2
<1>4. Artifacts!Put(dir[f], v, c)
        \in [DOMAIN dir[f] \cup {v} -> 1 .. MaxSaves \cup {Partial}]
  BY DEF VersionsInv, Artifacts!Put
<1> QED
  BY <1>2, <1>3, <1>4

(* A save opens its version and writes it. *)
LEMMA SaverWrites ==
  ASSUME ArtifactInv, NEW f \in Files, Artifacts!Open(f) \/ Artifacts!Write(f)
  PROVE  ArtifactInv'
<1> DEFINE v == saver[f].version
           c == saver[f].content
<1>1. /\ VersionsInv(f) /\ SaverInv(f) /\ NewestInv(f)
      /\ DOMAIN dir = Files /\ DOMAIN saver = Files
      /\ DOMAIN saved = Files /\ DOMAIN newest = Files
      /\ MaxSaves \in Nat /\ NoVersion \notin Nat /\ Explicit \subseteq Nat
  BY StoresAssumption DEF ArtifactInv, FileInv, Artifacts!ArtifactAssumption
<1>2. /\ saver[f].pc # "idle" /\ newest[f] = 0 /\ v \in Nat
      /\ c \in 1 .. MaxSaves
      /\ UNCHANGED <<exists, saves>>
  BY <1>1 DEF Artifacts!Open, Artifacts!Write, SaverInv
<1> HIDE DEF v, c
<1>3. /\ \A w \in DOMAIN saved[f] :
           w \in DOMAIN dir[f] /\ dir[f][w] = saved[f][w]
      /\ DOMAIN dir[f] \subseteq Nat
  BY <1>1 DEF VersionsInv
<1>4. CASE UNCHANGED <<dir, saved, newest>> /\ Artifacts!Becomes(f, Artifacts!Idle)
  <2>1. /\ DOMAIN saver' = Files /\ saver'[f] = Artifacts!Idle
        /\ \A g \in Files \ {f} : saver'[g] = saver[g]
    BY <1>1, <1>4 DEF Artifacts!Becomes
  <2>2. VersionsInv(f)' /\ NewestInv(f)'
    BY <1>1, <1>2, <1>4 DEF VersionsInv, NewestInv
  <2>3. SaverInv(f)'
    BY <1>1, <2>1 DEF SaverInv, Artifacts!Idle
  <2> QED
    BY <1>1, <1>2, <1>4, <2>1, <2>2, <2>3, OtherFiles DEF FileInv, ArtifactInv
<1>5. CASE Artifacts!Open(f) /\ f \in exists
  <2>1. /\ saver[f].pc = "open" /\ newest' = newest
        /\ dir' = [dir EXCEPT ![f] = Artifacts!Put(dir[f], v, Partial)]
        /\ saver' = [saver EXCEPT ![f] = [saver[f] EXCEPT !.pc = "write"]]
        /\ saved' = IF saver[f].requested = NoVersion THEN saved
                    ELSE [saved EXCEPT ![f] = Artifacts!Drop(saved[f], {v})]
    BY <1>5 DEF Artifacts!Open, Artifacts!Becomes, v
  <2>2. /\ DOMAIN dir' = Files /\ dir'[f] = Artifacts!Put(dir[f], v, Partial)
        /\ DOMAIN saver' = Files /\ DOMAIN saved' = Files
        /\ saver'[f] = [saver[f] EXCEPT !.pc = "write"]
        /\ saved'[f] = IF saver[f].requested = NoVersion THEN saved[f]
                       ELSE Artifacts!Drop(saved[f], {v})
        /\ \A g \in Files \ {f} :
             dir'[g] = dir[g] /\ saver'[g] = saver[g] /\ saved'[g] = saved[g]
    BY <1>1, <2>1
  <2>3. /\ saver'[f].pc = "write" /\ saver'[f].version = v
        /\ saver'[f].requested = saver[f].requested /\ saver'[f].content = c
        /\ saver'[f] \in [pc : {"idle", "list", "open", "write"},
                          requested : Explicit \cup {NoVersion},
                          version : Nat, content : 0 .. MaxSaves]
    BY <1>1, <2>2 DEF SaverInv, v, c
  <2>4. saver[f].requested = NoVersion => \A w \in DOMAIN dir[f] : w < v
    BY <1>1, <2>1 DEF SaverInv, v
  <2>5. /\ DOMAIN dir'[f] = DOMAIN dir[f] \cup {v}
        /\ \A w \in DOMAIN dir[f] \ {v} : dir'[f][w] = dir[f][w]
    BY <2>2 DEF Artifacts!Put
  <2>6. \A w \in DOMAIN saved'[f] : w \in DOMAIN dir'[f] /\ dir'[f][w] = saved'[f][w]
    <3>1. \A w \in DOMAIN saved'[f] :
            w # v /\ w \in DOMAIN saved[f] /\ saved'[f][w] = saved[f][w]
      <4>1. CASE saver[f].requested = NoVersion
        BY <1>2, <1>3, <2>2, <2>4, <4>1
      <4>2. CASE saver[f].requested # NoVersion
        BY <2>2, <4>2 DEF Artifacts!Drop
      <4> QED
        BY <4>1, <4>2
    <3> QED
      BY <1>3, <2>5, <3>1
  <2>7. VersionsInv(f)'
    <3>1. /\ dir'[f] \in [DOMAIN dir'[f] -> 1 .. MaxSaves \cup {Partial}]
          /\ DOMAIN dir'[f] \subseteq Nat
          /\ \E b \in Nat : \A w \in DOMAIN dir'[f] : w <= b
      <4>1. /\ Artifacts!Put(dir[f], v, Partial)
                 \in [DOMAIN dir[f] \cup {v} -> 1 .. MaxSaves \cup {Partial}]
            /\ DOMAIN dir[f] \cup {v} \subseteq Nat
            /\ \E b \in Nat : \A w \in DOMAIN dir[f] \cup {v} : w <= b
        BY <1>1, <1>2, PutVersions
      <4> QED
        BY <2>2, <2>5, <4>1
    <3> QED
      BY <1>2, <1>5, <2>6, <3>1 DEF VersionsInv
  <2>8. SaverInv(f)'
    <3>1. saver[f].requested = NoVersion => \A w \in DOMAIN dir'[f] : w <= v
      BY <1>2, <1>3, <2>4, <2>5
    <3> QED
      BY <1>2, <2>1, <2>3, <3>1 DEF SaverInv
  <2>9. NewestInv(f)'
    BY <1>2, <2>1 DEF NewestInv
  <2> QED
    BY <1>1, <1>2, <2>1, <2>2, <2>7, <2>8, <2>9, OtherFiles DEF FileInv, ArtifactInv
<1>6. CASE Artifacts!Write(f) /\ v \in DOMAIN dir[f]
  <2>1. /\ saver[f].pc = "write"
        /\ dir' = [dir EXCEPT ![f] = Artifacts!Put(dir[f], v, c)]
        /\ saved' = [saved EXCEPT ![f] = Artifacts!Put(saved[f], v, c)]
        /\ newest' = IF saver[f].requested # NoVersion THEN newest
                     ELSE [newest EXCEPT ![f] = c]
        /\ saver' = [saver EXCEPT ![f] = Artifacts!Idle]
    BY <1>6 DEF Artifacts!Write, Artifacts!Becomes, v, c
  <2>2. /\ DOMAIN dir' = Files /\ dir'[f] = Artifacts!Put(dir[f], v, c)
        /\ DOMAIN saved' = Files /\ saved'[f] = Artifacts!Put(saved[f], v, c)
        /\ DOMAIN saver' = Files /\ saver'[f] = Artifacts!Idle
        /\ DOMAIN newest' = Files
        /\ newest'[f] = IF saver[f].requested # NoVersion THEN 0 ELSE c
        /\ \A g \in Files \ {f} : /\ dir'[g] = dir[g] /\ saver'[g] = saver[g]
                                  /\ saved'[g] = saved[g] /\ newest'[g] = newest[g]
    BY <1>1, <1>2, <2>1
  <2>3. /\ DOMAIN dir'[f] = DOMAIN dir[f] /\ dir'[f][v] = c
        /\ \A w \in DOMAIN dir[f] \ {v} : dir'[f][w] = dir[f][w]
        /\ DOMAIN saved'[f] = DOMAIN saved[f] \cup {v} /\ saved'[f][v] = c
        /\ \A w \in DOMAIN saved[f] \ {v} : saved'[f][w] = saved[f][w]
    BY <1>6, <2>2 DEF Artifacts!Put
  <2>4. VersionsInv(f)'
    <3>1. /\ dir'[f] \in [DOMAIN dir[f] \cup {v} -> 1 .. MaxSaves \cup {Partial}]
          /\ \E b \in Nat : \A w \in DOMAIN dir[f] \cup {v} : w <= b
      <4>1. /\ Artifacts!Put(dir[f], v, c)
                 \in [DOMAIN dir[f] \cup {v} -> 1 .. MaxSaves \cup {Partial}]
            /\ \E b \in Nat : \A w \in DOMAIN dir[f] \cup {v} : w <= b
        BY <1>1, <1>2, PutVersions
      <4> QED
        BY <2>2, <4>1
    <3>2. DOMAIN dir[f] \cup {v} = DOMAIN dir[f]
      BY <1>6
    <3>3. DOMAIN dir[f] # {} => f \in exists
      BY <1>1 DEF VersionsInv
    <3>4. \A w \in DOMAIN saved'[f] : w \in DOMAIN dir'[f] /\ dir'[f][w] = saved'[f][w]
      BY <1>3, <1>6, <2>3
    <3> QED
      BY <1>2, <1>3, <2>3, <3>1, <3>2, <3>3, <3>4 DEF VersionsInv
  <2>5. SaverInv(f)'
    BY <1>1, <2>2 DEF SaverInv, Artifacts!Idle
  <2>6. NewestInv(f)'
    <3>1. saver[f].requested = NoVersion => \A w \in DOMAIN dir[f] : w <= v
      BY <1>1, <2>1 DEF SaverInv, v
    <3> QED
      BY <1>6, <2>2, <2>3, <3>1 DEF NewestInv
  <2> QED
    BY <1>1, <1>2, <2>2, <2>4, <2>5, <2>6, OtherFiles DEF FileInv, ArtifactInv
<1>7. CASE Artifacts!Open(f) /\ f \notin exists
  BY <1>4, <1>7 DEF Artifacts!Open
<1>8. CASE Artifacts!Write(f) /\ v \notin DOMAIN dir[f]
  BY <1>4, <1>8 DEF Artifacts!Write, v
<1> QED
  BY <1>5, <1>6, <1>7, <1>8

(* A version, or the whole directory, is deleted. *)
LEMMA FilesDeleted ==
  ASSUME ArtifactInv, NEW f \in Files,
         Artifacts!DeleteVersion(f) \/ Artifacts!DeleteAll(f)
  PROVE  ArtifactInv'
<1>1. /\ VersionsInv(f) /\ SaverInv(f)
      /\ DOMAIN dir = Files /\ DOMAIN saved = Files /\ DOMAIN newest = Files
      /\ saves \in 0 .. MaxSaves
  BY DEF ArtifactInv, FileInv
<1>2. UNCHANGED <<saver, saves>>
  BY DEF Artifacts!DeleteVersion, Artifacts!DeleteAll
<1>3. PICK m, a :
        /\ dir' = [dir EXCEPT ![f] = m] /\ saved' = [saved EXCEPT ![f] = a]
        /\ m \in [DOMAIN m -> 1 .. MaxSaves \cup {Partial}]
        /\ DOMAIN m \subseteq DOMAIN dir[f]
        /\ \A v \in DOMAIN a : v \in DOMAIN m /\ m[v] = a[v]
        /\ DOMAIN m # {} => exists' = exists
        /\ exists' \subseteq exists /\ exists \ {f} \subseteq exists'
  <2>1. CASE Artifacts!DeleteVersion(f)
    <3>1. PICK v \in DOMAIN dir[f] :
            /\ dir' = [dir EXCEPT ![f] = Artifacts!Drop(dir[f], {v})]
            /\ saved' = [saved EXCEPT ![f] = Artifacts!Drop(saved[f], {v})]
      BY <2>1 DEF Artifacts!DeleteVersion
    <3> DEFINE m == Artifacts!Drop(dir[f], {v})
               a == Artifacts!Drop(saved[f], {v})
    <3>2. m \in [DOMAIN m -> 1 .. MaxSaves \cup {Partial}]
      BY <1>1 DEF VersionsInv, Artifacts!Drop
    <3>3. /\ DOMAIN m = DOMAIN dir[f] \ {v}
          /\ \A w \in DOMAIN m : m[w] = dir[f][w]
          /\ DOMAIN a = DOMAIN saved[f] \ {v}
          /\ \A w \in DOMAIN a : a[w] = saved[f][w]
      BY DEF Artifacts!Drop
    <3> HIDE DEF m, a
    <3>4. \A w \in DOMAIN a : w \in DOMAIN m /\ m[w] = a[w]
      BY <1>1, <3>3 DEF VersionsInv
    <3>5. exists' = exists
      BY <2>1 DEF Artifacts!DeleteVersion
    <3>6. dir' = [dir EXCEPT ![f] = m] /\ saved' = [saved EXCEPT ![f] = a]
      BY <3>1 DEF m, a
    <3> QED
      BY <3>2, <3>3, <3>4, <3>5, <3>6
  <2>2. CASE Artifacts!DeleteAll(f)
    <3> DEFINE m == Artifacts!NoVersions
    <3>1. /\ dir' = [dir EXCEPT ![f] = m] /\ saved' = [saved EXCEPT ![f] = m]
          /\ exists' = exists \ {f}
      BY <2>2 DEF Artifacts!DeleteAll
    <3>2. DOMAIN m = {} /\ m \in [DOMAIN m -> 1 .. MaxSaves \cup {Partial}]
      BY DEF Artifacts!NoVersions
    <3> HIDE DEF m
    <3> QED
      BY <3>1, <3>2
  <2> QED
    BY <2>1, <2>2
<1>4. newest' = [newest EXCEPT ![f] = 0]
  BY DEF Artifacts!DeleteVersion, Artifacts!DeleteAll
<1>5. /\ DOMAIN dir' = Files /\ dir'[f] = m /\ DOMAIN saved' = Files /\ saved'[f] = a
      /\ DOMAIN newest' = Files /\ newest'[f] = 0
      /\ \A g \in Files \ {f} :
           dir'[g] = dir[g] /\ saved'[g] = saved[g] /\ newest'[g] = newest[g]
  BY <1>1, <1>3, <1>4
<1>6. VersionsInv(f)'
  <2>1. /\ DOMAIN dir[f] \subseteq Nat
        /\ \E b \in Nat : \A v \in DOMAIN dir[f] : v <= b
        /\ DOMAIN dir[f] # {} => f \in exists
    BY <1>1 DEF VersionsInv
  <2>2. /\ DOMAIN m \subseteq Nat
        /\ \E b \in Nat : \A v \in DOMAIN m : v <= b
        /\ DOMAIN m # {} => f \in exists'
    BY <1>3, <2>1
  <2> QED
    BY <1>3, <1>5, <2>2 DEF VersionsInv
<1>7. SaverInv(f)'
  BY <1>1, <1>2, <1>3, <1>5 DEF SaverInv
<1>8. NewestInv(f)'
  BY <1>5 DEF NewestInv
<1> QED
  BY <1>1, <1>2, <1>3, <1>5, <1>6, <1>7, <1>8, OtherFiles DEF FileInv, ArtifactInv

(* What the invariant says to a reader of the artifacts. *)
LEMMA ArtifactMeans ==
  ArtifactInv => /\ Artifacts!TypeOK /\ Artifacts!AcknowledgedIsKept
                 /\ Artifacts!LoadsNewest
<1> SUFFICES ASSUME ArtifactInv
             PROVE  /\ Artifacts!TypeOK /\ Artifacts!AcknowledgedIsKept
                    /\ Artifacts!LoadsNewest
  OBVIOUS
<1>1. \A f \in Files : VersionsInv(f) /\ SaverInv(f) /\ NewestInv(f)
  BY DEF ArtifactInv, FileInv
<1>2. Artifacts!TypeOK
  BY <1>1 DEF VersionsInv, SaverInv, Artifacts!TypeOK
<1>3. Artifacts!AcknowledgedIsKept
  BY <1>1 DEF VersionsInv, Artifacts!AcknowledgedIsKept
<1>4. ASSUME NEW f \in Files, newest[f] # 0
      PROVE  Artifacts!Load(f) = newest[f]
  <2>1. PICK v \in DOMAIN dir[f] :
          dir[f][v] = newest[f] /\ \A w \in DOMAIN dir[f] : w <= v
    BY <1>1, <1>4 DEF NewestInv
  <2>2. DOMAIN dir[f] \subseteq Nat /\ DOMAIN dir[f] # {} /\ v \in Nat
    BY <1>1, <2>1 DEF VersionsInv
  <2>3. /\ Artifacts!Max(DOMAIN dir[f]) \in DOMAIN dir[f]
        /\ v <= Artifacts!Max(DOMAIN dir[f])
    BY <2>1, <2>2, MaxOf
  <2>4. Artifacts!Max(DOMAIN dir[f]) = v
    BY <2>1, <2>2, <2>3
  <2>5. dir[f] # Artifacts!NoVersions
    BY <2>2 DEF Artifacts!NoVersions
  <2> QED
    BY <2>1, <2>4, <2>5 DEF Artifacts!Load, Artifacts!Latest
<1> QED
  BY <1>2, <1>3, <1>4 DEF Artifacts!LoadsNewest

(* An acknowledged version keeps its content until it is deleted or saved  *)
(* again by number, and what was saved last without a version is what is   *)
(* loaded without one, whatever saves, deletes and kills come between.     *)
THEOREM ArtifactsAreKept == StoresSpec => []ArtifactsKept
<1>1. Artifacts!Init => ArtifactInv
  <2> SUFFICES ASSUME Artifacts!Init
               PROVE  ArtifactInv
    OBVIOUS
  <2>1. /\ dir = [f \in Files |-> Artifacts!NoVersions]
        /\ saver = [f \in Files |-> Artifacts!Idle] /\ saves = 0
        /\ saved = [f \in Files |-> Artifacts!NoVersions]
        /\ newest = [f \in Files |-> 0]
    BY DEF Artifacts!Init
  <2>2. 0 \in 0 .. MaxSaves
    BY StoresAssumption DEF Artifacts!ArtifactAssumption
  <2>3. ASSUME NEW f \in Files
        PROVE  VersionsInv(f) /\ SaverInv(f) /\ NewestInv(f)
    <3>1. /\ dir[f] = Artifacts!NoVersions /\ saved[f] = Artifacts!NoVersions
          /\ saver[f] = Artifacts!Idle /\ newest[f] = 0
      BY <2>1
    <3>2. VersionsInv(f)
      BY <3>1 DEF VersionsInv, Artifacts!NoVersions
    <3>3. SaverInv(f)
      BY <2>2, <3>1 DEF SaverInv, Artifacts!Idle
    <3>4. NewestInv(f)
      BY <3>1 DEF NewestInv
    <3> QED
      BY <3>2, <3>3, <3>4
  <2> QED
    BY <2>1, <2>2, <2>3 DEF ArtifactInv, FileInv
<1>2. ArtifactInv /\ [Artifacts!Next]_(Artifacts!vars) => ArtifactInv'
  <2> SUFFICES ASSUME ArtifactInv, [Artifacts!Next]_(Artifacts!vars)
               PROVE  ArtifactInv'
    OBVIOUS
  <2>1. CASE UNCHANGED Artifacts!vars
    BY <2>1 DEF Artifacts!vars, ArtifactInv, FileInv, VersionsInv, SaverInv, NewestInv
  <2> QED
    BY <2>1, SaverSteps, SaverWrites, FilesDeleted DEF Artifacts!Next
<1>3. ArtifactInv => ArtifactsKept
  BY ArtifactMeans DEF ArtifactsKept
<1> QED
  BY <1>1, <1>2, <1>3, StoresRun, PTL DEF Artifacts!Spec
=============================================================================
