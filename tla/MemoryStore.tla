----------------------------- MODULE MemoryStore -----------------------------
(***************************************************************************)
(* The file-backed memory service (storage.rs) and the adapter the agent   *)
(* recalls through (memory.rs).  add_session changes the map under its     *)
(* write lock and, still under the lock, writes the whole map to a         *)
(* temporary file and renames it over the store.  The process may be       *)
(* killed at any point and writing may fail; the file system keeps what    *)
(* the process has written.                                                *)
(***************************************************************************)
EXTENDS Naturals, FiniteSets

CONSTANTS
  Writers,      \* threads that call add_session
  Users,        \* principals
  Sessions,
  Words,        \* what memories and queries are made of
  RecallLimit,  \* MemoryAdapter.recall_limit
  MaxAdds,      \* bound: calls of add_session
  MaxCrashes,   \* bound: kills of the process
  NoUser,       \* the empty user the adapter searches for
  Partial,      \* a file that is not written to its end
  None

Keys == Users \X Sessions
Remembered == [n : 1..MaxAdds, word : Words]
Contents == [Keys -> Remembered \cup {None}]

(* None and Partial are no contents of a file and no memory. *)
MemoryStoreAssumption ==
  /\ {RecallLimit, MaxAdds, MaxCrashes} \subseteq Nat
  /\ NoUser \notin Users /\ None \notin Writers
  /\ None # Partial /\ None \notin Contents /\ Partial \notin Contents
  /\ None \notin Remembered

VARIABLES
  up,      \* the process runs
  store,   \* FileMemoryService.store: what is remembered of a session, if any
  lock,    \* who holds its write lock
  writer,  \* where a thread is, and the session it adds
  file,    \* the store on disk: None, Partial or the sessions
  tmp,     \* the temporary file
  \* History.
  adds,    \* calls so far
  acked,   \* the number of the last call that returned Ok, for each session
  behind,  \* the last persist failed
  crashes

vars == <<up, store, lock, writer, file, tmp, adds, acked, behind, crashes>>

Memory(n, word) == [n |-> n, word |-> word]
Empty == [k \in Keys |-> None]
Idle == [pc |-> "idle", key |-> None]
Goes(w, pc) == writer' = [writer EXCEPT ![w].pc = pc]
Number(sessions, k) ==
  IF sessions \in {None, Partial} THEN 0
  ELSE IF sessions[k] = None THEN 0 ELSE sessions[k].n

Init ==
  /\ up = FALSE /\ store = Empty /\ lock = None
  /\ writer = [w \in Writers |-> Idle]
  /\ file = None /\ tmp = None
  /\ adds = 0 /\ acked = [k \in Keys |-> 0] /\ behind = FALSE /\ crashes = 0

(* build_memory_service loads the file.  One that cannot be parsed ends    *)
(* the start of the program.                                               *)
LoadStore ==
  /\ ~up /\ file # Partial
  /\ up' = TRUE
  /\ store' = IF file = None THEN Empty ELSE file
  /\ behind' = FALSE
  /\ UNCHANGED <<lock, writer, file, tmp, adds, acked, crashes>>

----------------------------------------------------------------------------
(* add_session.                                                            *)

Insert(w) ==
  /\ up /\ writer[w].pc = "idle" /\ lock = None /\ adds < MaxAdds
  /\ lock' = w
  /\ adds' = adds + 1
  /\ \E k \in Keys, word \in Words :
       /\ store' = [store EXCEPT ![k] = Memory(adds + 1, word)]
       /\ writer' = [writer EXCEPT ![w] = [pc |-> "open", key |-> k]]
  /\ UNCHANGED <<up, file, tmp, acked, behind, crashes>>

(* Mutant of OpenTmp: the store is written in place. *)
OpenTmp_InPlace(w) ==
  /\ up /\ writer[w].pc = "open"
  /\ file' = Partial
  /\ Goes(w, "write")
  /\ UNCHANGED <<up, store, lock, tmp, adds, acked, behind, crashes>>

OpenTmp(w) ==
  /\ up /\ writer[w].pc = "open"
  /\ tmp' = Partial
  /\ Goes(w, "write")
  /\ UNCHANGED <<up, store, lock, file, adds, acked, behind, crashes>>

WriteTmp(w) ==
  /\ up /\ writer[w].pc = "write"
  /\ tmp' = store
  /\ Goes(w, "rename")
  /\ UNCHANGED <<up, store, lock, file, adds, acked, behind, crashes>>

Rename(w) ==
  /\ up /\ writer[w].pc = "rename"
  /\ file' = tmp /\ tmp' = None
  /\ acked' = [acked EXCEPT ![writer[w].key] = store[writer[w].key].n]
  /\ writer' = [writer EXCEPT ![w] = Idle]
  /\ lock' = None
  /\ behind' = FALSE
  /\ UNCHANGED <<up, store, adds, crashes>>

(* Creating the directory, writing or renaming fails: the caller is told,  *)
(* the map keeps the memory.                                               *)
PersistFails(w) ==
  /\ up /\ writer[w].pc \in {"open", "write", "rename"}
  /\ writer' = [writer EXCEPT ![w] = Idle]
  /\ lock' = None
  /\ behind' = TRUE
  /\ UNCHANGED <<up, store, file, tmp, adds, acked, crashes>>

Crash ==
  /\ up /\ crashes < MaxCrashes
  /\ crashes' = crashes + 1
  /\ up' = FALSE
  /\ store' = Empty /\ lock' = None
  /\ writer' = [w \in Writers |-> Idle]
  /\ UNCHANGED <<file, tmp, adds, acked, behind>>

Next ==
  \/ LoadStore \/ Crash
  \/ \E w \in Writers :
       Insert(w) \/ OpenTmp(w) \/ WriteTmp(w) \/ Rename(w) \/ PersistFails(w)
Spec == Init /\ [][Next]_vars

----------------------------------------------------------------------------
(* search, and the search of the adapter: it names no user and keeps the   *)
(* first RecallLimit results.                                              *)

Search(user, word) ==
  {k \in {user} \X Sessions :
     k \in Keys /\ store[k] # None /\ store[k].word = word}

Recall(word) ==
  {found \in SUBSET Search(NoUser, word) :
     Cardinality(found) <= RecallLimit}

----------------------------------------------------------------------------
(* Types: what is on disk is a whole map of sessions or unfinished, and    *)
(* the writer that persists is the one that holds the lock.                *)
TypeOK ==
  /\ store \in Contents /\ {up, behind} \subseteq BOOLEAN
  /\ {file, tmp} \subseteq Contents \cup {None, Partial}
  /\ \A w \in Writers : writer[w].pc # "idle" <=> lock = w
  /\ acked \in [Keys -> 0..MaxAdds]

(* A process that was killed can start again.                              *)
Readable == file # Partial

(* What add_session has acknowledged survives kills, failures and later    *)
(* calls: the file has it, or something newer of the same session.         *)
AcknowledgedIsDurable == \A k \in Keys : acked[k] <= Number(file, k)

(* Between calls the file is the whole map, unless the last write failed;  *)
(* the next call that succeeds makes up for it.                            *)
FileFollowsStore ==
  up /\ lock = None /\ ~behind => store = (IF file = None THEN Empty ELSE file)

(* What a session has stored is recalled by its words.                     *)
RecallFindsStored ==
  \A word \in Words :
    up /\ (\E k \in Keys : store[k] # None /\ store[k].word = word)
      => \E found \in Recall(word) : found # {}
=============================================================================
