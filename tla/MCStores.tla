------------------------------ MODULE MCStores -------------------------------
(* Counters, memories and files, side by side for TLC: a behaviour is one  *)
(* of the part it starts with, and the variables of the others keep their  *)
(* initial values.  The states of the parts add up instead of multiplying. *)
EXTENDS RateLimiter, TLC

CONSTANTS
  MaxTranscripts,        \* TranscriptMemory with the lifecycle services
  MaxListed,             \* TranscriptMemory with the local list
  Writers, Users, Sessions, Words, RecallLimit, MaxAdds, MaxCrashes,
  NoUser, None,          \* MemoryStore
  Files, Explicit, MaxSaves, NoVersion,  \* ArtifactStore
  Partial

VARIABLES
  part,  \* the part that moves
  events, memory_counts, entries, stored, applied, artifacts, callback,
  terminator, failures, heard, cut,
  up, store, lock, writer, file, tmp, adds, acked, behind, crashes,
  dir, exists, saver, saves, saved, newest

(* A session with the local list and one with the lifecycle services: the  *)
(* same variables under other settings.                                    *)
List == INSTANCE TranscriptMemory WITH
  Lifecycle <- FALSE, Enabled <- TRUE, Threshold <- 3, Widths <- {1, 2},
  TextLimit <- 4, MaxTranscripts <- MaxListed, MaxFailures <- 0,
  counts <- memory_counts, store <- stored
Service == INSTANCE TranscriptMemory WITH
  Lifecycle <- TRUE, Enabled <- TRUE, Threshold <- 3, Widths <- {1, 2},
  TextLimit <- 4, MaxFailures <- 2, counts <- memory_counts, store <- stored
Memories == INSTANCE MemoryStore
Artifacts == INSTANCE ArtifactStore WITH acked <- saved

ASSUME StoresAssumption ==
  /\ List!TranscriptAssumption /\ Service!TranscriptAssumption
  /\ Memories!MemoryStoreAssumption /\ Artifacts!ArtifactAssumption

transcriptVars == <<events, memory_counts, entries, stored, applied, artifacts,
                    callback, terminator, failures, heard, cut>>
memoryVars == <<up, store, lock, writer, file, tmp, adds, acked, behind, crashes>>
artifactVars == <<dir, exists, saver, saves, saved, newest>>
storesVars == <<part, vars, transcriptVars, memoryVars, artifactVars>>

(* Only one part moves. *)
OnlyLimiter ==
  /\ part = "limiter"
  /\ UNCHANGED <<part, transcriptVars, memoryVars, artifactVars>>
OnlyList ==
  /\ part = "list"
  /\ UNCHANGED <<part, vars, memoryVars, artifactVars>>
OnlyLifecycle ==
  /\ part = "lifecycle"
  /\ UNCHANGED <<part, vars, memoryVars, artifactVars>>
OnlyMemories ==
  /\ part = "memories"
  /\ UNCHANGED <<part, vars, transcriptVars, artifactVars>>
OnlyArtifacts ==
  /\ part = "artifacts"
  /\ UNCHANGED <<part, vars, transcriptVars, memoryVars>>

(* The actions of the parts. *)
LimiterCall(c, s) == OnlyLimiter /\ Call(c, s)
LimiterAbsentee(c) == OnlyLimiter /\ Absentee(c)
LimiterFetchAdd(c) == OnlyLimiter /\ FetchAdd(c)
LimiterFetchSub(c) == OnlyLimiter /\ FetchSub(c)
LimiterWriteLocked(c) == OnlyLimiter /\ WriteLocked(c)
LimiterScreen(c) == OnlyLimiter /\ Screen(c)
LimiterReset(s) == OnlyLimiter /\ Reset(s)

ListCalled == OnlyList /\ List!Called
ListLocal == OnlyList /\ List!Local
ListAddSession == OnlyList /\ List!AddSession
ListSaveArtifact == OnlyList /\ List!SaveArtifact
ListTerminateStep == OnlyList /\ List!TerminateStep

LifecycleCalled == OnlyLifecycle /\ Service!Called
LifecycleInitializeSession == OnlyLifecycle /\ Service!InitializeSession
LifecycleIngest == OnlyLifecycle /\ Service!Ingest
LifecycleCount == OnlyLifecycle /\ Service!Count
LifecycleLifecycleFails == OnlyLifecycle /\ Service!LifecycleFails
LifecycleSnapshot == OnlyLifecycle /\ Service!Snapshot
LifecycleKeep == OnlyLifecycle /\ Service!Keep
LifecycleLocal == OnlyLifecycle /\ Service!Local
LifecycleAddSession == OnlyLifecycle /\ Service!AddSession
LifecycleSaveArtifact == OnlyLifecycle /\ Service!SaveArtifact
LifecycleClearTracking == OnlyLifecycle /\ Service!ClearTracking
LifecycleTakeEntries == OnlyLifecycle /\ Service!TakeEntries
LifecycleStoreSummary == OnlyLifecycle /\ Service!StoreSummary
LifecycleAbort == OnlyLifecycle /\ Service!Abort

MemoryLoadStore == OnlyMemories /\ Memories!LoadStore
MemoryCrash == OnlyMemories /\ Memories!Crash
MemoryInsert(w) == OnlyMemories /\ Memories!Insert(w)
MemoryOpenTmp(w) == OnlyMemories /\ Memories!OpenTmp(w)
MemoryWriteTmp(w) == OnlyMemories /\ Memories!WriteTmp(w)
MemoryRename(w) == OnlyMemories /\ Memories!Rename(w)
MemoryPersistFails(w) == OnlyMemories /\ Memories!PersistFails(w)

ArtifactCreateDir(f) == OnlyArtifacts /\ Artifacts!CreateDir(f)
ArtifactChooseVersion(f) == OnlyArtifacts /\ Artifacts!ChooseVersion(f)
ArtifactOpen(f) == OnlyArtifacts /\ Artifacts!Open(f)
ArtifactWrite(f) == OnlyArtifacts /\ Artifacts!Write(f)
ArtifactDeleteVersion(f) == OnlyArtifacts /\ Artifacts!DeleteVersion(f)
ArtifactDeleteAll(f) == OnlyArtifacts /\ Artifacts!DeleteAll(f)
ArtifactCrash(f) == OnlyArtifacts /\ Artifacts!Crash(f)

(* The calls of the limiter start for one session when it does not move.   *)
StoresInit ==
  /\ part \in {"limiter", "list", "lifecycle", "memories", "artifacts"}
  /\ part = "limiter" \/ of = [c \in Callers |-> CHOOSE s \in SessionIds : TRUE]
  /\ Init
  /\ IF part = "list" THEN List!Init ELSE Service!Init
  /\ Memories!Init /\ Artifacts!Init

StoresNext ==
  \/ \E c \in Callers :
       \/ \E s \in SessionIds : LimiterCall(c, s)
       \/ LimiterAbsentee(c) \/ LimiterFetchAdd(c) \/ LimiterFetchSub(c)
       \/ LimiterWriteLocked(c) \/ LimiterScreen(c)
  \/ \E s \in SessionIds : LimiterReset(s)
  \/ ListCalled \/ ListLocal \/ ListAddSession \/ ListSaveArtifact
  \/ ListTerminateStep
  \/ LifecycleCalled \/ LifecycleInitializeSession \/ LifecycleIngest
  \/ LifecycleCount \/ LifecycleLifecycleFails \/ LifecycleSnapshot
  \/ LifecycleKeep \/ LifecycleLocal \/ LifecycleAddSession
  \/ LifecycleSaveArtifact \/ LifecycleClearTracking \/ LifecycleTakeEntries
  \/ LifecycleStoreSummary \/ LifecycleAbort
  \/ MemoryLoadStore \/ MemoryCrash
  \/ \E w \in Writers :
       \/ MemoryInsert(w) \/ MemoryOpenTmp(w) \/ MemoryWriteTmp(w)
       \/ MemoryRename(w) \/ MemoryPersistFails(w)
  \/ \E f \in Files :
       \/ ArtifactCreateDir(f) \/ ArtifactChooseVersion(f) \/ ArtifactOpen(f)
       \/ ArtifactWrite(f) \/ ArtifactDeleteVersion(f) \/ ArtifactDeleteAll(f)
       \/ ArtifactCrash(f)

StoresSpec == StoresInit /\ [][StoresNext]_storesVars

----------------------------------------------------------------------------
(* TranscriptMemory: the local list stays bounded and keeps the last       *)
(* transcripts verbatim, artifacts are numbered as transcripts were heard, *)
(* each compaction is counted once, and while a session runs its memory    *)
(* forgets a transcript only when a later compaction takes the place of    *)
(* its summary.                                                            *)
TranscriptsKept ==
  /\ [](part = "list" => List!Bounded /\ List!ArtifactsFollow)
  /\ [](part = "lifecycle" => /\ Service!TypeOK /\ Service!CompactionsCounted
                              /\ Service!ArtifactsFollow)
  /\ Service!ForgetsOnlySuperseded

(* MemoryStore: a killed process can start again, what add_session has     *)
(* acknowledged survives kills and failures, and between calls the file is *)
(* the whole map unless the last write failed.                             *)
MemoriesDurable ==
  part = "memories" =>
    /\ Memories!TypeOK /\ Memories!Readable
    /\ Memories!AcknowledgedIsDurable /\ Memories!FileFollowsStore

(* ArtifactStore: an acknowledged version keeps its content, and what was  *)
(* saved last without a version is what is loaded without one.             *)
ArtifactsKept ==
  part = "artifacts" =>
    /\ Artifacts!TypeOK /\ Artifacts!AcknowledgedIsKept
    /\ Artifacts!LoadsNewest
=============================================================================
