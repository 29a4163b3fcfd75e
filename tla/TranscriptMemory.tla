--------------------------- MODULE TranscriptMemory ---------------------------
(***************************************************************************)
(* What becomes of the transcripts of a session (main.rs): each callback   *)
(* of GatewayEventForwarder records its transcript with the lifecycle      *)
(* manager or in the local list, compacts, and writes the entries of the   *)
(* session to the memory store, then an artifact; terminate_session takes  *)
(* the entries, adds a summary and writes them too.  The callbacks of a    *)
(* session run one after the other in its runtime loop.                    *)
(*                                                                         *)
(* A transcript is one word of one character; its width in bytes is what   *)
(* the truncation of a summary tells apart.                                *)
(***************************************************************************)
EXTENDS Naturals, Sequences, FiniteSets, SequencesExt

CONSTANTS
  Lifecycle,      \* session_lifecycle is in use, the local list otherwise
  Enabled,        \* MemoryCompactionPolicy.enabled
  Threshold,      \* MemoryCompactionPolicy.max_events_threshold
  Widths,         \* the widths characters have
  TextLimit,      \* bytes of a compaction summary, 4096 in the code
  MaxTranscripts, \* bound: transcripts of the session
  MaxFailures,    \* bound: errors of the lifecycle services
  None

TranscriptAssumption ==
  /\ {Lifecycle, Enabled} \subseteq BOOLEAN
  /\ {Threshold, TextLimit, MaxTranscripts, MaxFailures} \subseteq Nat
  /\ Widths \subseteq Nat \ {0} /\ Widths # {}

VARIABLES
  events,     \* the session of the session service: transcripts, compactions
  counts,     \* compaction_counts of the session, or None
  entries,    \* session_memory_entries of the session, or None
  store,      \* what the memory store holds for the session, or None
  applied,    \* compactions_applied_total
  artifacts,  \* transcript artifacts, in the order of their numbers
  callback,   \* where the running callback is, its word, what it holds
  terminator, \* where terminate_session is, and what it holds
  \* History.
  failures,   \* errors so far
  heard,      \* words that callbacks were called with
  cut         \* a summary was truncated

data == <<events, counts, entries, store, applied, artifacts>>
history == <<failures, heard, cut>>
vars == <<data, callback, terminator, history>>

Word(n, w) == [n |-> n, width |-> w]
NoWord == Word(0, 1)
Entry(kind, text) == [kind |-> kind, text |-> text]
IsCompaction(e) == e.kind = "compaction"
Nothing == [pc |-> "idle", word |-> NoWord, held |-> <<>>]

Init ==
  /\ events = <<>> /\ entries = None /\ store = None
  /\ counts = IF Lifecycle THEN 0 ELSE None
  /\ applied = 0 /\ artifacts = <<>>
  /\ callback = Nothing /\ terminator = [pc |-> "idle", held |-> <<>>]
  /\ failures = 0 /\ heard = <<>> /\ cut = FALSE

At(pc) == callback.pc = pc
Goes(pc) == callback' = [callback EXCEPT !.pc = pc]

----------------------------------------------------------------------------
(* Summaries.                                                              *)

Text(es) == FlattenSeq([i \in 1..Len(es) |-> es[i].text])
Bytes(text) == FoldLeft(LAMBDA sum, word : sum + word.width, 0, text)

(* String::truncate: it panics inside a character. *)
Cuts(text) == {k \in 0..Len(text) : Bytes(SubSeq(text, 1, k)) <= TextLimit}
Truncated(text) ==
  SubSeq(text, 1, CHOOSE k \in Cuts(text) : k + 1 \notin Cuts(text))
Fits(text) == Bytes(text) <= TextLimit
Panics(text) == ~Fits(text) /\ Bytes(Truncated(text)) # TextLimit

(* compact_memory_entries. *)
KeepRecent == IF Threshold \div 2 > 1 THEN Threshold \div 2 ELSE 1
MustCompact(es) == Enabled /\ Threshold >= 2 /\ Len(es) > Threshold
CompactCount(es) == Len(es) - KeepRecent
Old(es) == Text(SubSeq(es, 1, CompactCount(es)))

Compacted(es) ==
  <<Entry("compaction", Truncated(Old(es)))>>
    \o SubSeq(es, CompactCount(es) + 1, Len(es))

----------------------------------------------------------------------------
(* A callback, on_text or on_transcript.                                   *)

Called ==
  /\ At("idle") /\ Len(heard) < MaxTranscripts
  /\ \E w \in Widths :
       LET word == Word(Len(heard) + 1, w)
       IN /\ heard' = Append(heard, word)
          /\ callback' = [pc |-> IF Lifecycle THEN "initialize" ELSE "local",
                          word |-> word, held |-> <<>>]
  /\ UNCHANGED <<data, terminator, failures, cut>>

(* record_transcript: initialize_session finds the session and tracks it. *)
InitializeSession ==
  /\ At("initialize")
  /\ counts' = IF counts = None THEN 0 ELSE counts
  /\ Goes("ingest")
  /\ UNCHANGED <<events, entries, store, applied, artifacts, terminator, history>>

(* Every Threshold-th event the runner of adk-runner adds an event with    *)
(* the summary of what came after the previous one.                        *)
Interval == IF Threshold > 1 THEN Threshold ELSE 1
Since(es) ==
  SelectSeq(es, LAMBDA e : ~IsCompaction(e)
    /\ \A i \in 1..Len(es) : IsCompaction(es[i]) =>
         \E j \in (i + 1)..Len(es) : es[j] = e)

Ingest ==
  /\ At("ingest")
  /\ LET recorded == Append(events, Entry("transcript", <<callback.word>>))
         due == Enabled /\ Len(Since(recorded)) = Interval
         summary == Text(Since(recorded))
     IN IF due /\ Panics(summary)
        THEN events' = recorded /\ Goes("dead") /\ UNCHANGED cut
        ELSE /\ events' = IF due
                  THEN Append(recorded, Entry("compaction", Truncated(summary)))
                  ELSE recorded
             /\ cut' = (cut \/ (due /\ ~Fits(summary)))
             /\ Goes("count")
  /\ UNCHANGED <<counts, entries, store, applied, artifacts, terminator,
                 failures, heard>>

Summaries(es) == SelectSeq(es, IsCompaction)
Compactions(es) == Len(Summaries(es))

Count ==
  /\ At("count")
  /\ applied' = applied + Compactions(events) - (IF counts = None THEN 0 ELSE counts)
  /\ counts' = Compactions(events)
  /\ Goes("snapshot")
  /\ UNCHANGED <<events, entries, store, artifacts, terminator, history>>

(* An error of the lifecycle is logged: the transcript may be missing from *)
(* the snapshot, or the local list is used after all.                      *)
LifecycleFails ==
  /\ failures < MaxFailures
  /\ \/ At("ingest") /\ Goes("snapshot")
     \/ At("snapshot") /\ Goes("local")
  /\ failures' = failures + 1
  /\ UNCHANGED <<data, terminator, heard, cut>>

(* Mutant of EntriesOf: the compaction itself is not an entry. *)
EntriesOf_NoSummary(es) == Since(es)

(* memory_entries_from_session_events: the last compaction and what came   *)
(* after it.                                                               *)
EntriesOf(es) ==
  IF Compactions(es) = 0 THEN Since(es)
  ELSE <<Last(Summaries(es))>> \o Since(es)

Snapshot ==
  /\ At("snapshot")
  /\ callback' = [callback EXCEPT !.pc = "keep", !.held = EntriesOf(events)]
  /\ UNCHANGED <<data, terminator, history>>

Keep ==
  /\ At("keep")
  /\ entries' = callback.held
  /\ Goes("store")
  /\ UNCHANGED <<events, counts, store, applied, artifacts, terminator, history>>

(* The local list: pushed to and compacted under its lock. *)
Local ==
  /\ At("local")
  /\ LET pushed == (IF entries = None THEN <<>> ELSE entries)
                     \o <<Entry("transcript", <<callback.word>>)>>
         kept == IF MustCompact(pushed) THEN Compacted(pushed) ELSE pushed
     IN IF MustCompact(pushed) /\ Panics(Old(pushed))
        THEN entries' = pushed /\ Goes("dead") /\ UNCHANGED <<applied, cut>>
        ELSE /\ entries' = kept
             /\ callback' = [callback EXCEPT !.pc = "store", !.held = kept]
             /\ applied' = applied + (IF MustCompact(pushed) THEN 1 ELSE 0)
             /\ cut' = (cut \/ (MustCompact(pushed) /\ ~Fits(Old(pushed))))
  /\ UNCHANGED <<events, counts, store, artifacts, terminator, failures, heard>>

(* MemoryService::add_session replaces what the store has of a session. *)
AddSession ==
  /\ At("store")
  /\ store' = callback.held
  /\ Goes("artifact")
  /\ UNCHANGED <<events, counts, entries, applied, artifacts, terminator, history>>

SaveArtifact ==
  /\ At("artifact")
  /\ artifacts' = Append(artifacts, callback.word)
  /\ callback' = Nothing
  /\ UNCHANGED <<events, counts, entries, store, applied, terminator, history>>

CallbackStep ==
  \/ InitializeSession \/ Ingest \/ Count \/ LifecycleFails \/ Snapshot \/ Keep
  \/ Local \/ AddSession \/ SaveArtifact

----------------------------------------------------------------------------
(* terminate_session, after the session has left the table.                *)

Terminating(pc) == terminator.pc = pc
TerminatorGoes(pc) == terminator' = [terminator EXCEPT !.pc = pc]

ClearTracking ==
  /\ Terminating("idle")
  /\ counts' = None
  /\ TerminatorGoes("take")
  /\ UNCHANGED <<events, entries, store, applied, artifacts, callback, history>>

TakeEntries ==
  /\ Terminating("take")
  /\ terminator' = IF entries = None THEN [pc |-> "abort", held |-> <<>>]
       ELSE [pc |-> "store",
             held |-> Append(entries, Entry("session", Text(entries)))]
  /\ entries' = None
  /\ UNCHANGED <<events, counts, store, applied, artifacts, callback, history>>

StoreSummary ==
  /\ Terminating("store")
  /\ store' = terminator.held
  /\ TerminatorGoes("abort")
  /\ UNCHANGED <<events, counts, entries, applied, artifacts, callback, history>>

Abort ==
  /\ Terminating("abort")
  /\ terminator' = [pc |-> "done", held |-> <<>>]
  /\ Goes("dead")
  /\ UNCHANGED <<data, history>>

TerminateStep == ClearTracking \/ TakeEntries \/ StoreSummary \/ Abort

Next == Called \/ CallbackStep \/ TerminateStep
Spec == Init /\ [][Next]_vars

----------------------------------------------------------------------------
Mentioned(es) == IF es = None THEN {} ELSE {word.n : word \in ToSet(Text(es))}
Terminated == terminator.pc = "done"

(* Types: the tracked count never exceeds the compactions there are. *)
TypeOK ==
  /\ counts \in 0..Compactions(events) \cup {None} /\ applied \in Nat
  /\ \A es \in {events, callback.held, terminator.held}
                 \cup ({entries, store} \ {None}) :
       \A i \in 1..Len(es) : es[i].kind \in {"transcript", "compaction", "session"}
  /\ callback.pc \in {"idle", "initialize", "ingest", "count", "snapshot",
                      "keep", "local", "store", "artifact", "dead"}
  /\ terminator.pc \in {"idle", "take", "store", "abort", "done"}
  /\ failures \in 0..MaxFailures /\ cut \in BOOLEAN

(* The store never forgets a transcript it had, unless a summary was too   *)
(* long or a service failed (docs/parity-tracking-board.md:79).            *)
MemorySurvives ==
  [][cut' \/ failures > 0 \/ Mentioned(store) \subseteq Mentioned(store')]_vars

(* The same while the session runs.  The second compaction of the          *)
(* lifecycle breaks it, see Superseded.                                    *)
NeverForgets ==
  [][\/ cut' \/ failures > 0 \/ terminator.pc # "idle"
     \/ Mentioned(store) \subseteq Mentioned(store')]_vars

(* A compaction of the lifecycle takes in the events since the one before, *)
(* and the reader of the events keeps the last one only: the transcripts   *)
(* of the earlier ones are superseded.                                     *)
Superseded ==
  UNION {Mentioned(<<Summaries(events)[i]>>) : i \in 1..(Compactions(events) - 1)}

(* What the store of a running session had and has no more is superseded,  *)
(* and none of the last transcripts, as many as the interval of the        *)
(* compactions; without the lifecycle nothing is forgotten.                *)
ForgetsOnlySuperseded ==
  [][\/ cut' \/ failures > 0 \/ terminator.pc # "idle"
     \/ \A n \in Mentioned(store) \ Mentioned(store') :
          n \in Superseded /\ n + Interval <= Len(heard)]_vars

(* Compaction keeps a bounded list, with the last transcripts verbatim and *)
(* in the order they were heard, one summary in front of them.             *)
Bounded ==
  entries # None /\ ~At("dead") =>
    /\ Len(entries) <= (IF Threshold > 2 THEN Threshold ELSE 2)
    /\ \A i \in 1..Len(entries) : IsCompaction(entries[i]) => i = 1
    /\ \A i \in 2..Len(entries) :
         Last(entries[i].text).n > Last(entries[i - 1].text).n

(* Until the session is terminated, compactions_applied_total counts each  *)
(* compaction of the lifecycle once.                                       *)
CompactionsCounted ==
  terminator.pc = "idle" /\ ~At("count") /\ ~At("dead") /\ failures = 0
    => applied = Compactions(events)

(* The artifacts are numbered as the transcripts were heard, and until the *)
(* session is terminated each of them is in the store of memories as well, *)
(* unless it is superseded.                                                *)
ArtifactsFollow ==
  /\ IsPrefix(artifacts, heard)
  /\ ~cut /\ failures = 0 /\ terminator.pc = "idle" =>
       {word.n : word \in ToSet(artifacts)} \subseteq Mentioned(store) \cup Superseded

(* The store of a terminated session ends in the summary of the session.   *)
SummaryKept ==
  Terminated /\ store # None => Last(store).kind = "session"

(* Terminating a session releases its memory entries and its tracking.     *)
MemoryReleased == Terminated => entries = None /\ counts = None

(* A summary that is too long does not end the runtime loop.               *)
CompactionSurvives == ~Terminated => ~At("dead")

(* With more events than the threshold the list is compacted.              *)
CompactsAboveThreshold ==
  Enabled /\ entries # None /\ At("idle") =>
    Len(entries) <= Threshold \/ \E i \in 1..Len(entries) : IsCompaction(entries[i])
=============================================================================
