\* Counters, memories and files.  Each part stops where its bounds are used up.
SPECIFICATION StoresSpec
CONSTANTS
  Callers = {c1, c2, c3}
  SessionIds = {s1, s2}
  Limit = 2
  Size = 6
  MaxResets = 2
  Absent = Absent
  MaxTranscripts = 6
  MaxListed = 7
  Writers = {w1, w2}
  Users = {u1, u2}
  Sessions = {s1}
  Words = {a, b}
  RecallLimit = 1
  NoUser = NoUser
  None = None
  MaxAdds = 4
  MaxCrashes = 2
  Files = {f1, f2}
  Explicit = {3}
  MaxSaves = 5
  NoVersion = NoVersion
  Partial = Partial
INVARIANTS WithinLimit CounterDrift MemoriesDurable ArtifactsKept
PROPERTY TranscriptsKept
CHECK_DEADLOCK FALSE
