\* The parts made of tasks and channels.  Each part stops where its bounds are used up.
SPECIFICATION TasksSpec
CONSTANTS
  Commands = {k1, k2}
  MaxConnections = 2
  MaxEvents = 0
  Conns = {c1, c2}
  Sessions = {s1}
  Kinds = {"probe", "prompt", "close"}
  StandardRoom = 2
  NoticeRoom = 2
  MaxFrames = 3
  MaxOutputs = 2
  Jobs = {j1, j2}
  Principals = {p1, p2}
  Cancellers = {x1, x2}
  Prompt = TRUE
  Ids = {i1, i2}
  Terminators = {t1, t2}
  MaxAttempts = 2
  MaxLosses = 3
  Droppable = {i1, i2}
  Media = {"audio", "text"}
  EventRoom = 2
  MaxSpoken = 2
  None = None
SYMMETRY TaskSymmetry
INVARIANTS OkMeansExecuted PendingIsAccounted WaitingIsAnswerable MailboxesInOrder JobsAccounted SessionsAccounted EventsNumbered
CHECK_DEADLOCK FALSE
