\* Liveness of the parts made of tasks and channels, each under its own fairness.
\* Each part stops where its bounds are used up.
SPECIFICATION TasksSpec
CONSTANTS
  Commands = {k1}
  MaxConnections = 2
  MaxEvents = 1
  Conns = {c1, c2}
  Sessions = {s1}
  Kinds = {"prompt", "close"}
  StandardRoom = 2
  NoticeRoom = 2
  MaxFrames = 3
  MaxOutputs = 1
  Jobs = {j1, j2}
  Principals = {p1}
  Cancellers = {x1, x2}
  Prompt = FALSE
  Ids = {i1, i2}
  Terminators = {t1, t2}
  MaxAttempts = 2
  MaxLosses = 1
  Droppable = {}
  Media = {"text"}
  EventRoom = 1
  MaxSpoken = 2
  None = None
PROPERTIES MailboxesMove JobsGoOn BridgeEnds SessionsEnd 
CHECK_DEADLOCK FALSE
