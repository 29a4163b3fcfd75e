\* The parts beside sessions and routes.  Each part stops where its bounds are used up.
SPECIFICATION RequestsSpec
CONSTANTS
  Callers = {t1, t2, t3}
  MaxAttempts = 2
  Lockout = 2
  MaxTime = 5
  MaxCalls = 7
  MaxTries = 3
  Conns = {c1, c2}
  MaxCommands = 3
  Messages = {m1}
  Actions = {a1, a2, a3}
  Forced = {a1, a2}
  DefaultRole = "full"
  RateLimit = 1
  Ids = {i1, i2}
  Calls = {c1, c2}
  Tools = {listed, unlisted}
  OtherName = other
  Allowlist = {listed}
  NoId = NoId
SYMMETRY RequestsSymmetry
INVARIANTS CounterBound GuessBudget LateGuesses EventsDeliveredOnce ForcedIsSupervised TurnsAnswered
PROPERTY ToolsAnswerable
CHECK_DEADLOCK FALSE
