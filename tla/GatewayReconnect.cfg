\* A client reconnects before its old connection is closed.
CONSTANTS
  Conns = {c1, c2}
  Reqs = {}
  Cancellable = {}
  Principals = {p1}
  Externals = {}
  Sessions = {s1}
  RequirePairing = TRUE
  Anonymous = p1
  InitialTokens = {p1}
  None = None
  Temp = Temp
  MaxAuth = 1
  MaxFinals = 0
SPECIFICATION Spec
PROPERTIES PushedOutputsResume
\* Once every connection has closed nothing is left to do.
CHECK_DEADLOCK FALSE
