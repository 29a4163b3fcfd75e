\* Two connections, two principals that pair, two sessions: creation, use,
\* reconnect, termination and closing overlap, and a connection may
\* authenticate again as the other principal.
CONSTANTS
  Conns = {c1, c2}
  Reqs = {}
  Cancellable = {}
  Principals = {p1, p2}
  Externals = {}
  Sessions = {s1, s2}
  RequirePairing = TRUE
  Anonymous = p1
  InitialTokens = {}
  None = None
  Temp = Temp
  MaxAuth = 2
  MaxFinals = 0
SPECIFICATION Spec
SYMMETRY SafetySymmetry
INVARIANTS OwnedIsLive NoOrphans AccessWasGranted DeliveryWasGranted
\* Once every connection has closed nothing is left to do.
CHECK_DEADLOCK FALSE
