\* Two requests with a route each and two final transcripts.
CONSTANTS
  Conns = {}
  Reqs = {r1, r2}
  Cancellable = {}
  Principals = {p1, p2}
  Externals = {e1}
  Sessions = {s1, s2}
  RequirePairing = TRUE
  Anonymous = p1
  InitialTokens = {p1, p2}
  None = None
  Temp = Temp
  MaxAuth = 1
  MaxFinals = 2
SPECIFICATION Spec
SYMMETRY SafetySymmetry
INVARIANTS RoutesIsolated OutboxIsolated OutboxOrdered
