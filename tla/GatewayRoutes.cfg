\* A connection and a request of two principals, one route each.
CONSTANTS
  Conns = {c1}
  Reqs = {r1}
  Cancellable = {}
  Principals = {p1, p2}
  Externals = {e1}
  Sessions = {s1, s2}
  RequirePairing = TRUE
  Anonymous = p1
  InitialTokens = {p1, p2}
  None = None
  Temp = Temp
  MaxAuth = 1
  MaxFinals = 0
SPECIFICATION Spec
SYMMETRY SafetySymmetry
INVARIANTS MapsAgree
PROPERTIES ImplementsLifecycle
