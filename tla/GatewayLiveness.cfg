\* Pairing disabled: a connection, a request whose client may leave at any step,
\* and a transcript.
CONSTANTS
  Conns = {c1}
  Reqs = {r1}
  Cancellable = {r1}
  Principals = {p1}
  Externals = {e1}
  Sessions = {s1}
  RequirePairing = FALSE
  Anonymous = p1
  InitialTokens = {}
  None = None
  Temp = Temp
  MaxAuth = 1
  MaxFinals = 1
SPECIFICATION FairSpec
PROPERTIES  TerminationCompletes ImplementsLifecycle
