\* Three environments, two keys, one edit by hand; three paths of a configuration.
CONSTANTS
  k1 = k1
  k2 = k2
  Keys <- MCKeys
  Environments <- MCEnvironments
  WsUrls = {ws}
  OtherUrls = {http}
  MaxEdits = 1
  Blank = Blank
  None = None
  Paths = {relative, absolute, other}
  Absolute = {absolute, other}
SPECIFICATION CommandsSpec
INVARIANTS OnboardedAsAsked OnboardedStarts DoctorForesees ServiceAsReported
