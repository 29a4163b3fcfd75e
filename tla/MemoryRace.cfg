\* terminate_session writes the entries it took over what a callback has stored.
CONSTANTS
  Lifecycle = TRUE
  Enabled = FALSE
  Threshold = 3
  Widths = {1}
  TextLimit = 4
  MaxTranscripts = 2
  MaxFailures = 0
  None = None
SPECIFICATION Spec
PROPERTIES MemorySurvives
\* The session ends.
CHECK_DEADLOCK FALSE
