\* One session is enough for two choices.
CONSTANTS
  MaxGen = 1
  Callers = {c1}
  Video = {v1, v2}
  Index = {v1, v2, other}
  None = None
  HTTPOnly = FALSE
SPECIFICATION Spec
INVARIANT AcknowledgedFileIsStreamed
\* The last session may end with nobody left to start another one.
CHECK_DEADLOCK FALSE
