\* One uploaded torrent.
CONSTANTS
  MaxGen = 1
  Callers = {c1}
  Video = {v1, v2}
  Index = {v1, v2, other}
  None = None
  HTTPOnly = FALSE
SPECIFICATION Spec
INVARIANT UploadIsRemoved
\* The last session may end with nobody left to start another one.
CHECK_DEADLOCK FALSE
