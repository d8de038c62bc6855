\* One session, one handler at a time besides the shutdown; a player, and a
\* torrent client that may hang.
CONSTANTS
  MaxGen = 1
  Requests = {r1}
  Closer = closer
  Callers = {r1, closer}
  Video = {v1, v2}
  Index = {v1, v2, other}
  None = None
  HTTPOnly = FALSE
SPECIFICATION ShutdownSpec
INVARIANTS
  WebTypeOK
  UploadHasOneKeeper
PROPERTY SignalEndsProcess
\* The process ends.
CHECK_DEADLOCK FALSE
