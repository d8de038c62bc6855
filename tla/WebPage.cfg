\* One session, a caller of Stop, a page that polls; a player as the backend.
CONSTANTS
  MaxGen = 1
  Callers = {c1}
  Video = {v1, v2}
  Index = {v1, v2, other}
  None = None
  HTTPOnly = FALSE
SPECIFICATION FairPageSpec
INVARIANT PageTypeOK
PROPERTIES
  StopReturns
  EndedContextEndsSession
  ChoiceIsActedOn
  PageCatchesUp
\* The last session may end with nobody left to start another one.
CHECK_DEADLOCK FALSE
