\* Two sessions in a row, each with two videos to choose from.
CONSTANTS
  MaxGen = 2
  Callers = {c1}
  Video = {v1, v2}
  Index = {v1, v2}
  None = None
  HTTPOnly = FALSE
SPECIFICATION PageSpec
INVARIANT PickerIsOfTheTorrentShown
\* The last session may end with nobody left to start another one.
CHECK_DEADLOCK FALSE
