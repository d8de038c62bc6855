\* Two sessions in a row, a caller of Stop besides any Start and Select,
\* torrents of up to two videos and an index that is no video's.
CONSTANTS
  MaxGen = 2
  Callers = {c1}
  Video = {v1, v2}
  Index = {v1, v2, other}
  None = None
  HTTPOnly = FALSE
SPECIFICATION Spec
SYMMETRY MCSymmetry
INVARIANTS
  TypeOK
  CurrentIsLive
  StatusIsConsistent
  AdvertisedURLIsServed
  StreamedFileWasChosen
  StoppedMeansTornDown
  CancelledWasAskedFor
  OpenedUploadIsRemoved
PROPERTY SlotSpec
\* The last session may end with nobody left to start another one.
CHECK_DEADLOCK FALSE
