\* The constants of session.go.
CONSTANTS
  LoadAttempts = 3
  GoneThreshold = 3
SPECIFICATION FairSpec
INVARIANTS
  TypeOK
  StatusCallsDoNotOverlap
  GoneMeansSilence
  ReturnedMeansClosed
PROPERTIES
  BackendSpec
  IdleDeviceEndsSession
\* The session ends.
CHECK_DEADLOCK FALSE
