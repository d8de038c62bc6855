\* Every choice of flags; a terminal with the dashboard; two lines typed.
CONSTANTS
  Dashboard = TRUE
  Terminal = TRUE
  MaxLines = 2
SPECIFICATION Spec
INVARIANTS
  TypeOK
  ReturnReleases
  FailuresAreReported
  UnreachableOnlyIfUnchecked
PROPERTIES
  OneEndsAll
  SignalEndsProcess
\* The process ends.
CHECK_DEADLOCK FALSE
