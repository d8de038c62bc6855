\* Three messages, two commands in flight, a log pane of two lines.
CONSTANTS
  MaxSent = 3
  MaxPresses = 2
  MaxLogLines = 2
SPECIFICATION FairSpec
INVARIANTS
  TypeOK
  MessagesAreConserved
PROPERTIES
  OvertakenOnlyAtStart
  EverySendReturns
\* The bounds on messages and commands end the run.
CHECK_DEADLOCK FALSE
