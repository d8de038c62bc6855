\* Answers for both prompts come from a pipe.
CONSTANTS
  Dashboard = FALSE
  Terminal = FALSE
  MaxLines = 2
SPECIFICATION Spec
INVARIANT NoSelectionMeansNoChoice
\* The process ends.
CHECK_DEADLOCK FALSE
