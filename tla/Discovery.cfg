\* Three devices, two names that differ in case only and one that differs.
CONSTANTS
  UUID = {u1, u2, u3}
  Name = {1, 2, 3}
  discoveryRounds = 2
  Wanted = 2
SPECIFICATION FairSpec
INVARIANTS
  TypeOK
  EnumerationIsComplete
  SearchIsThorough
PROPERTY SearchEnds
\* The search ends.
CHECK_DEADLOCK FALSE
