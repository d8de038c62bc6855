\* Two snapshots on their way at once, two bytes, three moments.
CONSTANTS
  Commands = {c1, c2}
  MaxBytes = 2
  MaxClock = 3
  Maps <- MCMaps
  Widths = {4, 5}
SPECIFICATION FairSpec
INVARIANTS
  TypeOK
  StripShowsEveryPiece
PROPERTY TransferCatchesUp
