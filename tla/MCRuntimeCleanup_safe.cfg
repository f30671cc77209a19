SPECIFICATION FairSpec
CONSTANTS
  Exec = {x1}
  Publisher = {p1}
  Image = {i1, i2}
  First = i1
  LostCalls <- MCSome
  Drops = TRUE
  None = None
INVARIANTS
  GatesStayClosed
  PublishedImageExists
  RunningImageExists
PROPERTY
  EveryExecutionEnds
