SPECIFICATION Spec
CONSTANTS
  Exec = {x1, x2}
  Publisher = {p1}
  Image = {i1, i2}
  First = i1
  LostCalls <- MCNoCall
  Drops = FALSE
  None = None
INVARIANT
  GatesStayClosed
