SPECIFICATION Spec
CONSTANTS
  Exec = {x1}
  Publisher = {p1}
  Image = {i1, i2}
  First = i1
  LostCalls <- MCNoCall
  Drops = TRUE
  None = None
INVARIANT
  NoVariantDangles
