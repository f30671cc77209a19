SPECIFICATION Spec
CONSTANTS
  Exec = {x1}
  Publisher = {p1}
  Image = {i1, i2}
  First = i1
  LostCalls <- MCDeletion
  Drops = FALSE
  None = None
INVARIANT
  DeletedStaysClosed
