SPECIFICATION FairSpec
CONSTANTS
  t1 = t1
  t2 = t2
  l1 = l1
  l2 = l2
  l3 = l3
  l4 = l4
  None = None
  Task = {t1, t2}
  Lease = {l1, l2, l3, l4}
  TTL = 2
  Margin = 1
  MaxLost = 1
INVARIANTS InvokedLeaseIsKnown NoLeaseForgotten
PROPERTIES OutageEnds
