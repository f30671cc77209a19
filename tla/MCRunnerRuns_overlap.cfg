SPECIFICATION Spec
CONSTANTS
  Call = {c1, c2}
  Key = {k1}
  Digest = {f1}
  Run = {u1, u2}
  Invocation = {c1, c2}
  InvocationOf <- OwnInvocation
  shared = shared
  DbFaults = FALSE
  DeleteFaults = FALSE
  CancelFaults = TRUE
  None = None
SYMMETRY Symmetry
INVARIANTS
  AtMostOneExecution
