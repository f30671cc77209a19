SPECIFICATION Spec
CONSTANTS
  Call = {c1, c2}
  Key = {k1, k2}
  Digest = {f1}
  Run = {u1, u2}
  Invocation = {shared}
  InvocationOf <- SharedInvocation
  shared = shared
  DbFaults = FALSE
  DeleteFaults = FALSE
  CancelFaults = FALSE
  None = None
SYMMETRY Symmetry
INVARIANTS
  Cancellable
