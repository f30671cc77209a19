SPECIFICATION Spec
CONSTANTS
  Call = {c1, c2}
  Key = {k1, k2}
  Digest = {f1, f2}
  Run = {u1, u2, u3}
  Invocation = {c1, c2}
  InvocationOf <- OwnInvocation
  shared = shared
  DbFaults = TRUE
  DeleteFaults = FALSE
  CancelFaults = FALSE
  None = None
SYMMETRY Symmetry
INVARIANTS
  NoOverlap
  TablesAgree
  CompletionNeverLost
PROPERTIES
  ImplementsIdempotentExecution
