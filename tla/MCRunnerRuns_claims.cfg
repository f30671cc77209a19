SPECIFICATION FairSpec
CONSTANTS
  Call = {c1, c2}
  Key = {k1}
  Digest = {f1, f2}
  Run = {u1, u2, u3}
  Invocation = {shared}
  InvocationOf <- SharedInvocation
  shared = shared
  DbFaults = FALSE
  DeleteFaults = TRUE
  CancelFaults = TRUE
  None = None
INVARIANTS
  NoOrphanClaim
PROPERTIES
  EveryClaimEnds
