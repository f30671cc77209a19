SPECIFICATION FairSpec
CONSTANTS
  Thread = {t1, t2}
  Reaper = reaper
  Worker = {w1, w2}
  Tenant = {A}
  i1 = i1
  r1 = r1
  r2 = r2
  Release = {r1, r2}
  Image = {i1}
  ImageOf <- OneImage
  Reusable = {i1}
  MaxLive = 1
  MaxLivePerTenant = 1
  MaxCreating = 1
  MaxInstalled = 1
  CleanupPage = 1
  Foreign = 1
  BackendFaults = FALSE
  None = None
INVARIANTS
  SandboxesWithinQuota
  DeletionStillToCome
PROPERTIES
  IdleCapacityReturned
