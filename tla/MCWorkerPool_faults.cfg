SPECIFICATION Spec
CONSTANTS
  Thread = {t1, t2}
  Reaper = reaper
  Worker = {w1, w2}
  Tenant = {A, B}
  i1 = i1
  r1 = r1
  r2 = r2
  Release = {r1}
  Image = {i1}
  ImageOf <- OneImage
  Reusable = {i1}
  MaxLive = 2
  MaxLivePerTenant = 1
  MaxCreating = 1
  MaxInstalled = 1
  CleanupPage = 2
  Foreign = 1
  BackendFaults = TRUE
  None = None
SYMMETRY Symmetry
INVARIANTS
  TenantIsolation
  QuotaExact
  ExclusiveOwnership
