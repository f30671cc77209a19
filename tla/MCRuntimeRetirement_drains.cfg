SPECIFICATION FairSpec
CONSTANTS
  Call = {c1, c2}
  Admin = {a1, a2}
  Sandbox = {s1}
  BackendFaults = TRUE
  ListFaults = TRUE
  Cancels = TRUE
  None = None
PROPERTIES
  NeverReactivated
  EveryRetirementDrains
