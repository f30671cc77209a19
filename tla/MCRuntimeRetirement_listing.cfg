SPECIFICATION Spec
CONSTANTS
  Call = {c1}
  Admin = {a1}
  Sandbox = {s1}
  BackendFaults = FALSE
  ListFaults = TRUE
  Cancels = FALSE
  None = None
INVARIANTS
  RetiredMeansQuiet
