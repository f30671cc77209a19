SPECIFICATION Spec
CONSTANTS
  Call = {c1}
  Admin = {a1, a2}
  Sandbox = {s1}
  BackendFaults = FALSE
  ListFaults = FALSE
  Cancels = TRUE
  None = None
INVARIANTS
  RetiredMeansQuiet
