SPECIFICATION Spec
CONSTANTS
  Call = {c1, c2, c3}
  Admin = {a1, a2}
  Sandbox = {s1, s2}
  BackendFaults = TRUE
  ListFaults = FALSE
  Cancels = FALSE
  None = None
SYMMETRY Symmetry
INVARIANTS
  SafeMeansQuiet
PROPERTIES
  ImplementsImageGate
