SPECIFICATION Spec
CONSTANTS
  a1 = a1
  a2 = a2
  b1 = b1
  j1 = j1
  j2 = j2
  None = None
  Operator = {"a", "b"}
  Variant = {a1, a2, b1}
  OperatorOf <- MCOperatorOf
  Job = {j1, j2}
  Workers = 2
  Drops = TRUE
  Crashes = TRUE
INVARIANTS BuildsSerialised
CHECK_DEADLOCK FALSE
