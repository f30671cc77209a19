SPECIFICATION AgentFairSpec
CONSTANTS
  r1 = r1
  r2 = r2
  r3 = r3
  c1 = c1
  Nobody = Nobody
  Run = {r1, r2}
  Cancel = {c1}
  Invocation = {"a"}
  InvocationOf <- MCInvocationOf
  Large = {r1}
  Outcomes <- MCOutcomes
  NoFrame = NoFrame
  Privileged = TRUE
CHECK_DEADLOCK FALSE
INVARIANTS
  NothingLeftBehind
  RoutedAsReported
PROPERTIES OnlyItsOwnKill GateReopens
