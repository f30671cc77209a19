SPECIFICATION Spec
CONSTANTS
  big = big
  small = small
  Key <- MCKey
  Superset <- MCSuperset
  Request = {r1, r2, r3}
  Admin = {a1}
  Image = {i1, i2}
  MaxFaults = 1
  Retries = TRUE
  Crashes = FALSE
  None = None
SYMMETRY MCSymmetry
INVARIANT
  NeverTwoBuilds
