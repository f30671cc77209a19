SPECIFICATION Spec
CONSTANTS
  variant = variant
  Job = {j1, j2}
  Variant <- MCVariant
  VariantOf <- MCVariantOf
  Image = {i1, i2}
  Bits = {b1, b2}
  Workers = 2
  Drops = TRUE
  Crashes = TRUE
  None = None
INVARIANTS
  PublishedIsReadable
  JobPublishedItsBits
  OneWriter
PROPERTY
  EveryJobEnds
