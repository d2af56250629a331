SPECIFICATION Spec
CONSTANTS
  None = none
  Files = {raw,meta}
  Metadata = {meta}
  RawFiles = {raw}
  MaxBlocks = 1
  Transfers = {t1,t2}
  RetryLimit = 2
INVARIANTS TypeOK ManifestHolds
SYMMETRY Alike
CHECK_DEADLOCK FALSE
