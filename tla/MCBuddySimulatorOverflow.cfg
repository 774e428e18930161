SPECIFICATION MCSpec
CONSTANTS
  MIN_ORDER = 1
  MAX_ORDER = 3
  Bytes <- MCBytes
  Vars = {v1, v2}
  Amounts <- MCAmountsLarge
  Sizes <- MCSizes
  KILO = 4
  INT_RANGE = 64
  NULL = NULL
  NoRequest = NoRequest
INVARIANTS
  HasWhatItAskedFor
\* A script ends.
CHECK_DEADLOCK FALSE
