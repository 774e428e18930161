SPECIFICATION MCSpec
CONSTANTS
  MIN_ORDER = 1
  MAX_ORDER = 4
  Bytes <- MCBytes
  Vars = {v1, v2}
  Amounts <- MCAmounts
  Sizes <- MCSizes
  KILO = 4
  INT_RANGE = 64
  NULL = NULL
  NoRequest = NoRequest
INVARIANTS
  Partition
  Coalesced
  OrderRecorded
  HeldByVariables
  HasWhatItAskedFor
PROPERTIES
  KeepsPromise
  CallsReturn
\* A script ends.
CHECK_DEADLOCK FALSE
