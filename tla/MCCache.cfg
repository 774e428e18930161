SPECIFICATION CacheSpec
CONSTANTS
  BlockSize_Nbr = 2
  Lines_Nbr = 4
  Tag_Nbr = 3
  CacheAssociativity = 3
  Short = 12
  MaxTrace = 3
INVARIANTS
  EvictsWhenFull
\* The program ends.
CHECK_DEADLOCK FALSE
