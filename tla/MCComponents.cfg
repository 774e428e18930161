\* Two lines: pipelines of up to three commands whose sources write more than a
\* pipe holds. Rings with up to three elements, of which two differ; first
\* pools of one and two bytes, blocks of up to five, malloc failing at will;
\* files of up to two addresses, of 24, and an end, where half of them fit in
\* the bytes of a cut-off one; up to two instructions.
SPECIFICATION MCSpec
CONSTANTS
  Pids = {p1, p2, p3, p4}
  NoPid = NoPid
  Shell = Shell
  MaxPipes = 4
  Capacity = 1
  Output = 2
  MaxLines = 2
  ForkMayFail = FALSE
  Names = {"copy", "chain", "redirect", "jobs", "server&", "kill 1"}
  Lines <- MCLines
  n1 = n1
  n2 = n2
  n3 = n3
  n4 = n4
  a = a
  b = b
  c = c
  Nodes <- MCNodes
  Objects <- MCObjects
  Compare <- MCCompare
  MaxSize = 4
  NULL = NULL
  Values = {v1, v2}
  Junk = Junk
  InitCaps = {0, 3}
  MaxLength = 3
  InitSizes = {0, 2}
  Sizes = {0, 1, 5}
  MaxPools = 2
  MallocMayFail = TRUE
  BlockSize_Nbr = 2
  Lines_Nbr = 4
  Tag_Nbr = 3
  CacheAssociativity = 3
  Short = 12
  MaxTrace = 2
  WordSize = 8
  Instructions <- MCInstructions
  MaxExecuted = 2
INVARIANTS
  PipesConnect
  ForegroundDone
  ListOK
  BlocksApart
  CountsRepeats
PROPERTIES
  LinesEnd
  IsPriorityQueue
  IsSequence
  Returns
  ComputesWhatItNames
\* A session ends; a program may exit.
CHECK_DEADLOCK FALSE
