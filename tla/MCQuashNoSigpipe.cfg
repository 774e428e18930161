\* A pipeline whose last command ends before it has read everything.
CONSTANTS
  Pids = {p1, p2}
  NoPid = NoPid
  Shell = Shell
  MaxPipes = 2
  Capacity = 1
  Output = 2
  MaxLines = 1
  ForkMayFail = FALSE
  Names = {"head"}
  Lines <- MCLines
SPECIFICATION FairSpec
PROPERTIES
  LinesEnd
\* A session ends.
CHECK_DEADLOCK FALSE
