\* Two background jobs, the first of which may be over when the second starts.
CONSTANTS
  Pids = {p1, p2}
  NoPid = NoPid
  Shell = Shell
  MaxPipes = 2
  Capacity = 1
  Output = 1
  MaxLines = 2
  ForkMayFail = FALSE
  Names = {"idle&"}
  Lines <- MCLines
SPECIFICATION Spec
SYMMETRY Symmetry
PROPERTIES
  NumbersAfterLargest
\* A session ends.
CHECK_DEADLOCK FALSE
