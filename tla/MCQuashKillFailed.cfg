\* A kill of a job one of whose forks failed.
CONSTANTS
  Pids = {p1, p2, p3}
  NoPid = NoPid
  Shell = Shell
  MaxPipes = 2
  Capacity = 1
  Output = 1
  MaxLines = 3
  ForkMayFail = TRUE
  Names = {"two&", "idle&", "kill 1"}
  Lines <- MCLines
SPECIFICATION Spec
SYMMETRY Symmetry
INVARIANTS
  KillsOwn
\* A session ends.
CHECK_DEADLOCK FALSE
