\* Sessions of four lines: background jobs that end in any order, and kills of them.
CONSTANTS
  Pids = {p1, p2, p3, p4}
  NoPid = NoPid
  Shell = Shell
  MaxPipes = 2
  Capacity = 1
  Output = 1
  MaxLines = 4
  ForkMayFail = FALSE
  Names = {"idle&", "two&", "server&", "kill 1", "kill 2", "exit"}
  Lines <- MCLines
SPECIFICATION Spec
SYMMETRY Symmetry
INVARIANTS
  OwnPids
  NoLostChild
  CheckIsThorough
  NeverWaitsForBackground
PROPERTIES
  KeepsJobTable
\* A session ends.
CHECK_DEADLOCK FALSE
