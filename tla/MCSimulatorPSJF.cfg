\* One core, shortest job first with preemption, jobs long enough to be resumed.
CONSTANTS
  NumCores = 1
  NumJobs = 3
  MaxArrival = 5
  RunTimes = {2, 3, 6}
  Priorities = {1}
  Quanta = {1}
  Horizon = 20
  Strides = {1}
  Schemes = {"PSJF"}
  JobNumbers <- MCJobNumbers
  NoJob <- MCNoJob
  Times <- MCTimes
  Tables <- MCTables
SPECIFICATION Spec
INVARIANTS
  RunsShortestRemaining
\* A simulation ends.
CHECK_DEADLOCK FALSE
