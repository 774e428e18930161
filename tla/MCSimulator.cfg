\* Two cores, four jobs, so that two wait and two preemptions can cross; files
\* list them by arrival, or second, fourth, first, third.
CONSTANTS
  NumCores = 2
  NumJobs = 4
  MaxArrival = 4
  RunTimes = {1, 4}
  Priorities = {1, 2}
  Quanta = {1, 2}
  Horizon = 18
  Strides = {1, 2}
  Schemes = {"FCFS", "SJF", "PSJF", "PRI", "PPRI", "RR"}
  JobNumbers <- MCJobNumbers
  NoJob <- MCNoJob
  Times <- MCTimes
  Tables <- MCTables
SPECIFICATION Spec
INVARIANTS
  CoresAgree
  StatsTrue
  StartsInOrder
  RRBoundedWait
PROPERTIES
  Terminates
  LegalCalls
\* A simulation ends.
CHECK_DEADLOCK FALSE
